----------------------------- MODULE NodeProofs -----------------------------
(***************************************************************************)
(* Invariants of Node, proved for any number of peers and connections, any *)
(* addresses and all capacities.                                           *)
(***************************************************************************)
EXTENDS Node, TLAPS

\* What the actions do to a connection object leaves it well typed.
LEMMA ConnectionUpdates ==
    ASSUME NEW r \in Connection
    PROVE  /\ [r EXCEPT !.die = TRUE] \in Connection
           /\ [r EXCEPT !.pinged = TRUE] \in Connection
           /\ [r EXCEPT !.age = 0, !.state = "Established"] \in Connection
           /\ r.age < MaxAge => [r EXCEPT !.age = @ + 1] \in Connection
           /\ r.pipeline # <<>> => [r EXCEPT !.pipeline = Tail(@)] \in Connection
           /\ \A x \in {"Pong", "Data"} : Len(r.pipeline) < PipelineCap =>
                [r EXCEPT !.pipeline = Append(@, x)] \in Connection
           /\ r.loop # "unborn" =>
                /\ \A l \in {"run", "close", "closed", "done"} :
                     [r EXCEPT !.loop = l] \in Connection
                /\ [r EXCEPT !.die = TRUE, !.loop = "run"] \in Connection
<1> USE NodeAssumption
<1>1. [r EXCEPT !.die = TRUE] \in Connection /\ [r EXCEPT !.pinged = TRUE] \in Connection
  BY DEF Connection, ConnectionFields
<1>2. [r EXCEPT !.age = 0, !.state = "Established"] \in Connection
  <2>1. r \in ConnectionFields
    BY DEF Connection
  <2> DEFINE s == [r EXCEPT !.age = 0]
  <2>2. s \in ConnectionFields
    BY <2>1 DEF ConnectionFields, MaxAge
  <2>3. [s EXCEPT !.state = "Established"] \in ConnectionFields
    BY <2>2 DEF ConnectionFields
  <2>4. [r EXCEPT !.age = 0, !.state = "Established"] = [s EXCEPT !.state = "Established"]
    OBVIOUS
  <2>5. /\ [s EXCEPT !.state = "Established"].pipeline = r.pipeline
        /\ [s EXCEPT !.state = "Established"].loop = r.loop
        /\ [s EXCEPT !.state = "Established"].peerVirtAddr = r.peerVirtAddr
        /\ [s EXCEPT !.state = "Established"].remote = r.remote
    BY <2>1 DEF ConnectionFields
  <2> QED
    BY <2>3, <2>4, <2>5 DEF Connection
<1>3. r.age < MaxAge => [r EXCEPT !.age = @ + 1] \in Connection
  BY DEF Connection, ConnectionFields, MaxAge
<1>4. ASSUME r.pipeline # <<>>
      PROVE  [r EXCEPT !.pipeline = Tail(@)] \in Connection
  <2>1. r \in ConnectionFields /\ r.pipeline \in Seq({"Pong", "Data"})
    BY DEF Connection, ConnectionFields
  <2>2. /\ Tail(r.pipeline) \in Seq({"Pong", "Data"})
        /\ Len(Tail(r.pipeline)) <= Len(r.pipeline)
        /\ Len(Tail(r.pipeline)) \in Nat /\ Len(r.pipeline) \in Nat
    BY <1>4, <2>1
  <2>3. [r EXCEPT !.pipeline = Tail(r.pipeline)] \in ConnectionFields
    BY <2>1, <2>2 DEF ConnectionFields
  <2>4. Len(Tail(r.pipeline)) <= PipelineCap
    BY <2>2 DEF Connection
  <2> QED
    BY <2>1, <2>3, <2>4 DEF Connection, ConnectionFields
<1>5. ASSUME NEW x \in {"Pong", "Data"}, Len(r.pipeline) < PipelineCap
      PROVE  [r EXCEPT !.pipeline = Append(@, x)] \in Connection
  <2>1. r \in ConnectionFields /\ r.pipeline \in Seq({"Pong", "Data"})
    BY DEF Connection, ConnectionFields
  <2>2. /\ Append(r.pipeline, x) \in Seq({"Pong", "Data"})
        /\ Len(Append(r.pipeline, x)) = Len(r.pipeline) + 1
        /\ Len(r.pipeline) \in Nat
    BY <2>1
  <2>3. [r EXCEPT !.pipeline = Append(r.pipeline, x)] \in ConnectionFields
    BY <2>1, <2>2 DEF ConnectionFields
  <2>4. Len(Append(r.pipeline, x)) <= PipelineCap
    BY <1>5, <2>2
  <2> QED
    BY <2>1, <2>3, <2>4 DEF Connection, ConnectionFields
<1>6. ASSUME r.loop # "unborn", NEW l \in {"run", "close", "closed", "done"}
      PROVE  [r EXCEPT !.loop = l] \in Connection
  BY <1>6 DEF Connection, ConnectionFields
<1>7. ASSUME r.loop # "unborn"
      PROVE  [r EXCEPT !.die = TRUE, !.loop = "run"] \in Connection
  BY <1>7 DEF Connection, ConnectionFields
<1> QED
  BY <1>1, <1>2, <1>3, <1>4, <1>5, <1>6, <1>7

\* What the actions do to a read goroutine leaves it well typed.
LEMMA ReaderUpdates ==
    ASSUME NEW r \in ReaderState
    PROVE  /\ r.pc # "apply" =>
                /\ \A p \in {"idle", "send", "lookup", "exit"} :
                     [r EXCEPT !.pc = p] \in ReaderState
                /\ \A t \in {"Ping", "Pong"} :
                     [r EXCEPT !.pc = "decode", !.typ = t] \in ReaderState
           /\ \A c \in Conns : [r EXCEPT !.pc = "apply", !.conn = c] \in ReaderState
  BY DEF ReaderState

\* A dialled connection is well typed.
LEMMA NewConnectionType ==
    ASSUME NEW v \in Peers, NEW a \in Addrs
    PROVE  NewConnection(v, a) \in Connection
<1> USE NodeAssumption
<1>1. Unborn \in ConnectionFields
  BY DEF Unborn, ConnectionFields, MaxAge
<1>2. NewConnection(v, a) \in ConnectionFields
  BY <1>1 DEF NewConnection, ConnectionFields
<1>3. NewConnection(v, a).pipeline = <<>>
  BY <1>1 DEF NewConnection, Unborn
<1>4. NewConnection(v, a).peerVirtAddr = v /\ NewConnection(v, a).remote = a
  BY <1>1 DEF NewConnection, ConnectionFields
<1> QED
  BY <1>2, <1>3, <1>4 DEF Connection

\* A racing decoder finds an address, nothing, or a string without bytes.
LEMMA SeenType ==
    ASSUME TypeOK, NEW c \in Conns, NEW v \in Peers \cup {Blank, NoBytes}
    PROVE  Seen(c, v) \subseteq Peers \cup {Blank, NoBytes}
<1>1. \A d \in Conns : conn[d].peerVirtAddr \in Peers \cup {Blank}
  BY DEF TypeOK, Connection, ConnectionFields
<1>2. Racers(c) \subseteq Conns
  BY DEF Racers
<1>3. \A p, q \in Peers : Cut[p][q] \subseteq Peers
  BY CutAssumption
<1> QED
  BY <1>1, <1>2, <1>3 DEF Seen

LEMMA InitTypeOK == Init => TypeOK
<1> USE NodeAssumption
<1>1. Unborn \in Connection
  BY DEF Unborn, Connection, ConnectionFields, MaxAge
<1>2. [NoPacket EXCEPT !.pc = "off"] \in ReaderState
  BY DEF NoPacket, ReaderState
<1>3. ASSUME Init
      PROVE  TypeOK
  <2>1. conn \in [Conns -> Connection] /\ reader \in [Conns -> ReaderState]
    BY <1>1, <1>2, <1>3 DEF Init
  <2>2. /\ connections \in [Peers -> Conns \cup {NoConn}]
        /\ protos \in [{"Ping", "Pong"} -> Peers \cup {Blank, NoBytes}]
        /\ pending \in [Peers -> {"none", "recent", "old"}]
        /\ requests \in [Peers -> 0..MaxRequests]
        /\ device \in 0..DeviceCap
    BY <1>3 DEF Init
  <2>3. panicked \in {"none", "close", "read"} /\ heard \subseteq Addrs \cup {Blank}
    BY <1>3 DEF Init
  <2> QED
    BY <1>3, <2>1, <2>2, <2>3 DEF Init, TypeOK
<1> QED
  BY <1>3

\* Every step keeps the types.
LEMMA NextTypeOK ==
    ASSUME TypeOK, Next
    PROVE  TypeOK'
<1> USE NodeAssumption
<1>a. NoPacket \in ReaderState
  BY DEF NoPacket, ReaderState
<1>1. ASSUME NEW v \in Peers, NEW a \in AddrsOf[v], OnOpenTunnel(v, a)
      PROVE  TypeOK'
  BY <1>1 DEF OnOpenTunnel, TypeOK, Handling, ScheduleClosing, ScheduleDialling
<1>2. ASSUME ScheduleClose
      PROVE  TypeOK'
  <2>1. schedule \in ScheduleClosing
    BY <1>2 DEF ScheduleClose, TypeOK, AtRead, AtSend, ScheduleDialling
  <2>2. [schedule EXCEPT !.pc = "dial", !.conn = NoConn] \in ScheduleDialling
    BY <2>1 DEF ScheduleClosing, ScheduleDialling
  <2>3. schedule.conn \in Conns
    BY <2>1 DEF ScheduleClosing
  <2>4. [conn[schedule.conn] EXCEPT !.die = TRUE] \in Connection
    BY <2>3, ConnectionUpdates DEF TypeOK
  <2>5. conn' \in [Conns -> Connection]
    BY <1>2, <2>3, <2>4 DEF ScheduleClose, TypeOK
  <2> QED
    BY <1>2, <2>2, <2>5 DEF ScheduleClose, TypeOK
<1>3. ASSUME NEW c \in Conns, DialOK(c)
      PROVE  TypeOK'
  <2>1. schedule.virt \in Peers /\ schedule.udp \in Addrs
    BY <1>3 DEF DialOK, TypeOK, AtRead, AtSend, ScheduleClosing, ScheduleDialling
  <2>2. NewConnection(schedule.virt, schedule.udp) \in Connection
    BY <2>1, NewConnectionType
  <2>3. conn' \in [Conns -> Connection]
    BY <1>3, <2>2 DEF DialOK, TypeOK
  <2> QED
    BY <1>3, <2>1, <2>3 DEF DialOK, TypeOK
<1>4. ASSUME DialError
      PROVE  TypeOK'
  BY <1>4 DEF DialError, TypeOK
<1>5. ASSUME OnRelayedData \/ ScheduleSend
      PROVE  TypeOK'
  BY <1>5 DEF OnRelayedData, ScheduleSend, Enqueue, TypeOK
<1>6. ASSUME NEW c \in Conns, LoopStart(c)
      PROVE  TypeOK'
  <2>1. [conn[c] EXCEPT !.loop = "run"] \in Connection
    BY <1>6, ConnectionUpdates DEF LoopStart, TypeOK
  <2>2. conn' \in [Conns -> Connection]
    BY <1>6, <2>1 DEF LoopStart, TypeOK
  <2>3. reader' \in [Conns -> ReaderState]
    BY <1>6, <1>a DEF LoopStart, TypeOK
  <2> QED
    BY <1>6, <2>2, <2>3 DEF LoopStart, TypeOK, LoopVars
<1>7. ASSUME NEW c \in Conns, LoopConnecting(c)
      PROVE  TypeOK'
  <2>1. [conn[c] EXCEPT !.pinged = TRUE] \in Connection
    BY <1>7, ConnectionUpdates DEF LoopConnecting, TypeOK
  <2>2. conn' \in [Conns -> Connection]
    BY <1>7, <2>1 DEF LoopConnecting, TypeOK
  <2> QED
    BY <1>7, <2>2 DEF LoopConnecting, TypeOK, LoopVars
<1>8. ASSUME NEW c \in Conns, LoopExpired(c)
      PROVE  TypeOK'
  <2>1. [conn[c] EXCEPT !.loop = "close"] \in Connection
    BY <1>8, ConnectionUpdates DEF LoopExpired, TypeOK
  <2>2. conn' \in [Conns -> Connection]
    BY <1>8, <2>1 DEF LoopExpired, TypeOK
  <2> QED
    BY <1>8, <2>2 DEF LoopExpired, TypeOK, LoopVars
<1>9. ASSUME NEW c \in Conns, LoopClose(c)
      PROVE  TypeOK'
  <2>1. [conn[c] EXCEPT !.die = TRUE, !.loop = "run"] \in Connection
    BY <1>9, ConnectionUpdates DEF LoopClose, TypeOK
  <2>2. conn' \in [Conns -> Connection]
    BY <1>9, <2>1 DEF LoopClose, TypeOK
  <2> QED
    BY <1>9, <2>2 DEF LoopClose, TypeOK, LoopVars
<1>10. ASSUME NEW c \in Conns, LoopKeepalive(c)
      PROVE  TypeOK'
  <2>1. [conn[c] EXCEPT !.pinged = TRUE] \in Connection
    BY <1>10, ConnectionUpdates DEF LoopKeepalive, TypeOK
  <2>2. conn' \in [Conns -> Connection]
    BY <1>10, <2>1 DEF LoopKeepalive, TypeOK
  <2> QED
    BY <1>10, <2>2 DEF LoopKeepalive, TypeOK, LoopVars
<1>11. ASSUME NEW c \in Conns, LoopSend(c)
      PROVE  TypeOK'
  <2>1. [conn[c] EXCEPT !.pipeline = Tail(@)] \in Connection
    BY <1>11, ConnectionUpdates DEF LoopSend, TypeOK
  <2>2. conn' \in [Conns -> Connection]
    BY <1>11, <2>1 DEF LoopSend, TypeOK
  <2> QED
    BY <1>11, <2>2 DEF LoopSend, TypeOK, LoopVars
<1>12. ASSUME NEW c \in Conns, LoopDie(c)
      PROVE  TypeOK'
  <2>1. [conn[c] EXCEPT !.loop = "closed"] \in Connection
    BY <1>12, ConnectionUpdates DEF LoopDie, TypeOK
  <2>2. conn' \in [Conns -> Connection]
    BY <1>12, <2>1 DEF LoopDie, TypeOK
  <2> QED
    BY <1>12, <2>2 DEF LoopDie, TypeOK, LoopVars
<1>13. ASSUME NEW c \in Conns, HandleClosed(c)
      PROVE  TypeOK'
  <2>1. [conn[c] EXCEPT !.loop = "done"] \in Connection
    BY <1>13, ConnectionUpdates DEF HandleClosed, TypeOK
  <2>2. conn' \in [Conns -> Connection]
    BY <1>13, <2>1 DEF HandleClosed, TypeOK
  <2> QED
    BY <1>13, <2>2 DEF HandleClosed, TypeOK, LoopVars, Connection, ConnectionFields
<1>14. ASSUME NEW c \in Conns, NEW typ \in {"Ping", "Pong"}, ReadPacket(c, typ)
      PROVE  TypeOK'
  <2>1. [reader[c] EXCEPT !.pc = "decode", !.typ = typ] \in ReaderState
    BY <1>14, ReaderUpdates DEF ReadPacket, TypeOK
  <2>2. reader' \in [Conns -> ReaderState]
    BY <1>14, <2>1 DEF ReadPacket, TypeOK
  <2> QED
    BY <1>14, <2>2 DEF ReadPacket, TypeOK, ReadVars, Connection, ConnectionFields
<1>15. ASSUME NEW c \in Conns, ReadData(c) \/ ReaderSend(c)
      PROVE  TypeOK'
  <2>1. PICK p \in {"idle", "send"} : reader' = [reader EXCEPT ![c].pc = p]
    BY <1>15 DEF ReadData, ReaderSend
  <2>2. [reader[c] EXCEPT !.pc = p] \in ReaderState
    BY <1>15, ReaderUpdates DEF ReadData, ReaderSend, TypeOK
  <2>3. reader' \in [Conns -> ReaderState]
    BY <2>1, <2>2 DEF TypeOK
  <2> QED
    BY <1>15, <2>3 DEF ReadData, ReaderSend, Enqueue, TypeOK, ReadVars
<1>16. ASSUME NEW c \in Conns, ReadError(c)
      PROVE  TypeOK'
  <2>1. [reader[c] EXCEPT !.pc = "exit"] \in ReaderState
    BY <1>16, ReaderUpdates DEF ReadError, TypeOK
  <2>2. reader' \in [Conns -> ReaderState]
    BY <1>16, <2>1 DEF ReadError, TypeOK
  <2> QED
    BY <1>16, <2>2 DEF ReadError, TypeOK, ReadVars
<1>17. ASSUME NEW c \in Conns, Unmarshal(c)
      PROVE  TypeOK'
  <2>1. [reader[c] EXCEPT !.pc = "lookup"] \in ReaderState
    BY <1>17, ReaderUpdates DEF Unmarshal, TypeOK
  <2>2. reader' \in [Conns -> ReaderState]
    BY <1>17, <2>1 DEF Unmarshal, TypeOK
  <2>3. conn[c].peerVirtAddr \in Peers \cup {Blank} /\ reader[c].typ \in {"Ping", "Pong"}
    BY DEF TypeOK, Connection, ConnectionFields, ReaderState
  <2>4. protos' \in [{"Ping", "Pong"} -> Peers \cup {Blank, NoBytes}]
    BY <1>17, <2>3, SeenType DEF Unmarshal, TypeOK
  <2> QED
    BY <1>17, <2>2, <2>4 DEF Unmarshal, TypeOK, ReadVars
<1>18. ASSUME NEW c \in Conns, Lookup(c)
      PROVE  TypeOK'
  <2>a. protos[reader[c].typ] \in Peers \cup {Blank, NoBytes}
    BY DEF TypeOK, ReaderState
  <2>1. PICK v \in Peers \cup {Blank, NoBytes} :
           reader' = [reader EXCEPT ![c] =
                        IF v \in Peers /\ connections[v] # NoConn
                        THEN [reader[c] EXCEPT !.pc = "apply", !.conn = connections[v]]
                        ELSE NoPacket]
    BY <1>18, <2>a, SeenType DEF Lookup
  <2>2. ASSUME v \in Peers, connections[v] # NoConn
        PROVE  [reader[c] EXCEPT !.pc = "apply", !.conn = connections[v]] \in ReaderState
    BY <2>2, ReaderUpdates DEF TypeOK
  <2>3. reader' \in [Conns -> ReaderState]
    BY <1>a, <2>1, <2>2 DEF TypeOK
  <2> QED
    BY <1>18, <2>3 DEF Lookup, TypeOK, ReadVars
<1>19. ASSUME NEW c \in Conns, OnPing(c)
      PROVE  TypeOK'
  <2>1. reader[c].conn \in Conns
    BY <1>19 DEF OnPing, TypeOK, ReaderState
  <2>2. [conn[reader[c].conn] EXCEPT !.pipeline = Append(@, "Pong")] \in Connection
    BY <1>19, <2>1, ConnectionUpdates DEF OnPing, TypeOK
  <2>3. conn' \in [Conns -> Connection]
    BY <1>19, <2>1, <2>2 DEF OnPing, TypeOK
  <2>4. reader' \in [Conns -> ReaderState]
    BY <1>19, <1>a DEF OnPing, TypeOK
  <2> QED
    BY <1>19, <2>3, <2>4 DEF OnPing, TypeOK, ReadVars
<1>20. ASSUME NEW c \in Conns, OnPong(c)
      PROVE  TypeOK'
  <2>1. reader[c].conn \in Conns
    BY <1>20 DEF OnPong, TypeOK, ReaderState
  <2>2. [conn[reader[c].conn] EXCEPT !.age = 0, !.state = "Established"] \in Connection
    BY <1>20, <2>1, ConnectionUpdates DEF OnPong, TypeOK
  <2>3. conn' \in [Conns -> Connection]
    BY <1>20, <2>1, <2>2 DEF OnPong, TypeOK
  <2>4. reader' \in [Conns -> ReaderState]
    BY <1>20, <1>a DEF OnPong, TypeOK
  <2> QED
    BY <1>20, <2>3, <2>4 DEF OnPong, TypeOK, ReadVars
<1>21. ASSUME DeviceSelf \/ ForwardSend
      PROVE  TypeOK'
  BY <1>21 DEF DeviceSelf, ForwardSend, Enqueue, TypeOK
<1>22. ASSUME DeviceWrite
      PROVE  TypeOK'
  BY <1>22 DEF DeviceWrite, TypeOK
<1>23. ASSUME NEW v \in Peers, ForwardFound(v)
      PROVE  TypeOK'
  BY <1>23 DEF ForwardFound, TypeOK, Using
<1>24. ASSUME ForwardUse
      PROVE  TypeOK'
  <2>1. forward.conn \in Conns
    BY <1>24 DEF ForwardUse, TypeOK, AtRead, AtSend
  <2>2. Len(conn[forward.conn].pipeline) < PipelineCap =>
          [conn[forward.conn] EXCEPT !.pipeline = Append(@, "Data")] \in Connection
    BY <2>1, ConnectionUpdates DEF TypeOK
  <2>3. conn' \in [Conns -> Connection]
    BY <1>24, <2>1, <2>2 DEF ForwardUse, TypeOK
  <2> QED
    BY <1>24, <2>3 DEF ForwardUse, TypeOK
<1>25. ASSUME NEW v \in Peers, ForwardRequest(v)
      PROVE  TypeOK'
  BY <1>25 DEF ForwardRequest, TypeOK
<1>26. ASSUME NEW v \in Peers, RequestDone(v)
      PROVE  TypeOK'
  BY <1>26 DEF RequestDone, TypeOK
<1>27. ASSUME NEW v \in Peers, Second(v)
      PROVE  TypeOK'
  BY <1>27 DEF Second, TypeOK
<1>28. ASSUME Period
      PROVE  TypeOK'
  <2>1. ASSUME NEW c \in Conns, conn[c].age < MaxAge
        PROVE  [conn[c] EXCEPT !.age = @ + 1] \in Connection
    BY <2>1, ConnectionUpdates DEF TypeOK
  <2>2. conn' \in [Conns -> Connection]
    BY <1>28, <2>1 DEF Period, TypeOK
  <2> QED
    BY <1>28, <2>2 DEF Period, TypeOK
<1>31. CASE Schedule
  BY <1>31, <1>1, <1>2, <1>3, <1>4, <1>5 DEF Schedule
<1>32. ASSUME NEW c \in Conns, Loop(c)
       PROVE  TypeOK'
  BY <1>32, <1>6, <1>7, <1>8, <1>9, <1>10, <1>11, <1>12, <1>13 DEF Loop
<1>33. ASSUME NEW c \in Conns, Read(c)
       PROVE  TypeOK'
  BY <1>33, <1>14, <1>15, <1>16, <1>17, <1>18, <1>19, <1>20 DEF Read
<1>34. CASE Device
  BY <1>34, <1>21, <1>22, <1>23, <1>24, <1>25 DEF Device
<1>35. CASE Background
  BY <1>35, <1>26, <1>27, <1>28 DEF Background
<1> QED
  BY <1>31, <1>32, <1>33, <1>34, <1>35 DEF Next
-----------------------------------------------------------------------------
(* Only DialOK and HandleClosed touch the table and the life of a          *)
(* connection; every other step leaves both alone.                         *)

SameLife(c) ==
    /\ conn'[c].peerVirtAddr = conn[c].peerVirtAddr
    /\ conn'[c].remote = conn[c].remote
    /\ conn'[c].loop = "unborn" <=> conn[c].loop = "unborn"
    /\ conn'[c].loop = "done" <=> conn[c].loop = "done"

LEMMA QuietStep ==
    ASSUME TypeOK, Next,
           \A c \in Conns : ~DialOK(c) /\ ~HandleClosed(c)
    PROVE  connections' = connections /\ \A c \in Conns : SameLife(c)
<1> DEFINE Quiet == connections' = connections /\ \A c \in Conns : SameLife(c)
<1>a. conn \in [Conns -> ConnectionFields]
  BY DEF TypeOK, Connection
<1>b. ASSUME connections' = connections, conn' = conn
      PROVE  Quiet
  BY <1>b DEF SameLife
<1>c. ASSUME NEW c \in Conns, NEW r, connections' = connections,
             conn' = [conn EXCEPT ![c] = r],
             r.peerVirtAddr = conn[c].peerVirtAddr, r.remote = conn[c].remote,
             r.loop = "unborn" <=> conn[c].loop = "unborn",
             r.loop = "done" <=> conn[c].loop = "done"
      PROVE  Quiet
  BY <1>a, <1>c DEF SameLife
<1>1. ASSUME ScheduleClose
      PROVE  Quiet
  <2>1. schedule.conn \in Conns
    BY <1>1 DEF ScheduleClose, TypeOK, AtRead, AtSend, ScheduleClosing, ScheduleDialling
  <2>2. conn' = conn \/ conn' = [conn EXCEPT ![schedule.conn].die = TRUE]
    BY <1>1 DEF ScheduleClose
  <2>3. connections' = connections
    BY <1>1 DEF ScheduleClose
  <2> DEFINE r == [conn[schedule.conn] EXCEPT !.die = TRUE]
  <2>4. /\ r.peerVirtAddr = conn[schedule.conn].peerVirtAddr
        /\ r.remote = conn[schedule.conn].remote
        /\ r.loop = conn[schedule.conn].loop
    BY <1>a, <2>1 DEF ConnectionFields
  <2>5. conn' = conn \/ conn' = [conn EXCEPT ![schedule.conn] = r]
    BY <2>2
  <2> HIDE DEF r
  <2> QED
    BY <1>b, <1>c, <2>1, <2>3, <2>4, <2>5
<1>2. ASSUME NEW c \in Conns, LoopStart(c)
      PROVE  Quiet
  BY <1>a, <1>2 DEF LoopStart, SameLife, ConnectionFields, LoopVars
<1>3. ASSUME NEW c \in Conns, LoopConnecting(c)
      PROVE  Quiet
  BY <1>a, <1>3 DEF LoopConnecting, SameLife, ConnectionFields, LoopVars
<1>4. ASSUME NEW c \in Conns, LoopExpired(c)
      PROVE  Quiet
  <2> DEFINE r == [conn[c] EXCEPT !.loop = "close"]
  <2>1. r.peerVirtAddr = conn[c].peerVirtAddr /\ r.remote = conn[c].remote /\ r.loop = "close"
    BY <1>a DEF ConnectionFields
  <2>2. conn' = [conn EXCEPT ![c] = r] /\ connections' = connections /\ conn[c].loop = "run"
    BY <1>4 DEF LoopExpired
  <2> HIDE DEF r
  <2> QED
    BY <1>c, <2>1, <2>2
<1>5. ASSUME NEW c \in Conns, LoopClose(c)
      PROVE  Quiet
  <2>1. conn' = conn \/ conn' = [conn EXCEPT ![c].die = TRUE, ![c].loop = "run"]
    BY <1>5 DEF LoopClose
  <2>2. connections' = connections /\ conn[c].loop = "close"
    BY <1>5 DEF LoopClose
  <2> DEFINE r == [conn[c] EXCEPT !.die = TRUE, !.loop = "run"]
  <2>3. r.peerVirtAddr = conn[c].peerVirtAddr /\ r.remote = conn[c].remote /\ r.loop = "run"
    BY <1>a DEF ConnectionFields
  <2>4. conn' = conn \/ conn' = [conn EXCEPT ![c] = r]
    BY <2>1
  <2> HIDE DEF r
  <2> QED
    BY <1>b, <1>c, <2>2, <2>3, <2>4
<1>6. ASSUME NEW c \in Conns, LoopKeepalive(c)
      PROVE  Quiet
  BY <1>a, <1>6 DEF LoopKeepalive, SameLife, ConnectionFields, LoopVars
<1>7. ASSUME NEW c \in Conns, LoopSend(c)
      PROVE  Quiet
  BY <1>a, <1>7 DEF LoopSend, SameLife, ConnectionFields, LoopVars
<1>8. ASSUME NEW c \in Conns, LoopDie(c)
      PROVE  Quiet
  BY <1>a, <1>8 DEF LoopDie, SameLife, ConnectionFields, LoopVars
<1>9. ASSUME NEW c \in Conns, OnPing(c)
      PROVE  Quiet
  BY <1>a, <1>9 DEF OnPing, SameLife, ConnectionFields, ReadVars, TypeOK, ReaderState
<1>10. ASSUME NEW c \in Conns, OnPong(c)
      PROVE  Quiet
  BY <1>a, <1>10 DEF OnPong, SameLife, ConnectionFields, ReadVars, TypeOK, ReaderState
<1>11. ASSUME ForwardUse
      PROVE  Quiet
  <2>1. forward.conn \in Conns
    BY <1>11 DEF ForwardUse, TypeOK, AtRead, AtSend
  <2>2. conn' = conn \/ conn' = [conn EXCEPT ![forward.conn].pipeline = Append(@, "Data")]
    BY <1>11 DEF ForwardUse
  <2>3. connections' = connections
    BY <1>11 DEF ForwardUse
  <2> DEFINE r == [conn[forward.conn] EXCEPT !.pipeline = Append(@, "Data")]
  <2>4. /\ r.peerVirtAddr = conn[forward.conn].peerVirtAddr
        /\ r.remote = conn[forward.conn].remote
        /\ r.loop = conn[forward.conn].loop
    BY <1>a, <2>1 DEF ConnectionFields
  <2>5. conn' = conn \/ conn' = [conn EXCEPT ![forward.conn] = r]
    BY <2>2
  <2> HIDE DEF r
  <2> QED
    BY <1>b, <1>c, <2>1, <2>3, <2>4, <2>5
<1>12. ASSUME Period
      PROVE  Quiet
  BY <1>a, <1>12 DEF Period, SameLife, ConnectionFields
<1> QED
  BY <1>b, <1>1, <1>2, <1>3, <1>4, <1>5, <1>6, <1>7, <1>8, <1>9, <1>10, <1>11, <1>12
  DEF Next, Schedule, Loop, Read, Device, Background, OnOpenTunnel, DialError,
      OnRelayedData, ScheduleSend, ReadPacket, ReadData, ReaderSend, ReadError, Unmarshal,
      Lookup, DeviceSelf, ForwardSend, DeviceWrite, ForwardFound, ForwardRequest,
      RequestDone, Second, ReadVars

-----------------------------------------------------------------------------
(* What holds whatever the peers do.                                       *)

IInv == TypeOK /\ TableLive /\ PendingInFlight

LEMMA InitIInv == Init => IInv
  BY InitTypeOK DEF Init, IInv, TableLive, PendingInFlight

\* The table never holds a connection that has ended.
LEMMA NextTableLive ==
    ASSUME TypeOK, TableLive, Next
    PROVE  TableLive'
<1> USE NodeAssumption
<1>a. conn \in [Conns -> ConnectionFields] /\ connections \in [Peers -> Conns \cup {NoConn}]
  BY DEF TypeOK, Connection
<1>1. ASSUME NEW c \in Conns, DialOK(c)
      PROVE  TableLive'
  <2> DEFINE n == NewConnection(schedule.virt, schedule.udp)
  <2>1. schedule.virt \in Peers /\ schedule.udp \in Addrs
    BY <1>1 DEF DialOK, TypeOK, AtRead, AtSend, ScheduleClosing, ScheduleDialling
  <2>2. n.peerVirtAddr = schedule.virt /\ n.loop = "start"
    BY DEF NewConnection, Unborn
  <2>3. /\ conn[c].loop = "unborn"
        /\ conn' = [conn EXCEPT ![c] = n]
        /\ connections' = [connections EXCEPT ![schedule.virt] = c]
    BY <1>1 DEF DialOK
  <2> HIDE DEF n
  <2> QED
    BY <1>a, <2>1, <2>2, <2>3 DEF TableLive
<1>2. ASSUME NEW c \in Conns, HandleClosed(c)
      PROVE  TableLive'
  <2> DEFINE r == [conn[c] EXCEPT !.loop = "done"]
  <2>1. conn' = [conn EXCEPT ![c] = r]
    BY <1>2 DEF HandleClosed
  <2>2. connections' = [connections EXCEPT ![conn[c].peerVirtAddr] = NoConn]
    BY <1>2 DEF HandleClosed
  <2> HIDE DEF r
  <2>3. SUFFICES ASSUME NEW v \in Peers, connections'[v] # NoConn
                 PROVE  /\ conn'[connections'[v]].peerVirtAddr = v
                        /\ conn'[connections'[v]].loop \notin {"unborn", "done"}
    BY DEF TableLive
  <2>4. connections'[v] = connections[v] /\ v # conn[c].peerVirtAddr
    BY <1>a, <2>2, <2>3
  <2>5. connections[v] \in Conns /\ connections[v] # c
    BY <1>a, <2>3, <2>4 DEF TableLive
  <2>6. conn'[connections[v]] = conn[connections[v]]
    BY <1>a, <2>1, <2>5
  <2> QED
    BY <2>3, <2>4, <2>6 DEF TableLive
<1>3. CASE \A c \in Conns : ~DialOK(c) /\ ~HandleClosed(c)
  BY <1>3, <1>a, QuietStep DEF TableLive, SameLife
<1> QED
  BY <1>1, <1>2, <1>3

\* A marker is only set together with a request, and cleared by any request
\* that ends.
LEMMA NextPendingInFlight ==
    ASSUME TypeOK, PendingInFlight, Next
    PROVE  PendingInFlight'
<1>a. /\ pending \in [Peers -> {"none", "recent", "old"}]
      /\ requests \in [Peers -> 0..MaxRequests]
  BY DEF TypeOK
<1>1. ASSUME NEW v \in Peers, ForwardRequest(v)
      PROVE  PendingInFlight'
  BY <1>1, <1>a, NodeAssumption DEF ForwardRequest, PendingInFlight
<1>2. ASSUME NEW v \in Peers, RequestDone(v)
      PROVE  PendingInFlight'
  BY <1>2, <1>a, NodeAssumption DEF RequestDone, PendingInFlight
<1>3. ASSUME NEW v \in Peers, Second(v)
      PROVE  PendingInFlight'
  BY <1>3, <1>a DEF Second, PendingInFlight
<1>4. ASSUME Period
      PROVE  PendingInFlight'
  BY <1>4, <1>a DEF Period, PendingInFlight
<1>5. ASSUME UNCHANGED <<pending, requests>>
      PROVE  PendingInFlight'
  BY <1>5 DEF PendingInFlight
<1> QED
  BY <1>1, <1>2, <1>3, <1>4, <1>5, NodeAssumption
  DEF Next, Schedule, Loop, Read, Device, Background, OnOpenTunnel, ScheduleClose,
      DialOK, DialError, OnRelayedData, ScheduleSend, LoopStart, LoopConnecting, LoopExpired,
      LoopClose, LoopKeepalive, LoopSend, LoopDie, HandleClosed, ReadPacket, ReadData,
      ReaderSend,
      ReadError, Unmarshal, Lookup, OnPing, OnPong, DeviceSelf, ForwardSend, DeviceWrite,
      ForwardFound, ForwardUse, ReadVars, LoopVars

LEMMA Invariance == Spec => []IInv
<1>1. ASSUME IInv, [Next]_vars
      PROVE  IInv'
  <2>1. CASE Next
    BY <1>1, <2>1, NextTypeOK, NextTableLive, NextPendingInFlight
    DEF IInv
  <2>2. CASE UNCHANGED vars
    BY <1>1, <2>2 DEF IInv, vars, TypeOK, TableLive, PendingInFlight
  <2> QED
    BY <1>1, <2>1, <2>2
<1> QED
  BY InitIInv, <1>1, PTL DEF Spec

\* The node's state keeps its type and no pipeline exceeds its capacity.
THEOREM TypeCorrect == Spec => []TypeOK
<1>1. IInv => TypeOK
  BY DEF IInv
<1> QED
  BY Invariance, <1>1, PTL

\* Whatever the order of address changes, timeouts, dials and closes, the table
\* never holds a connection whose loop has ended (onOpenTunnel, handleClosed).
THEOREM TableSafe == Spec => []TableLive
<1>1. IInv => TableLive
  BY DEF IInv
<1> QED
  BY Invariance, <1>1, PTL

\* A pending marker always stands for a request in flight (forward).
THEOREM PendingSafe == Spec => []PendingInFlight
<1>1. IInv => PendingInFlight
  BY DEF IInv
<1> QED
  BY Invariance, <1>1, PTL

-----------------------------------------------------------------------------
(* Peers that keep their address.  Then no connection is ever replaced     *)
(* while it is alive, so the two hazards of an address change (the wrong   *)
(* entry deleted, the die channel closed twice) cannot happen.             *)

StableAddresses == \A v \in Peers : \A a, b \in AddrsOf[v] : a = b

\* Every connection whose loop has not ended is the table's entry of its peer.
OnePerPeer ==
    \A c \in Conns : conn[c].loop \notin {"unborn", "done"} =>
        connections[conn[c].peerVirtAddr] = c

\* A connection goes to an address its peer has.
KnownAddress ==
    \A c \in Conns : conn[c].loop # "unborn" =>
        conn[c].remote \in AddrsOf[conn[c].peerVirtAddr]

\* onOpenTunnel never closes a connection, and dials only without one.
DialsWhenFree ==
    schedule.pc \notin {"read", "send"} =>
        /\ schedule.pc = "dial"
        /\ schedule.udp \in AddrsOf[schedule.virt]
        /\ connections[schedule.virt] = NoConn

\* A loop that is about to close the die channel finds it open.
ClosesOnce == \A c \in Conns : conn[c].loop = "close" => ~conn[c].die

SInv == OnePerPeer /\ KnownAddress /\ DialsWhenFree /\ ClosesOnce /\ DieClosedOnce

LEMMA InitSInv == Init => SInv
  BY DEF Init, SInv, OnePerPeer, KnownAddress, DialsWhenFree, ClosesOnce, DieClosedOnce,
         Unborn, AtRead

LEMMA NextOnePerPeer ==
    ASSUME TypeOK, TableLive, SInv, Next
    PROVE  OnePerPeer' /\ KnownAddress'
<1> USE NodeAssumption
<1>a. conn \in [Conns -> ConnectionFields] /\ connections \in [Peers -> Conns \cup {NoConn}]
  BY DEF TypeOK, Connection
<1>b. \A c \in Conns : conn[c].loop # "unborn" => conn[c].peerVirtAddr \in Peers
  BY DEF TypeOK, Connection
<1>1. ASSUME NEW c \in Conns, DialOK(c)
      PROVE  OnePerPeer' /\ KnownAddress'
  <2> DEFINE n == NewConnection(schedule.virt, schedule.udp)
  <2>1. schedule.virt \in Peers /\ schedule.udp \in Addrs
    BY <1>1 DEF DialOK, TypeOK, AtRead, AtSend, ScheduleClosing, ScheduleDialling
  <2>2. n.peerVirtAddr = schedule.virt /\ n.remote = schedule.udp /\ n.loop = "start"
    BY DEF NewConnection, Unborn
  <2>3. /\ conn[c].loop = "unborn"
        /\ conn' = [conn EXCEPT ![c] = n]
        /\ connections' = [connections EXCEPT ![schedule.virt] = c]
    BY <1>1 DEF DialOK
  <2>4. schedule.udp \in AddrsOf[schedule.virt] /\ connections[schedule.virt] = NoConn
    BY <1>1 DEF DialOK, SInv, DialsWhenFree
  <2> HIDE DEF n
  <2>5. ASSUME NEW d \in Conns, d # c, conn[d].loop \notin {"unborn", "done"}
        PROVE  conn[d].peerVirtAddr # schedule.virt
    BY <2>4, <2>5 DEF SInv, OnePerPeer
  <2>6. OnePerPeer'
    BY <1>a, <1>b, <2>1, <2>2, <2>3, <2>5 DEF SInv, OnePerPeer
  <2>7. KnownAddress'
    BY <1>a, <2>2, <2>3, <2>4 DEF SInv, KnownAddress
  <2> QED
    BY <2>6, <2>7
<1>2. ASSUME NEW c \in Conns, HandleClosed(c)
      PROVE  OnePerPeer' /\ KnownAddress'
  <2> DEFINE r == [conn[c] EXCEPT !.loop = "done"]
  <2>1. /\ conn[c].loop = "closed"
        /\ conn' = [conn EXCEPT ![c] = r]
        /\ connections' = [connections EXCEPT ![conn[c].peerVirtAddr] = NoConn]
    BY <1>2 DEF HandleClosed
  <2>2. /\ r.loop = "done"
        /\ r.remote = conn[c].remote
        /\ r.peerVirtAddr = conn[c].peerVirtAddr
    BY <1>a DEF ConnectionFields
  <2> HIDE DEF r
  <2>3. ASSUME NEW d \in Conns, d # c, conn[d].loop \notin {"unborn", "done"}
        PROVE  conn[d].peerVirtAddr # conn[c].peerVirtAddr
    BY <2>1, <2>3 DEF SInv, OnePerPeer
  <2>4. OnePerPeer'
    BY <1>a, <1>b, <2>1, <2>2, <2>3 DEF SInv, OnePerPeer
  <2>5. KnownAddress'
    BY <1>a, <2>1, <2>2 DEF SInv, KnownAddress
  <2> QED
    BY <2>4, <2>5
<1>3. CASE \A c \in Conns : ~DialOK(c) /\ ~HandleClosed(c)
  BY <1>3, QuietStep DEF SInv, OnePerPeer, KnownAddress, SameLife
<1> QED
  BY <1>1, <1>2, <1>3

\* With one address per peer, onOpenTunnel either acknowledges or dials.
LEMMA NextDialsWhenFree ==
    ASSUME StableAddresses, TypeOK, TableLive, SInv, Next
    PROVE  DialsWhenFree'
<1> USE NodeAssumption
<1>a. connections \in [Peers -> Conns \cup {NoConn}]
  BY DEF TypeOK
<1>1. ASSUME NEW v \in Peers, NEW a \in AddrsOf[v], OnOpenTunnel(v, a)
      PROVE  DialsWhenFree'
  <2>1. CASE connections[v] # NoConn
    <3>1. connections[v] \in Conns
      BY <1>a, <2>1
    <3>2. conn[connections[v]].remote \in AddrsOf[v]
      BY <2>1, <3>1 DEF TableLive, SInv, KnownAddress
    <3>3. conn[connections[v]].remote = a
      BY <3>2 DEF StableAddresses
    <3>4. schedule' = AtRead
      BY <1>1, <2>1, <3>3 DEF OnOpenTunnel
    <3> QED
      BY <3>4 DEF DialsWhenFree, AtRead
  <2>2. CASE connections[v] = NoConn
    <3>1. schedule' = Handling("dial", v, a, NoConn) /\ connections' = connections
      BY <1>1, <2>2 DEF OnOpenTunnel
    <3> QED
      BY <2>2, <3>1 DEF DialsWhenFree, Handling
  <2> QED
    BY <2>1, <2>2
<1>2. ASSUME schedule' = AtRead \/ schedule' = AtSend
      PROVE  DialsWhenFree'
  BY <1>2 DEF DialsWhenFree, AtRead, AtSend
<1>3. ASSUME ScheduleClose
      PROVE  DialsWhenFree'
  BY <1>3 DEF ScheduleClose, SInv, DialsWhenFree
<1>4. ASSUME NEW c \in Conns, HandleClosed(c)
      PROVE  DialsWhenFree'
  <2>1. /\ schedule' = schedule
        /\ connections' = [connections EXCEPT ![conn[c].peerVirtAddr] = NoConn]
    BY <1>4 DEF HandleClosed, LoopVars
  <2>2. schedule.pc \notin {"read", "send"} => schedule.virt \in Peers
    BY DEF TypeOK, AtRead, AtSend, ScheduleClosing, ScheduleDialling
  <2> QED
    BY <1>a, <2>1, <2>2 DEF SInv, DialsWhenFree
<1>5. ASSUME UNCHANGED <<schedule, connections>>
      PROVE  DialsWhenFree'
  BY <1>5 DEF SInv, DialsWhenFree
<1> QED
  BY <1>1, <1>2, <1>3, <1>4, <1>5
  DEF Next, Schedule, Loop, Read, Device, Background, DialOK, DialError,
      OnRelayedData, ScheduleSend, LoopStart, LoopConnecting, LoopExpired, LoopClose,
      LoopKeepalive,
      LoopSend, LoopDie, ReadPacket, ReadData, ReaderSend, ReadError, Unmarshal, Lookup,
      OnPing,
      OnPong, DeviceSelf, ForwardSend, DeviceWrite, ForwardFound, ForwardUse, ForwardRequest,
      RequestDone, Second, Period, ReadVars, LoopVars

\* The die channel of a connection is closed by its own loop only, and once.
LEMMA NextClosesOnce ==
    ASSUME TypeOK, SInv, Next
    PROVE  ClosesOnce' /\ DieClosedOnce'
<1> DEFINE Safe == ClosesOnce /\ DieClosedOnce
<1>a. conn \in [Conns -> ConnectionFields]
  BY DEF TypeOK, Connection
<1>b. ASSUME conn' = conn, panicked' = panicked
      PROVE  Safe'
  BY <1>b DEF SInv, ClosesOnce, DieClosedOnce
<1>c. ASSUME NEW c \in Conns, NEW r, panicked' = panicked,
             conn' = [conn EXCEPT ![c] = r],
             r.loop = "close" => ~r.die
      PROVE  Safe'
  BY <1>a, <1>c DEF SInv, ClosesOnce, DieClosedOnce
<1>d. ASSUME NEW c \in Conns, NEW r, panicked' = panicked,
             conn' = [conn EXCEPT ![c] = r],
             r.loop = conn[c].loop, r.die = conn[c].die
      PROVE  Safe'
  BY <1>a, <1>c, <1>d DEF SInv, ClosesOnce
<1>1. ASSUME ScheduleClose
      PROVE  Safe'
  BY <1>1 DEF ScheduleClose, SInv, DialsWhenFree
<1>2. ASSUME NEW c \in Conns, DialOK(c)
      PROVE  Safe'
  <2> DEFINE r == NewConnection(schedule.virt, schedule.udp)
  <2>1. r.loop = "start"
    BY DEF NewConnection, Unborn
  <2>2. conn' = [conn EXCEPT ![c] = r] /\ panicked' = panicked
    BY <1>2 DEF DialOK
  <2> HIDE DEF r
  <2> QED
    BY <1>c, <2>1, <2>2
<1>3. ASSUME NEW c \in Conns, LoopStart(c)
      PROVE  Safe'
  <2> DEFINE r == [conn[c] EXCEPT !.loop = "run"]
  <2>1. r.loop = "run"
    BY <1>a DEF ConnectionFields
  <2>2. conn' = [conn EXCEPT ![c] = r] /\ panicked' = panicked
    BY <1>3 DEF LoopStart
  <2> HIDE DEF r
  <2> QED
    BY <1>c, <2>1, <2>2
<1>4. ASSUME NEW c \in Conns, LoopExpired(c)
      PROVE  Safe'
  <2> DEFINE r == [conn[c] EXCEPT !.loop = "close"]
  <2>1. ~r.die
    BY <1>4, <1>a DEF LoopExpired, ConnectionFields
  <2>2. conn' = [conn EXCEPT ![c] = r] /\ panicked' = panicked
    BY <1>4 DEF LoopExpired
  <2> HIDE DEF r
  <2> QED
    BY <1>c, <2>1, <2>2
<1>5. ASSUME NEW c \in Conns, LoopClose(c)
      PROVE  Safe'
  <2> DEFINE r == [conn[c] EXCEPT !.die = TRUE, !.loop = "run"]
  <2>1. r.loop = "run"
    BY <1>a DEF ConnectionFields
  <2>2. ~conn[c].die
    BY <1>5 DEF LoopClose, SInv, ClosesOnce
  <2>3. conn' = [conn EXCEPT ![c] = r] /\ panicked' = panicked
    BY <1>5, <2>2 DEF LoopClose
  <2> HIDE DEF r
  <2> QED
    BY <1>c, <2>1, <2>3
<1>6. ASSUME NEW c \in Conns, LoopConnecting(c)
      PROVE  Safe'
  <2> DEFINE r == [conn[c] EXCEPT !.pinged = TRUE]
  <2>1. r.loop = conn[c].loop /\ r.die = conn[c].die
    BY <1>a DEF ConnectionFields
  <2>2. conn' = [conn EXCEPT ![c] = r] /\ panicked' = panicked
    BY <1>6 DEF LoopConnecting
  <2> HIDE DEF r
  <2> QED
    BY <1>d, <2>1, <2>2
<1>7. ASSUME NEW c \in Conns, LoopKeepalive(c)
      PROVE  Safe'
  <2> DEFINE r == [conn[c] EXCEPT !.pinged = TRUE]
  <2>1. r.loop = conn[c].loop /\ r.die = conn[c].die
    BY <1>a DEF ConnectionFields
  <2>2. conn' = [conn EXCEPT ![c] = r] /\ panicked' = panicked
    BY <1>7 DEF LoopKeepalive
  <2> HIDE DEF r
  <2> QED
    BY <1>d, <2>1, <2>2
<1>8. ASSUME NEW c \in Conns, LoopSend(c)
      PROVE  Safe'
  <2> DEFINE r == [conn[c] EXCEPT !.pipeline = Tail(@)]
  <2>1. r.loop = conn[c].loop /\ r.die = conn[c].die
    BY <1>a DEF ConnectionFields
  <2>2. conn' = [conn EXCEPT ![c] = r] /\ panicked' = panicked
    BY <1>8 DEF LoopSend
  <2> HIDE DEF r
  <2> QED
    BY <1>d, <2>1, <2>2
<1>9. ASSUME NEW c \in Conns, LoopDie(c)
      PROVE  Safe'
  <2> DEFINE r == [conn[c] EXCEPT !.loop = "closed"]
  <2>1. r.loop = "closed"
    BY <1>a DEF ConnectionFields
  <2>2. conn' = [conn EXCEPT ![c] = r] /\ panicked' = panicked
    BY <1>9 DEF LoopDie
  <2> HIDE DEF r
  <2> QED
    BY <1>c, <2>1, <2>2
<1>10. ASSUME NEW c \in Conns, HandleClosed(c)
      PROVE  Safe'
  <2> DEFINE r == [conn[c] EXCEPT !.loop = "done"]
  <2>1. r.loop = "done"
    BY <1>a DEF ConnectionFields
  <2>2. conn' = [conn EXCEPT ![c] = r] /\ panicked' = panicked
    BY <1>10 DEF HandleClosed
  <2> HIDE DEF r
  <2> QED
    BY <1>c, <2>1, <2>2
<1>11. ASSUME NEW c \in Conns, OnPing(c)
      PROVE  Safe'
  <2> DEFINE d == reader[c].conn
             r == [conn[d] EXCEPT !.pipeline = Append(@, "Pong")]
  <2>1. d \in Conns
    BY <1>11 DEF OnPing, TypeOK, ReaderState
  <2>2. r.loop = conn[d].loop /\ r.die = conn[d].die
    BY <1>a, <2>1 DEF ConnectionFields
  <2>3. conn' = [conn EXCEPT ![d] = r] /\ panicked' = panicked
    BY <1>11 DEF OnPing, ReadVars
  <2> HIDE DEF r
  <2> QED
    BY <1>d, <2>1, <2>2, <2>3
<1>12. ASSUME NEW c \in Conns, OnPong(c)
      PROVE  Safe'
  <2> DEFINE d == reader[c].conn
             r == [conn[d] EXCEPT !.age = 0, !.state = "Established"]
  <2>1. d \in Conns
    BY <1>12 DEF OnPong, TypeOK, ReaderState
  <2>2. r.loop = conn[d].loop /\ r.die = conn[d].die
    BY <1>a, <2>1 DEF ConnectionFields
  <2>3. conn' = [conn EXCEPT ![d] = r] /\ panicked' = panicked
    BY <1>12 DEF OnPong, ReadVars
  <2> HIDE DEF r
  <2> QED
    BY <1>d, <2>1, <2>2, <2>3
<1>13. ASSUME ForwardUse
       PROVE  Safe'
  <2> DEFINE d == forward.conn
             r == [conn[d] EXCEPT !.pipeline = Append(@, "Data")]
  <2>1. d \in Conns
    BY <1>13 DEF ForwardUse, TypeOK, AtRead, AtSend
  <2>2. r.loop = conn[d].loop /\ r.die = conn[d].die
    BY <1>a, <2>1 DEF ConnectionFields
  <2>3. (conn' = conn \/ conn' = [conn EXCEPT ![d] = r]) /\ panicked' = panicked
    BY <1>13 DEF ForwardUse
  <2> HIDE DEF r
  <2> QED
    BY <1>b, <1>d, <2>1, <2>2, <2>3
<1>14. ASSUME Period
       PROVE  Safe'
  <2>1. \A c \in Conns : conn'[c].loop = conn[c].loop /\ conn'[c].die = conn[c].die
    BY <1>14, <1>a DEF Period, ConnectionFields
  <2> QED
    BY <1>14, <2>1 DEF Period, SInv, ClosesOnce, DieClosedOnce
<1>15. ASSUME NEW c \in Conns, Lookup(c)
       PROVE  Safe'
  BY <1>15 DEF Lookup, SInv, ClosesOnce, DieClosedOnce
<1> QED
  BY <1>b, <1>1, <1>2, <1>3, <1>4, <1>5, <1>6, <1>7, <1>8, <1>9, <1>10, <1>11, <1>12,
     <1>13, <1>14, <1>15
  DEF Next, Schedule, Loop, Read, Device, Background, OnOpenTunnel, DialError,
      OnRelayedData, ScheduleSend, ReadPacket, ReadData, ReaderSend, ReadError, Unmarshal,
      Lookup, DeviceSelf, ForwardSend, DeviceWrite, ForwardFound, ForwardRequest,
      RequestDone, Second, ReadVars

LEMMA StableInvariance ==
    ASSUME StableAddresses
    PROVE  Spec => [](IInv /\ SInv)
<1>1. ASSUME IInv, SInv, [Next]_vars
      PROVE  SInv'
  <2>1. CASE Next
    <3>1. OnePerPeer' /\ KnownAddress'
      BY <1>1, <2>1, NextOnePerPeer DEF IInv
    <3>2. DialsWhenFree'
      BY <1>1, <2>1, NextDialsWhenFree DEF IInv
    <3>3. ClosesOnce' /\ DieClosedOnce'
      BY <1>1, <2>1, NextClosesOnce DEF IInv
    <3> QED
      BY <3>1, <3>2, <3>3 DEF SInv
  <2>2. CASE UNCHANGED vars
    BY <1>1, <2>2
    DEF SInv, vars, OnePerPeer, KnownAddress, DialsWhenFree, ClosesOnce, DieClosedOnce
  <2> QED
    BY <1>1, <2>1, <2>2
<1> QED
  BY InitSInv, Invariance, <1>1, PTL DEF Spec

\* When no peer ever changes its UDP address, every open connection is the one
\* that its Pongs and the forwarded traffic find (onOpenTunnel, handleClosed).
THEOREM StableRegistered ==
    ASSUME StableAddresses
    PROVE  Spec => []Registered
<1>1. SInv => Registered
  BY DEF SInv, OnePerPeer, Registered, SocketOpen
<1> QED
  BY StableInvariance, <1>1, PTL

\* When no peer ever changes its UDP address, close() never closes the die
\* channel twice (connection.close).
THEOREM StableClosesOnce ==
    ASSUME StableAddresses
    PROVE  Spec => []DieClosedOnce
<1>1. SInv => DieClosedOnce
  BY DEF SInv
<1> QED
  BY StableInvariance, <1>1, PTL

-----------------------------------------------------------------------------
(* Pongs and the readers that race for the message they decode into.  Two  *)
(* addresses of the same length cannot be torn into a third one, and with  *)
(* two peers there is no third.                                            *)

TornHarmless == \A v, w \in Peers : Cut[v][w] \subseteq {v, w}

\* A reader belongs to a dialled connection.
ReaderBorn == \A c \in Conns : reader[c].pc # "off" => conn[c].loop # "unborn"

\* A reader that decodes a Pong has one from its connection's address.
SourceHeard ==
    \A c \in Conns : reader[c].pc \in {"decode", "lookup"} /\ reader[c].typ = "Pong" =>
        conn[c].remote \in heard

\* The shared message names nobody who did not answer.
MessageHeard == protos["Pong"] \in Peers => AddrsOf[protos["Pong"]] \subseteq heard

\* What a packet is applied to is a dialled connection, and for a Pong one to an
\* address that has answered.
TargetHeard ==
    \A c \in Conns : reader[c].pc = "apply" =>
        /\ conn[reader[c].conn].loop # "unborn"
        /\ reader[c].typ = "Pong" => conn[reader[c].conn].remote \in heard

PongHeard == ReaderBorn /\ SourceHeard /\ MessageHeard /\ TargetHeard

HInv == EstablishedHeard /\ PongHeard

\* A connection is for one peer and one address for good.
LEMMA LifeStep ==
    ASSUME TypeOK, Next, \A c \in Conns : ~DialOK(c)
    PROVE  \A c \in Conns :
             /\ conn'[c].peerVirtAddr = conn[c].peerVirtAddr
             /\ conn'[c].remote = conn[c].remote
             /\ conn[c].loop # "unborn" => conn'[c].loop # "unborn"
<1>1. CASE \A c \in Conns : ~HandleClosed(c)
  BY <1>1, QuietStep DEF SameLife
<1>2. ASSUME NEW c \in Conns, HandleClosed(c)
      PROVE  \A d \in Conns :
               /\ conn'[d].peerVirtAddr = conn[d].peerVirtAddr
               /\ conn'[d].remote = conn[d].remote
               /\ conn[d].loop # "unborn" => conn'[d].loop # "unborn"
  <2> DEFINE r == [conn[c] EXCEPT !.loop = "done"]
  <2>1. conn \in [Conns -> ConnectionFields]
    BY DEF TypeOK, Connection
  <2>2. conn' = [conn EXCEPT ![c] = r]
    BY <1>2 DEF HandleClosed
  <2>3. r.peerVirtAddr = conn[c].peerVirtAddr /\ r.remote = conn[c].remote /\ r.loop = "done"
    BY <2>1 DEF ConnectionFields
  <2> HIDE DEF r
  <2> QED
    BY <2>1, <2>2, <2>3
<1> QED
  BY <1>1, <1>2

\* Only a Pong establishes a connection.
LEMMA StateStep ==
    ASSUME TypeOK, Next, \A c \in Conns : ~DialOK(c) /\ ~OnPong(c)
    PROVE  \A c \in Conns : conn'[c].state = conn[c].state
<1> DEFINE Same == \A c \in Conns : conn'[c].state = conn[c].state
<1>a. conn \in [Conns -> ConnectionFields]
  BY DEF TypeOK, Connection
<1>b. ASSUME conn' = conn
      PROVE  Same
  BY <1>b
<1>c. ASSUME NEW c \in Conns, NEW r, conn' = [conn EXCEPT ![c] = r], r.state = conn[c].state
      PROVE  Same
  BY <1>a, <1>c
<1>1. ASSUME ScheduleClose
      PROVE  Same
  <2> DEFINE c == schedule.conn
             r == [conn[c] EXCEPT !.die = TRUE]
  <2>1. c \in Conns
    BY <1>1 DEF ScheduleClose, TypeOK, AtRead, AtSend, ScheduleClosing, ScheduleDialling
  <2>2. conn' = conn \/ conn' = [conn EXCEPT ![c] = r]
    BY <1>1 DEF ScheduleClose
  <2>3. r.state = conn[c].state
    BY <1>a, <2>1 DEF ConnectionFields
  <2> HIDE DEF r
  <2> QED
    BY <1>b, <1>c, <2>1, <2>2, <2>3
<1>2. ASSUME NEW c \in Conns,
             \/ LoopStart(c) \/ LoopConnecting(c) \/ LoopExpired(c) \/ LoopClose(c)
             \/ LoopKeepalive(c) \/ LoopSend(c) \/ LoopDie(c) \/ HandleClosed(c)
      PROVE  Same
  <2>1. PICK r \in {conn[c], [conn[c] EXCEPT !.loop = "run"], [conn[c] EXCEPT !.pinged = TRUE],
                    [conn[c] EXCEPT !.loop = "close"],
                    [conn[c] EXCEPT !.die = TRUE, !.loop = "run"],
                    [conn[c] EXCEPT !.pipeline = Tail(@)], [conn[c] EXCEPT !.loop = "closed"],
                    [conn[c] EXCEPT !.loop = "done"]} :
          conn' = conn \/ conn' = [conn EXCEPT ![c] = r]
    BY <1>2 DEF LoopStart, LoopConnecting, LoopExpired, LoopClose, LoopKeepalive, LoopSend,
                LoopDie, HandleClosed
  <2>2. r.state = conn[c].state
    BY <1>a, <2>1 DEF ConnectionFields
  <2> QED
    BY <1>b, <1>c, <2>1, <2>2
<1>3. ASSUME NEW c \in Conns, OnPing(c)
      PROVE  Same
  <2> DEFINE d == reader[c].conn
             r == [conn[d] EXCEPT !.pipeline = Append(@, "Pong")]
  <2>1. d \in Conns
    BY <1>3 DEF OnPing, TypeOK, ReaderState
  <2>2. conn' = [conn EXCEPT ![d] = r]
    BY <1>3 DEF OnPing
  <2>3. r.state = conn[d].state
    BY <1>a, <2>1 DEF ConnectionFields
  <2> HIDE DEF r
  <2> QED
    BY <1>c, <2>1, <2>2, <2>3
<1>4. ASSUME ForwardUse
      PROVE  Same
  <2> DEFINE d == forward.conn
             r == [conn[d] EXCEPT !.pipeline = Append(@, "Data")]
  <2>1. d \in Conns
    BY <1>4 DEF ForwardUse, TypeOK, AtRead, AtSend
  <2>2. conn' = conn \/ conn' = [conn EXCEPT ![d] = r]
    BY <1>4 DEF ForwardUse
  <2>3. r.state = conn[d].state
    BY <1>a, <2>1 DEF ConnectionFields
  <2> HIDE DEF r
  <2> QED
    BY <1>b, <1>c, <2>1, <2>2, <2>3
<1>5. ASSUME Period
      PROVE  Same
  BY <1>a, <1>5 DEF Period, ConnectionFields
<1> QED
  BY <1>b, <1>1, <1>2, <1>3, <1>4, <1>5
  DEF Next, Schedule, Loop, Read, Device, Background, OnOpenTunnel, DialError,
      OnRelayedData, ScheduleSend, ReadPacket, ReadData, ReaderSend, ReadError, Unmarshal,
      Lookup, DeviceSelf, ForwardSend, DeviceWrite, ForwardFound, ForwardRequest,
      RequestDone, Second, ReadVars

\* What a decoder of a Pong finds, torn or not, names nobody who did not answer.
LEMMA SeenHeard ==
    ASSUME StableAddresses, TornHarmless, TypeOK, KnownAddress, PongHeard,
           NEW c \in Conns, reader[c].typ = "Pong",
           NEW v \in Peers \cup {Blank, NoBytes}, v \in Peers => AddrsOf[v] \subseteq heard,
           NEW u \in Seen(c, v), u \in Peers
    PROVE  AddrsOf[u] \subseteq heard
<1> DEFINE written == ({v} \cup {conn[d].peerVirtAddr : d \in Racers(c)}) \ {Blank, NoBytes}
<1>1. ASSUME NEW d \in Racers(c)
      PROVE  conn[d].peerVirtAddr \in Peers /\ AddrsOf[conn[d].peerVirtAddr] \subseteq heard
  <2>1. d \in Conns /\ reader[d].pc = "decode" /\ reader[d].typ = "Pong"
    BY DEF Racers
  <2>2. conn[d].remote \in heard /\ conn[d].loop # "unborn"
    BY <2>1 DEF PongHeard, ReaderBorn, SourceHeard
  <2>3. conn[d].peerVirtAddr \in Peers /\ conn[d].remote \in AddrsOf[conn[d].peerVirtAddr]
    BY <2>1, <2>2 DEF KnownAddress, TypeOK, Connection
  <2> QED
    BY <2>2, <2>3 DEF StableAddresses
<1>2. CASE Racers(c) = {}
  BY <1>2 DEF Seen
<1>3. CASE Racers(c) # {}
  <2>1. u \in {Blank, NoBytes} \cup UNION {Cut[p][q] : p, q \in written}
    BY <1>3 DEF Seen
  <2>2. u # Blank /\ u # NoBytes
    BY NodeAssumption
  <2>3. written \subseteq Peers /\ \A p \in written : AddrsOf[p] \subseteq heard
    BY <1>1
  <2>4. PICK p \in written, q \in written : u \in Cut[p][q]
    BY <2>1, <2>2
  <2>5. u \in {p, q}
    BY <2>3, <2>4 DEF TornHarmless
  <2> QED
    BY <2>3, <2>5
<1> QED
  BY <1>2, <1>3

\* A new connection, whose reader has not begun.
LEMMA DialHeard ==
    ASSUME TypeOK, HInv, NEW c \in Conns, DialOK(c)
    PROVE  HInv'
<1> DEFINE n == NewConnection(schedule.virt, schedule.udp)
<1>1. conn \in [Conns -> ConnectionFields] /\ reader \in [Conns -> ReaderState]
  BY DEF TypeOK, Connection
<1>2. /\ conn[c].loop = "unborn" /\ conn' = [conn EXCEPT ![c] = n]
      /\ UNCHANGED <<reader, protos, heard>>
  BY DEF DialOK
<1>3. n.state = "Connecting" /\ n.loop = "start"
  BY DEF NewConnection, Unborn
<1> HIDE DEF n
<1>4. conn'[c] = n /\ \A d \in Conns \ {c} : conn'[d] = conn[d]
  BY <1>1, <1>2
<1>5. EstablishedHeard'
  BY <1>2, <1>3, <1>4 DEF HInv, EstablishedHeard
<1>6. reader[c].pc = "off" /\ \A d \in Conns : reader[d].pc = "apply" => reader[d].conn # c
  BY <1>2 DEF HInv, PongHeard, ReaderBorn, TargetHeard
<1>7. \A d \in Conns : reader[d].pc = "apply" => reader[d].conn \in Conns
  BY <1>1 DEF ReaderState
<1>8. ReaderBorn' /\ SourceHeard' /\ MessageHeard'
  BY <1>2, <1>3, <1>4, <1>6 DEF HInv, PongHeard, ReaderBorn, SourceHeard, MessageHeard
<1>9. TargetHeard'
  BY <1>2, <1>4, <1>6, <1>7 DEF HInv, PongHeard, TargetHeard
<1> QED
  BY <1>5, <1>8, <1>9 DEF HInv, PongHeard

\* What is kept when the readers other than c's are left alone.
LEMMA OthersHeard ==
    ASSUME TypeOK, PongHeard, NEW c \in Conns, NEW r, reader' = [reader EXCEPT ![c] = r],
           heard \subseteq heard',
           \A d \in Conns : conn'[d].remote = conn[d].remote,
           \A d \in Conns : conn[d].loop # "unborn" => conn'[d].loop # "unborn",
           conn'[c].loop # "unborn",
           r.pc \in {"decode", "lookup"} /\ r.typ = "Pong" => conn[c].remote \in heard',
           r.pc = "apply" => /\ r.conn \in Conns /\ conn[r.conn].loop # "unborn"
                             /\ r.typ = "Pong" => conn[r.conn].remote \in heard'
    PROVE  ReaderBorn' /\ SourceHeard' /\ TargetHeard'
<1>1. reader \in [Conns -> ReaderState]
  BY DEF TypeOK
<1>2. reader'[c] = r /\ \A d \in Conns \ {c} : reader'[d] = reader[d]
  BY <1>1
<1>3. \A d \in Conns : reader[d].pc = "apply" => reader[d].conn \in Conns
  BY <1>1 DEF ReaderState
<1>4. ReaderBorn'
  BY <1>2 DEF PongHeard, ReaderBorn
<1>5. SourceHeard'
  BY <1>2 DEF PongHeard, SourceHeard
<1>6. ASSUME NEW d \in Conns, reader'[d].pc = "apply"
      PROVE  /\ conn'[reader'[d].conn].loop # "unborn"
             /\ reader'[d].typ = "Pong" => conn'[reader'[d].conn].remote \in heard'
  <2>1. CASE d = c
    BY <1>2, <1>6, <2>1
  <2>2. CASE d # c
    <3>1. reader'[d] = reader[d]
      BY <1>2, <2>2
    <3>2. /\ reader[d].conn \in Conns
          /\ conn[reader[d].conn].loop # "unborn"
          /\ reader[d].typ = "Pong" => conn[reader[d].conn].remote \in heard
      BY <1>3, <1>6, <3>1 DEF PongHeard, TargetHeard
    <3> QED
      BY <3>1, <3>2
  <2> QED
    BY <2>1, <2>2
<1> QED
  BY <1>4, <1>5, <1>6 DEF TargetHeard

\* A step of the reader of c, or the start of c's loop.
LEMMA ReaderHeard ==
    ASSUME StableAddresses, TornHarmless, TypeOK, TableLive, SInv, PongHeard,
           NEW c \in Conns, LoopStart(c) \/ Read(c),
           \A d \in Conns : conn'[d].remote = conn[d].remote,
           \A d \in Conns : conn[d].loop # "unborn" => conn'[d].loop # "unborn"
    PROVE  PongHeard'
<1>t. /\ reader \in [Conns -> ReaderState] /\ NoPacket.pc = "idle"
      /\ protos \in [{"Ping", "Pong"} -> Peers \cup {Blank, NoBytes}]
  BY DEF TypeOK, NoPacket
<1>r. reader[c].typ \in {"Ping", "Pong"}
  BY <1>t DEF ReaderState
<1>k. ASSUME heard \subseteq heard', protos' = protos
      PROVE  MessageHeard'
  BY <1>k DEF PongHeard, MessageHeard
<1>1. CASE LoopStart(c)
  <2>1. heard' = heard /\ protos' = protos /\ reader' = [reader EXCEPT ![c] = NoPacket]
    BY <1>1 DEF LoopStart, LoopVars
  <2>2. conn'[c].loop # "unborn"
    BY <1>1 DEF LoopStart
  <2> QED
    BY <1>k, <1>t, <2>1, <2>2, OthersHeard DEF PongHeard
<1>2. ASSUME NEW typ \in {"Ping", "Pong"}, ReadPacket(c, typ)
      PROVE  PongHeard'
  <2> DEFINE r == [reader[c] EXCEPT !.pc = "decode", !.typ = typ]
  <2>1. /\ heard \subseteq heard' /\ (typ = "Pong" => conn[c].remote \in heard')
        /\ protos' = protos /\ reader' = [reader EXCEPT ![c] = r]
        /\ conn[c].loop # "unborn"
    BY <1>2 DEF ReadPacket, SocketOpen
  <2>2. r.pc = "decode" /\ r.typ = typ
    BY <1>t DEF ReaderState
  <2> HIDE DEF r
  <2> QED
    BY <1>k, <2>1, <2>2, OthersHeard DEF PongHeard
<1>3. CASE ReadData(c) \/ ReaderSend(c)
  <2>1. PICK p \in {"idle", "send"} : reader' = [reader EXCEPT ![c].pc = p]
    BY <1>3 DEF ReadData, ReaderSend
  <2> DEFINE r == [reader[c] EXCEPT !.pc = p]
  <2>2. heard' = heard /\ protos' = protos /\ reader' = [reader EXCEPT ![c] = r]
    BY <1>3, <2>1 DEF ReadData, ReaderSend
  <2>3. r.pc = p /\ conn[c].loop # "unborn"
    BY <1>3, <1>t DEF ReaderState, ReadData, ReaderSend, PongHeard, ReaderBorn
  <2> HIDE DEF r
  <2> QED
    BY <1>k, <2>2, <2>3, OthersHeard DEF PongHeard
<1>4. CASE ReadError(c)
  <2> DEFINE r == [reader[c] EXCEPT !.pc = "exit"]
  <2>1. heard' = heard /\ protos' = protos /\ reader' = [reader EXCEPT ![c] = r]
    BY <1>4 DEF ReadError
  <2>2. r.pc = "exit" /\ conn[c].loop # "unborn"
    BY <1>4, <1>t DEF ReaderState, ReadError, PongHeard, ReaderBorn
  <2> HIDE DEF r
  <2> QED
    BY <1>k, <2>1, <2>2, OthersHeard DEF PongHeard
<1>5. CASE OnPing(c) \/ OnPong(c)
  <2>1. heard' = heard /\ protos' = protos /\ reader' = [reader EXCEPT ![c] = NoPacket]
    BY <1>5 DEF OnPing, OnPong
  <2>2. conn[c].loop # "unborn"
    BY <1>5 DEF OnPing, OnPong, PongHeard, ReaderBorn
  <2> QED
    BY <1>k, <1>t, <2>1, <2>2, OthersHeard DEF PongHeard
<1>6. CASE Unmarshal(c)
  <2> DEFINE r == [reader[c] EXCEPT !.pc = "lookup"]
             typ == reader[c].typ
  <2>1. PICK v \in Seen(c, conn[c].peerVirtAddr) : protos' = [protos EXCEPT ![typ] = v]
    BY <1>6 DEF Unmarshal
  <2>2. heard' = heard /\ reader' = [reader EXCEPT ![c] = r] /\ reader[c].pc = "decode"
    BY <1>6 DEF Unmarshal
  <2>3. r.pc = "lookup" /\ r.typ = typ
    BY <1>t DEF ReaderState
  <2>4. conn[c].loop # "unborn" /\ (typ = "Pong" => conn[c].remote \in heard)
    BY <2>2 DEF PongHeard, ReaderBorn, SourceHeard
  <2>5. /\ conn[c].peerVirtAddr \in Peers
        /\ conn[c].remote \in AddrsOf[conn[c].peerVirtAddr]
    BY <2>4 DEF TypeOK, Connection, SInv, KnownAddress
  <2>6. typ = "Pong" => AddrsOf[conn[c].peerVirtAddr] \subseteq heard
    BY <2>4, <2>5 DEF StableAddresses
  <2>7. typ = "Pong" /\ v \in Peers => AddrsOf[v] \subseteq heard
    BY <2>1, <2>5, <2>6, SeenHeard DEF SInv
  <2>8. protos'["Pong"] = protos["Pong"] \/ (typ = "Pong" /\ protos'["Pong"] = v)
    BY <1>t, <1>r, <2>1
  <2>9. MessageHeard'
    BY <2>2, <2>7, <2>8 DEF PongHeard, MessageHeard
  <2> HIDE DEF r, typ
  <2> QED
    BY <2>2, <2>3, <2>4, <2>9, OthersHeard DEF PongHeard
<1>7. CASE Lookup(c)
  <2> DEFINE typ == reader[c].typ
  <2>1. PICK v \in Seen(c, protos[typ]) :
          reader' = [reader EXCEPT ![c] =
                       IF v \in Peers /\ connections[v] # NoConn
                       THEN [reader[c] EXCEPT !.pc = "apply", !.conn = connections[v]]
                       ELSE NoPacket]
    BY <1>7 DEF Lookup
  <2>2. heard' = heard /\ protos' = protos /\ conn[c].loop # "unborn"
    BY <1>7 DEF Lookup, PongHeard, ReaderBorn
  <2>3. protos[typ] \in Peers \cup {Blank, NoBytes}
    BY <1>t, <1>r
  <2>4. CASE v \in Peers /\ connections[v] # NoConn
    <3> DEFINE d == connections[v]
               r == [reader[c] EXCEPT !.pc = "apply", !.conn = d]
    <3>1. d \in Conns /\ conn[d].peerVirtAddr = v /\ conn[d].loop # "unborn"
      BY <2>4 DEF TypeOK, TableLive
    <3>2. typ = "Pong" => conn[d].remote \in heard
      <4>1. typ = "Pong" => AddrsOf[v] \subseteq heard
        BY <2>3, <2>4, SeenHeard DEF SInv, PongHeard, MessageHeard
      <4> QED
        BY <3>1, <4>1 DEF SInv, KnownAddress
    <3>3. reader' = [reader EXCEPT ![c] = r]
      BY <2>1, <2>4
    <3>4. r.pc = "apply" /\ r.conn = d /\ r.typ = typ
      BY <1>t DEF ReaderState
    <3> HIDE DEF r, d, typ
    <3> QED
      BY <1>k, <2>2, <3>1, <3>2, <3>3, <3>4, OthersHeard DEF PongHeard
  <2>5. CASE ~(v \in Peers /\ connections[v] # NoConn)
    <3>1. reader' = [reader EXCEPT ![c] = NoPacket]
      BY <2>1, <2>5
    <3> QED
      BY <1>k, <1>t, <2>2, <3>1, OthersHeard DEF PongHeard
  <2> QED
    BY <2>4, <2>5
<1> QED
  BY <1>1, <1>2, <1>3, <1>4, <1>5, <1>6, <1>7 DEF Read

LEMMA HeardStep ==
    ASSUME StableAddresses, TornHarmless, TypeOK, TableLive, SInv, HInv, Next
    PROVE  HInv'
<1>1. CASE \E c \in Conns : DialOK(c)
  BY <1>1, DialHeard
<1>2. CASE \A c \in Conns : ~DialOK(c)
  <2>1. /\ \A c \in Conns : conn'[c].remote = conn[c].remote
        /\ \A c \in Conns : conn[c].loop # "unborn" => conn'[c].loop # "unborn"
    BY <1>2, LifeStep
  <2>e. EstablishedHeard /\ PongHeard
    BY DEF HInv
  <2>2. PongHeard'
    <3>1. CASE \E c \in Conns : LoopStart(c) \/ Read(c)
      BY <2>1, <2>e, <3>1, ReaderHeard
    <3>2. CASE UNCHANGED <<reader, protos, heard>>
      <4>1. \A c \in Conns : reader[c].pc = "apply" => reader[c].conn \in Conns
        BY DEF TypeOK, ReaderState
      <4>2. ReaderBorn' /\ SourceHeard' /\ MessageHeard'
        BY <2>1, <2>e, <3>2 DEF PongHeard, ReaderBorn, SourceHeard, MessageHeard
      <4>3. TargetHeard'
        BY <2>1, <2>e, <3>2, <4>1 DEF PongHeard, TargetHeard
      <4> QED
        BY <4>2, <4>3 DEF PongHeard
    <3> QED
      BY <1>2, <3>1, <3>2
      DEF Next, Schedule, Loop, Device, Background, OnOpenTunnel, ScheduleClose, DialError,
          OnRelayedData, ScheduleSend, LoopConnecting, LoopExpired, LoopClose,
          LoopKeepalive, LoopSend, LoopDie,
          HandleClosed, LoopVars, DeviceSelf, ForwardSend, DeviceWrite, ForwardFound,
          ForwardUse,
          ForwardRequest, RequestDone, Second, Period
  <2>3. heard \subseteq heard'
    BY <1>2
    DEF Next, Schedule, Loop, Read, Device, Background, OnOpenTunnel, ScheduleClose, DialError,
        OnRelayedData, ScheduleSend, LoopStart, LoopConnecting, LoopExpired, LoopClose,
        LoopKeepalive, LoopSend,
        LoopDie, HandleClosed, LoopVars, ReadPacket, ReadData, ReaderSend, ReadError,
        Unmarshal, Lookup,
        OnPing, OnPong, DeviceSelf, ForwardSend, DeviceWrite, ForwardFound, ForwardUse,
        ForwardRequest,
        RequestDone, Second, Period
  <2>4. EstablishedHeard'
    <3>1. CASE \A c \in Conns : ~OnPong(c)
      <4>1. \A c \in Conns : conn'[c].state = conn[c].state
        BY <1>2, <3>1, StateStep
      <4> QED
        BY <2>1, <2>3, <2>e, <4>1 DEF EstablishedHeard
    <3>2. ASSUME NEW c \in Conns, OnPong(c)
          PROVE  EstablishedHeard'
      <4> DEFINE d == reader[c].conn
      <4>1. d \in Conns /\ conn[d].remote \in heard
        BY <2>e, <3>2 DEF OnPong, TypeOK, ReaderState, PongHeard, TargetHeard
      <4>2. \A e \in Conns \ {d} : conn'[e] = conn[e]
        BY <3>2, <4>1 DEF OnPong, TypeOK
      <4> HIDE DEF d
      <4> QED
        BY <2>1, <2>3, <2>e, <4>1, <4>2 DEF EstablishedHeard
    <3> QED
      BY <3>1, <3>2
  <2> QED
    BY <2>2, <2>4 DEF HInv
<1> QED
  BY <1>1, <1>2

\* As long as the peers keep their addresses and a torn address does not name a
\* third peer, data goes out directly only to an address that has answered a
\* Ping, however many readers decode into the same message at a time
\* (handlePacket, onPong, forward).
THEOREM StableEstablishedHeard ==
    ASSUME StableAddresses, TornHarmless
    PROVE  Spec => []EstablishedHeard
<1>1. Init => HInv
  BY NodeAssumption
  DEF Init, HInv, EstablishedHeard, PongHeard, ReaderBorn, SourceHeard, MessageHeard,
      TargetHeard, Unborn, NoPacket
<1>2. IInv /\ SInv /\ HInv /\ [Next]_vars => HInv'
  <2> SUFFICES ASSUME IInv, SInv, HInv, [Next]_vars PROVE HInv'
    OBVIOUS
  <2>1. CASE Next
    BY <2>1, HeardStep DEF IInv
  <2>2. CASE UNCHANGED vars
    BY <2>2 DEF vars, HInv, EstablishedHeard, PongHeard, ReaderBorn, SourceHeard,
                MessageHeard, TargetHeard
  <2> QED
    BY <2>1, <2>2
<1>3. HInv => EstablishedHeard
  BY DEF HInv
<1> QED
  BY StableInvariance, <1>1, <1>2, <1>3, PTL DEF Spec

=============================================================================
