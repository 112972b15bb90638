---------------------------- MODULE TunnelProofs ----------------------------
(***************************************************************************)
(* Node implements Tunnels as long as the peers keep their addresses, for  *)
(* any number of peers and connections: every step of a node is a move of  *)
(* one tunnel or leaves all of them alone.                                 *)
(***************************************************************************)
EXTENDS NodeProofs

\* A loop that has left its select found the die channel closed.
EndedDied == \A c \in Conns : conn[c].loop \in {"closed", "done"} => conn[c].die

\* Connection c becomes r: it may be established or closed, but not both at once
\* and neither is ever undone; its loop ends only after it was closed.
Gentle(c, r) ==
    /\ r.state = conn[c].state \/ r.state = "Established"
    /\ r.die = conn[c].die \/ (r.die = TRUE /\ r.state = conn[c].state)
    /\ r.loop \in {"closed", "done"} => conn[c].die \/ r.loop = conn[c].loop

GentleStep ==
    /\ connections' = connections
    /\ \E c \in Conns : \E r \in Connection :
          conn' = [conn EXCEPT ![c] = r] /\ Gentle(c, r)

SameTunnels ==
    /\ connections' = connections
    /\ \A c \in Conns : /\ conn'[c].state = conn[c].state
                         /\ conn'[c].die = conn[c].die
                         /\ conn'[c].loop = conn[c].loop

\* Only DialOK and HandleClosed are not gentle.
LEMMA StepShape ==
    ASSUME TypeOK, TypeOK', SInv, Next,
           \A c \in Conns : ~DialOK(c) /\ ~HandleClosed(c)
    PROVE  GentleStep \/ SameTunnels
<1>a. conn \in [Conns -> ConnectionFields] /\ conn' \in [Conns -> Connection]
  BY DEF TypeOK, Connection
<1>b. ASSUME connections' = connections, conn' = conn
      PROVE  SameTunnels
  BY <1>b DEF SameTunnels
<1>c. ASSUME NEW c \in Conns, NEW r, connections' = connections,
             conn' = [conn EXCEPT ![c] = r], Gentle(c, r)
      PROVE  GentleStep
  <2>1. r = conn'[c]
    BY <1>a, <1>c
  <2>2. r \in Connection
    BY <1>a, <2>1
  <2> QED
    BY <1>c, <2>2 DEF GentleStep
<1>1. ASSUME ScheduleClose
      PROVE  FALSE
  BY <1>1 DEF ScheduleClose, SInv, DialsWhenFree
<1>2. ASSUME NEW c \in Conns, LoopStart(c)
      PROVE  GentleStep
  <2> DEFINE d == c
             r == [conn[d] EXCEPT !.loop = "run"]
  <2>1. d \in Conns
    OBVIOUS
  <2>2. r.state = conn[d].state /\ r.die = conn[d].die /\ r.loop = "run"
    BY <1>a, <2>1 DEF ConnectionFields
  <2>3. connections' = connections /\ conn' = [conn EXCEPT ![d] = r]
    BY <1>2 DEF LoopStart
  <2> HIDE DEF r
  <2>5. Gentle(d, r)
    BY <2>2 DEF Gentle
  <2> HIDE DEF d
  <2> QED
    BY <1>c, <2>1, <2>3, <2>5
<1>3. ASSUME NEW c \in Conns, LoopConnecting(c)
      PROVE  GentleStep
  <2> DEFINE d == c
             r == [conn[d] EXCEPT !.pinged = TRUE]
  <2>1. d \in Conns
    OBVIOUS
  <2>2. r.state = conn[d].state /\ r.die = conn[d].die /\ r.loop = conn[d].loop
    BY <1>a, <2>1 DEF ConnectionFields
  <2>3. connections' = connections /\ conn' = [conn EXCEPT ![d] = r]
    BY <1>3 DEF LoopConnecting
  <2> HIDE DEF r
  <2>5. Gentle(d, r)
    BY <2>2 DEF Gentle
  <2> HIDE DEF d
  <2> QED
    BY <1>c, <2>1, <2>3, <2>5
<1>4. ASSUME NEW c \in Conns, LoopExpired(c)
      PROVE  GentleStep
  <2> DEFINE d == c
             r == [conn[d] EXCEPT !.loop = "close"]
  <2>1. d \in Conns
    OBVIOUS
  <2>2. r.state = conn[d].state /\ r.die = conn[d].die /\ r.loop = "close"
    BY <1>a, <2>1 DEF ConnectionFields
  <2>3. connections' = connections /\ conn' = [conn EXCEPT ![d] = r]
    BY <1>4 DEF LoopExpired
  <2> HIDE DEF r
  <2>5. Gentle(d, r)
    BY <2>2 DEF Gentle
  <2> HIDE DEF d
  <2> QED
    BY <1>c, <2>1, <2>3, <2>5
<1>5. ASSUME NEW c \in Conns, LoopClose(c)
      PROVE  GentleStep
  <2> DEFINE d == c
             r == [conn[d] EXCEPT !.die = TRUE, !.loop = "run"]
  <2>1. d \in Conns
    OBVIOUS
  <2>2. r.state = conn[d].state /\ r.die = TRUE /\ r.loop = "run"
    BY <1>a, <2>1 DEF ConnectionFields
  <2>3. ~conn[c].die
    BY <1>5 DEF LoopClose, SInv, ClosesOnce
  <2>4. connections' = connections /\ conn' = [conn EXCEPT ![d] = r]
    BY <1>5, <2>3 DEF LoopClose
  <2> HIDE DEF r
  <2>5. Gentle(d, r)
    BY <2>2, <2>3 DEF Gentle
  <2> HIDE DEF d
  <2> QED
    BY <1>c, <2>1, <2>4, <2>5
<1>6. ASSUME NEW c \in Conns, LoopKeepalive(c)
      PROVE  GentleStep
  <2> DEFINE d == c
             r == [conn[d] EXCEPT !.pinged = TRUE]
  <2>1. d \in Conns
    OBVIOUS
  <2>2. r.state = conn[d].state /\ r.die = conn[d].die /\ r.loop = conn[d].loop
    BY <1>a, <2>1 DEF ConnectionFields
  <2>3. connections' = connections /\ conn' = [conn EXCEPT ![d] = r]
    BY <1>6 DEF LoopKeepalive
  <2> HIDE DEF r
  <2>5. Gentle(d, r)
    BY <2>2 DEF Gentle
  <2> HIDE DEF d
  <2> QED
    BY <1>c, <2>1, <2>3, <2>5
<1>7. ASSUME NEW c \in Conns, LoopSend(c)
      PROVE  GentleStep
  <2> DEFINE d == c
             r == [conn[d] EXCEPT !.pipeline = Tail(@)]
  <2>1. d \in Conns
    OBVIOUS
  <2>2. r.state = conn[d].state /\ r.die = conn[d].die /\ r.loop = conn[d].loop
    BY <1>a, <2>1 DEF ConnectionFields
  <2>3. connections' = connections /\ conn' = [conn EXCEPT ![d] = r]
    BY <1>7 DEF LoopSend
  <2> HIDE DEF r
  <2>5. Gentle(d, r)
    BY <2>2 DEF Gentle
  <2> HIDE DEF d
  <2> QED
    BY <1>c, <2>1, <2>3, <2>5
<1>8. ASSUME NEW c \in Conns, LoopDie(c)
      PROVE  GentleStep
  <2> DEFINE d == c
             r == [conn[d] EXCEPT !.loop = "closed"]
  <2>1. d \in Conns
    OBVIOUS
  <2>2. r.state = conn[d].state /\ r.die = conn[d].die /\ r.loop = "closed"
    BY <1>a, <2>1 DEF ConnectionFields
  <2>3. conn[c].die
    BY <1>8 DEF LoopDie
  <2>4. connections' = connections /\ conn' = [conn EXCEPT ![d] = r]
    BY <1>8, <2>3 DEF LoopDie
  <2> HIDE DEF r
  <2>5. Gentle(d, r)
    BY <2>2, <2>3 DEF Gentle
  <2> HIDE DEF d
  <2> QED
    BY <1>c, <2>1, <2>4, <2>5
<1>9. ASSUME NEW c \in Conns, OnPing(c)
      PROVE  GentleStep
  <2> DEFINE d == reader[c].conn
             r == [conn[d] EXCEPT !.pipeline = Append(@, "Pong")]
  <2>1. d \in Conns
    BY <1>9 DEF OnPing, TypeOK, ReaderState
  <2>2. r.state = conn[d].state /\ r.die = conn[d].die /\ r.loop = conn[d].loop
    BY <1>a, <2>1 DEF ConnectionFields
  <2>3. connections' = connections /\ conn' = [conn EXCEPT ![d] = r]
    BY <1>9 DEF OnPing, ReadVars
  <2> HIDE DEF r
  <2>5. Gentle(d, r)
    BY <2>2 DEF Gentle
  <2> HIDE DEF d
  <2> QED
    BY <1>c, <2>1, <2>3, <2>5
<1>10. ASSUME NEW c \in Conns, OnPong(c)
      PROVE  GentleStep
  <2> DEFINE d == reader[c].conn
             r == [conn[d] EXCEPT !.age = 0, !.state = "Established"]
  <2>1. d \in Conns
    BY <1>10 DEF OnPong, TypeOK, ReaderState
  <2>2. r.state = "Established" /\ r.die = conn[d].die /\ r.loop = conn[d].loop
    BY <1>a, <2>1 DEF ConnectionFields
  <2>3. connections' = connections /\ conn' = [conn EXCEPT ![d] = r]
    BY <1>10 DEF OnPong, ReadVars
  <2> HIDE DEF r
  <2>5. Gentle(d, r)
    BY <2>2 DEF Gentle
  <2> HIDE DEF d
  <2> QED
    BY <1>c, <2>1, <2>3, <2>5
<1>11. ASSUME ForwardUse
      PROVE  GentleStep \/ SameTunnels
  <2> DEFINE d == forward.conn
             r == [conn[d] EXCEPT !.pipeline = Append(@, "Data")]
  <2>1. d \in Conns
    BY <1>11 DEF ForwardUse, TypeOK, AtRead, AtSend
  <2>2. r.state = conn[d].state /\ r.die = conn[d].die /\ r.loop = conn[d].loop
    BY <1>a, <2>1 DEF ConnectionFields
  <2>3. connections' = connections /\ (conn' = conn \/ conn' = [conn EXCEPT ![d] = r])
    BY <1>11 DEF ForwardUse
  <2> HIDE DEF r
  <2>5. Gentle(d, r)
    BY <2>2 DEF Gentle
  <2> HIDE DEF d
  <2> QED
    BY <1>b, <1>c, <2>1, <2>3, <2>5
<1>12. ASSUME Period
      PROVE  SameTunnels
  BY <1>a, <1>12 DEF Period, SameTunnels, ConnectionFields
<1> QED
  BY <1>b, <1>1, <1>2, <1>3, <1>4, <1>5, <1>6, <1>7, <1>8, <1>9, <1>10, <1>11, <1>12
  DEF Next, Schedule, Loop, Read, Device, Background, OnOpenTunnel, DialError,
      OnRelayedData, ScheduleSend, ReadPacket, ReadData, ReaderSend, ReadError, Unmarshal,
      Lookup, DeviceSelf, ForwardSend, DeviceWrite, ForwardFound, ForwardRequest,
      RequestDone, Second, ReadVars

\* The die channel stays closed, and no loop ends before it is.
LEMMA NextEndedDied ==
    ASSUME TypeOK, TypeOK', SInv, EndedDied, Next
    PROVE  EndedDied'
<1>a. conn \in [Conns -> ConnectionFields]
  BY DEF TypeOK, Connection
<1>1. ASSUME NEW c \in Conns, DialOK(c)
      PROVE  EndedDied'
  <2> DEFINE n == NewConnection(schedule.virt, schedule.udp)
  <2>1. n.loop = "start"
    BY DEF NewConnection, Unborn
  <2>2. conn' = [conn EXCEPT ![c] = n]
    BY <1>1 DEF DialOK
  <2> HIDE DEF n
  <2> QED
    BY <1>a, <2>1, <2>2 DEF EndedDied
<1>2. ASSUME NEW c \in Conns, HandleClosed(c)
      PROVE  EndedDied'
  <2> DEFINE r == [conn[c] EXCEPT !.loop = "done"]
  <2>1. conn[c].loop = "closed" /\ conn' = [conn EXCEPT ![c] = r]
    BY <1>2 DEF HandleClosed
  <2>2. r.die = conn[c].die
    BY <1>a DEF ConnectionFields
  <2> HIDE DEF r
  <2> QED
    BY <1>a, <2>1, <2>2 DEF EndedDied
<1>3. ASSUME GentleStep
      PROVE  EndedDied'
  <2>1. PICK c \in Conns, r \in Connection : conn' = [conn EXCEPT ![c] = r] /\ Gentle(c, r)
    BY <1>3 DEF GentleStep
  <2>2. ASSUME r.loop \in {"closed", "done"}
        PROVE  r.die
    <3>1. conn[c].die
      BY <2>1, <2>2 DEF Gentle, EndedDied
    <3> QED
      BY <2>1, <3>1 DEF Gentle
  <2> QED
    BY <1>a, <2>1, <2>2 DEF EndedDied
<1>4. ASSUME SameTunnels
      PROVE  EndedDied'
  BY <1>4 DEF SameTunnels, EndedDied
<1> QED
  BY <1>1, <1>2, <1>3, <1>4, StepShape

-----------------------------------------------------------------------------
(* The steps as seen by Tunnels                                            *)

\* A connection the table does not change can only move its own tunnel.
LEMMA GentleMoves ==
    ASSUME TypeOK, TypeOK', TableLive, GentleStep
    PROVE  Tunnel!Next \/ tunnel' = tunnel
<1>a. conn \in [Conns -> ConnectionFields] /\ connections \in [Peers -> Conns \cup {NoConn}]
  BY DEF TypeOK, Connection
<1>1. PICK c \in Conns, r \in Connection : conn' = [conn EXCEPT ![c] = r] /\ Gentle(c, r)
  BY DEF GentleStep
<1>2. connections' = connections
  BY DEF GentleStep
<1>3. ASSUME NEW u \in Peers, connections[u] # c
      PROVE  tunnel'[u] = tunnel[u]
  BY <1>a, <1>1, <1>2, <1>3 DEF tunnel
<1>4. CASE \E v \in Peers : connections[v] = c
  <2>1. PICK v \in Peers : connections[v] = c
    BY <1>4
  <2>2. \A u \in Peers : u # v => connections[u] # c
    BY <2>1, NodeAssumption DEF TableLive
  <2>3. conn'[c] = r
    BY <1>a, <1>1
  <2>4. c # NoConn
    BY NodeAssumption
  <2>5. /\ tunnel[v] = IF conn[c].die THEN "closing" ELSE conn[c].state
        /\ tunnel'[v] = IF r.die THEN "closing" ELSE r.state
    BY <1>2, <2>1, <2>3, <2>4 DEF tunnel
  <2>6. conn[c].state \in {"Connecting", "Established"}
    BY <1>a DEF ConnectionFields
  <2>7. tunnel'[v] = tunnel[v] \/ <<tunnel[v], tunnel'[v]>> \in Tunnel!Moves
    BY <1>1, <2>5, <2>6 DEF Gentle, Tunnel!Moves
  <2>8. tunnel' = [tunnel EXCEPT ![v] = tunnel'[v]]
    BY <1>3, <2>2 DEF tunnel
  <2>9. tunnel'[v] = tunnel[v] => tunnel' = tunnel
    BY <2>8 DEF tunnel
  <2> QED
    BY <2>7, <2>8, <2>9 DEF Tunnel!Next, Tunnel!Move
<1>5. CASE \A v \in Peers : connections[v] # c
  <2>1. \A u \in Peers : tunnel'[u] = tunnel[u]
    BY <1>3, <1>5
  <2> QED
    BY <2>1 DEF tunnel
<1> QED
  BY <1>4, <1>5

\* A dial gives the peer a tunnel it did not have.
LEMMA DialMoves ==
    ASSUME TypeOK, SInv, NEW c \in Conns, DialOK(c), TableLive
    PROVE  Tunnel!Next
<1>a. conn \in [Conns -> ConnectionFields] /\ connections \in [Peers -> Conns \cup {NoConn}]
  BY DEF TypeOK, Connection
<1> DEFINE n == NewConnection(schedule.virt, schedule.udp)
           v == schedule.virt
<1>1. v \in Peers
  BY DEF DialOK, TypeOK, AtRead, AtSend, ScheduleClosing, ScheduleDialling
<1>2. n.state = "Connecting" /\ n.die = FALSE
  BY DEF NewConnection, Unborn
<1>3. /\ conn[c].loop = "unborn"
      /\ conn' = [conn EXCEPT ![c] = n]
      /\ connections' = [connections EXCEPT ![v] = c]
  BY DEF DialOK
<1>4. connections[v] = NoConn
  BY DEF DialOK, SInv, DialsWhenFree
<1> HIDE DEF n, v
<1>5. tunnel[v] = "none" /\ tunnel'[v] = "Connecting"
  BY <1>a, <1>1, <1>2, <1>3, <1>4, NodeAssumption DEF tunnel
<1>6. ASSUME NEW u \in Peers, u # v
      PROVE  tunnel'[u] = tunnel[u]
  <2>1. connections'[u] = connections[u] /\ connections[u] # c
    BY <1>a, <1>3, <1>6, NodeAssumption DEF TableLive
  <2> QED
    BY <1>a, <1>3, <2>1 DEF tunnel
<1>7. tunnel' = [tunnel EXCEPT ![v] = tunnel'[v]]
  BY <1>6 DEF tunnel
<1> QED
  BY <1>1, <1>5, <1>7 DEF Tunnel!Next, Tunnel!Move, Tunnel!Moves

\* handleClosed ends the tunnel of a connection that was closed.
LEMMA EndMoves ==
    ASSUME TypeOK, SInv, EndedDied, NEW c \in Conns, HandleClosed(c), TableLive
    PROVE  Tunnel!Next
<1>a. conn \in [Conns -> ConnectionFields] /\ connections \in [Peers -> Conns \cup {NoConn}]
  BY DEF TypeOK, Connection
<1> DEFINE r == [conn[c] EXCEPT !.loop = "done"]
           v == conn[c].peerVirtAddr
<1>1. conn[c].loop = "closed" /\ conn[c].die
  BY DEF HandleClosed, EndedDied
<1>2. v \in Peers /\ connections[v] = c
  BY <1>1 DEF TypeOK, Connection, SInv, OnePerPeer
<1>3. /\ conn' = [conn EXCEPT ![c] = r]
      /\ connections' = [connections EXCEPT ![v] = NoConn]
  BY DEF HandleClosed
<1> HIDE DEF r
<1>5. tunnel[v] = "closing" /\ tunnel'[v] = "none"
  BY <1>a, <1>1, <1>2, <1>3, NodeAssumption DEF tunnel
<1>6. ASSUME NEW u \in Peers, u # v
      PROVE  tunnel'[u] = tunnel[u]
  <2>1. connections'[u] = connections[u] /\ connections[u] # c
    BY <1>a, <1>3, <1>6, NodeAssumption DEF TableLive
  <2> QED
    BY <1>a, <1>3, <2>1 DEF tunnel
<1>7. tunnel' = [tunnel EXCEPT ![v] = tunnel'[v]]
  BY <1>6 DEF tunnel
<1> QED
  BY <1>2, <1>5, <1>7 DEF Tunnel!Next, Tunnel!Move, Tunnel!Moves

\* When no peer ever changes its UDP address, a node gives each peer one tunnel
\* at a time, closed once and gone before the next (onOpenTunnel, onPong, the
\* loops and handleClosed, however they interleave).
THEOREM StableImplements ==
    ASSUME StableAddresses
    PROVE  Spec => ImplementsTunnels
<1>1. Init => EndedDied /\ Tunnel!Init
  <2>1. Init => EndedDied
    BY DEF Init, EndedDied, Unborn
  <2>2. Init => Tunnel!Init
    BY DEF Init, Tunnel!Init, tunnel
  <2> QED
    BY <2>1, <2>2
<1>2. ASSUME IInv, IInv', SInv, EndedDied, [Next]_vars
      PROVE  EndedDied' /\ [Tunnel!Next]_tunnel
  <2>1. CASE Next
    <3>1. EndedDied'
      BY <1>2, <2>1, NextEndedDied DEF IInv
    <3>2. ASSUME NEW c \in Conns, DialOK(c) \/ HandleClosed(c)
          PROVE  Tunnel!Next
      BY <1>2, <3>2, DialMoves, EndMoves DEF IInv
    <3>3. GentleStep => Tunnel!Next \/ tunnel' = tunnel
      BY <1>2, GentleMoves DEF IInv
    <3>4. ASSUME SameTunnels
          PROVE  tunnel' = tunnel
      BY <1>2, <3>4 DEF SameTunnels, tunnel, IInv, TypeOK
    <3> QED
      BY <1>2, <2>1, <3>1, <3>2, <3>3, <3>4, StepShape DEF IInv
  <2>2. CASE UNCHANGED vars
    BY <1>2, <2>2 DEF vars, EndedDied, tunnel
  <2> QED
    BY <1>2, <2>1, <2>2
<1> QED
  BY StableInvariance, <1>1, <1>2, PTL DEF Spec, ImplementsTunnels, Tunnel!Spec

=============================================================================
