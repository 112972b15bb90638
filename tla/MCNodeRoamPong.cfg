SPECIFICATION Spec
CONSTANTS
  p1 = p1
  p2 = p2
  a1 = a1
  a2 = a2
  b1 = b1
  Peers = {p1}
  Addrs = {a1, b1}
  AddrsOf <- RoamingAddrs
  Cut <- AnyCut
  Conns = {c1, c2}
  NoConn = NoConn
  Blank = Blank
  NoBytes = NoBytes
  Inbound = {"Ping", "Pong"}
  Targets = {}
  PipelineCap = 1
  DeviceCap = 1
  MaxRequests = 2
INVARIANTS EstablishedHeard
CHECK_DEADLOCK FALSE
