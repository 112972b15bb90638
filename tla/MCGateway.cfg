SPECIFICATION GatewayFairSpec
CONSTANTS
  p1 = p1
  p2 = p2
  a1 = a1
  a2 = a2
  b2 = b2
  d2 = d2
  Torn = Torn
  Peers = {p1, p2}
  Addrs = {a1, a2, b2, Torn}
  AddrsOf <- MCMoving
  PayloadFor <- MCPayloadFor
  Payloads = {d2}
  Handlers = {h1}
  Requests <- MCRequests
  Concurrency = 1
  QueueCap = 1
  ReadCap = 1
  ChanCap = 1
  MaxRetrySend = 1
  MaxAckID = 2
INVARIANTS Introduced RelayedToPeer UpToDate
PROPERTIES ImplementsNotifier UDPLoopReturns
