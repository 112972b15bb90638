SPECIFICATION FairSpec
CONSTANTS
  p1 = p1
  p2 = p2
  a1 = a1
  a2 = a2
  Peers = {p1, p2}
  Addrs = {a1, a2}
  AddrsOf <- MCAddrsOf
  Payloads = {d1}
  Handlers = {h1, h2}
  Requests <- MCRequests
  Concurrency = 1
  QueueCap = 1
  ReadCap = 1
  ChanCap = 1
  MaxRetrySend = 1
  MaxAckID = 4
INVARIANTS TypeOK NoLostWakeup RetrySeesEntry NoticeCrossed
PROPERTIES NoResurrection OpenTunnelReturns NoticeDealt
