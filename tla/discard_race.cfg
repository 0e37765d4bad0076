SPECIFICATION Spec
CONSTANTS
  Attempts = 3
  MaxStalledCount = 1
  NoMessage = NoMessage
  w1 = w1 w2 = w2 e1 = e1 e2 = e2
  pw1 = pw1 pw2 = pw2 pe1 = pe1
  k1 = k1 k2 = k2 d1 = d1 d2 = d2 h1 = h1 h2 = h2
  Messages = {e1}
  Processors = {pe1}
  Acks = {}
  Admins = {d1, d2}
  Hosts = {h1}
  HostOf <- MCHostOf
  ChannelOf <- MCChannelOf
  MaxFaults = 0
  MaxOps = 2
INVARIANT DiscardedStaysFailed
CHECK_DEADLOCK FALSE
