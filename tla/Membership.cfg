CONSTANTS
  Nodes = {self, p, q}
  Local = self
  Addresses = {good, bad}
  Dialable = {good}
  NoAddress = NoAddress
  Conns = {c1, c2, c3, c4, c5}
  NoConn = NoConn
  MaxLeaks = 1
  Requests = {r}

SPECIFICATION FairSpec

INVARIANT TypeOK
INVARIANT ForwardFindsClient
INVARIANT ClosedClientIsGone
PROPERTY NothingLeaks
PROPERTY RequestsReturn
