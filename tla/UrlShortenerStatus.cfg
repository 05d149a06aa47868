\* Expected to fail: an error page reaches the client with status 200.
CONSTANTS
  Servers = {s1, s2}
  Clients = {c1, c2}
  Ids = {i1, i2}
  Urls = {u1, u2}
  Free = Free
  NoLink = NoLink
  Relative = Relative
  Unparsable = Unparsable
  MaxRequests = 3
  MaxTables = 2
SYMMETRY Alike
SPECIFICATION ShortSpec
INVARIANT ErrorsHaveTheirStatus
