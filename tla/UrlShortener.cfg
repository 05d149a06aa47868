\* Four requests over two tables.
CONSTANTS
  Servers = {s1, s2}
  Clients = {c1, c2}
  Ids = {i1, i2}
  Urls = {u1, u2}
  Free = Free
  NoLink = NoLink
  Relative = Relative
  Unparsable = Unparsable
  MaxRequests = 4
  MaxTables = 2
SYMMETRY Alike
SPECIFICATION ShortSpec
INVARIANTS
  LinksKeepTheirTarget
  SharedOnlyAfterRemoval
PROPERTY ImplementsShortUrls
