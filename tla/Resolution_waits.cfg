SPECIFICATION WaitsEnd
CONSTANTS
  d1 = d1  d2 = d2  q1 = q1  q2 = q2  ann = ann  bob = bob  p1 = p1  p2 = p2
  h1 = h1  h2 = h2  x = x  y = y  z = z  i = i  k = k  v = v  w = w
  Rank <- InOrder
  Agents = {ann, bob}
  Ids = {i, k}
  Values = {v, w}
  Contents <- MCContents
  Refers <- MCRefers
  None = None
  Domains = {d1, d2}
  Requirements = {q1}
  Procs = {p1}
  Hints = {}
  Results = {x}
  Limit <- Tight
  Attempts = 2
  Stops = {"state"}
INVARIANTS WithinCapacity OfferedIsResolved
PROPERTIES CallsEnd
CHECK_DEADLOCK FALSE
