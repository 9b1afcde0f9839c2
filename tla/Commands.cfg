SPECIFICATION Spec
CONSTANTS
  c1 = c1
  c2 = c2
  k1 = k1
  Conns = {c1, c2}
  Keys = {k1}
  Absent = Absent
  MaxInt = 31
  Millisecond = 2
  MsPerSecond = 2
  Numbers <- Edges
  Options <- HelloOptions
  Names <- UnknownNames
  MaxErrEchoLen = 2
  StartTime = 3
  MaxTime = 6
  MaxCommands = 3
  Verbs = {"SET", "TTL", "PTTL", "DEL", "EXISTS", "HELLO",
           "GET", "PING", "QUIT", "SELECT", "COMMAND", "CONFIG"}
SYMMETRY Symmetry
INVARIANTS
  ExpiryExact
  RemovedOnce
  RepliesDecode
PROPERTIES
  TTLWithinEX
