SPECIFICATION FairSpec
CONSTANTS
  c1 = c1
  c2 = c2
  Conns = {c1}
  Caps = {1}
  IdleTimeout = TRUE
  AcceptErrors = TRUE
  Frames = {"cmd", "quit", "bad"}
  MaxFrames = 2
PROPERTIES
  ShutdownCannotHang
  NothingLeaks
CHECK_DEADLOCK FALSE
