SPECIFICATION Spec
CONSTANTS
  c1 = c1
  c2 = c2
  Conns = {c1}
  Caps = {1}
  IdleTimeout = FALSE
  AcceptErrors = FALSE
  Frames = {"cmd"}
  MaxFrames = 1
INVARIANTS
  ExecutedIsAnswered
CHECK_DEADLOCK FALSE
