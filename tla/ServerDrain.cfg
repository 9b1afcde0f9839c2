SPECIFICATION Spec
CONSTANTS
  c1 = c1
  c2 = c2
  Conns = {c1, c2}
  Caps = {1, 2}
  IdleTimeout = FALSE
  AcceptErrors = FALSE
  Frames = {"cmd"}
  MaxFrames = 1
SYMMETRY ConnSymmetry
INVARIANTS
  CleanDrain
  InFlightKept
  NoListenerLeft
  CapHolds
CHECK_DEADLOCK FALSE
