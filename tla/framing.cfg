SPECIFICATION Spec
CONSTANTS
  c1 = c1
  c2 = c2
  Conns <- One
  Kinds <- FramingKinds
  Requests <- FramingRequests
  ParseLimit = 2
  Zero = Zero
  Fds = {0, 1}
  AppFds = {}
  AppMax = 0
  Backlogs = {}
  MaxPayloads <- Maxima
  RecvMax = 4
  HsChunk = 2
  HsLimit = 4
  SendCap = 2
  MaxFrames = 2
  Free = Free
  App = App
  Listener = Listener
INVARIANT DeliveredOnce
PROPERTIES ImplementsEcho InventedRefused
CHECK_DEADLOCK FALSE
