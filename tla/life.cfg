SPECIFICATION Spec
CONSTRAINT SecondFrameAlone
SYMMETRY AnyOrder
CONSTANTS
  c1 = c1
  c2 = c2
  Conns <- Two
  Kinds <- LifeKinds
  Requests <- LifeRequests
  ParseLimit = 3
  Zero = Zero
  Fds = {0, 1, 2}
  AppFds = {}
  AppMax = 1
  Backlogs = {0}
  MaxPayloads = {}
  RecvMax = 4
  HsChunk = 2
  HsLimit = 4
  SendCap = 2
  MaxFrames = 2
  Free = Free
  App = App
  Listener = Listener
INVARIANTS TypeOK FdTables ReadSetFresh ThreadState Accounted DeliveredOnce
PROPERTY ImplementsEcho
CHECK_DEADLOCK FALSE
