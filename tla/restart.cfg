SPECIFICATION RSpec
CONSTRAINT SecondFrameAlone
SYMMETRY AnyOrder
CONSTANTS
  c1 = c1
  c2 = c2
  Conns <- Two
  Kinds <- RestartKinds
  Requests <- OneRequest
  ParseLimit = 3
  Zero = Zero
  Fds = {0, 1, 2}
  AppFds = {}
  AppMax = 1
  Backlogs = {}
  MaxPayloads = {}
  RecvMax = 4
  HsChunk = 2
  HsLimit = 4
  SendCap = 2
  MaxFrames = 2
  MaxRuns = 2
  Free = Free
  App = App
  Listener = Listener
INVARIANTS Accounted DeliveredOnce KeptInMaster WatchedUnlessKept
PROPERTIES ImplementsEcho OnlyListenersNumbers
CHECK_DEADLOCK FALSE
