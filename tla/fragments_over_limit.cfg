SPECIFICATION Spec
CONSTANTS
  c1 = c1
  c2 = c2
  Conns <- One
  Kinds <- FragmentKinds
  Requests <- OneRequest
  ParseLimit = 3
  Zero = Zero
  Fds = {0, 1}
  AppFds = {}
  AppMax = 0
  Backlogs = {}
  MaxPayloads = {}
  RecvMax = 4
  HsChunk = 2
  HsLimit = 4
  SendCap = 2
  MaxFrames = 2
  Free = Free
  App = App
  Listener = Listener
INVARIANT MessagesWithinLimit
CHECK_DEADLOCK FALSE
