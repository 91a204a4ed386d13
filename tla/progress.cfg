SPECIFICATION PatientSpec
CONSTANTS
  c1 = c1
  c2 = c2
  Conns <- Two
  Kinds <- ProgressKinds
  Requests <- OneRequest
  ParseLimit = 3
  Zero = Zero
  Fds = {0, 1, 2}
  AppFds = {}
  AppMax = 0
  Backlogs = {}
  MaxPayloads = {}
  RecvMax = 4
  HsChunk = 2
  HsLimit = 4
  SendCap = 1
  MaxFrames = 1
  Free = Free
  App = App
  Listener = Listener
PROPERTIES StopEnds Served Reclaimed
CHECK_DEADLOCK FALSE
