SPECIFICATION SSpec
CONSTANTS
  client = client
  request <- TheRequest
  hello <- Hello
  bdata <- Bdata
  frag1 <- Frag1
  frag2 <- Frag2
  ping <- Pings
  goodbye <- Bye
  Conns <- One
  Kinds <- AllKinds
  Requests <- Requests1
  ParseLimit = 3
  Zero = Zero
  Fds = {0, 1}
  AppFds = {}
  AppMax = 0
  Backlogs = {}
  MaxPayloads = {}
  RecvMax = 20
  HsChunk = 2
  HsLimit = 8
  SendCap = 8
  MaxFrames = 6
  MaxCuts = 4
  Free = Free
  App = App
  Listener = Listener
INVARIANTS HangsOnlyOnFragments EchoMatches CleanSession
PROPERTY EndsOrHangs
CHECK_DEADLOCK FALSE
