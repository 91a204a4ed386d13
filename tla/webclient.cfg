SPECIFICATION Spec
CONSTANTS
  Fds = {0, 1, 2}
  AppMax = 1
  MaxTries = 3
  MaxFrames = 2
  Free = Free
  App = App
INVARIANTS OwnDescriptor FramesOnlyUpgraded OnlyTheseLeak FramesInOrder
CHECK_DEADLOCK FALSE
