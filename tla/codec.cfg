SPECIFICATION Spec
CONSTANTS
  xor <- XorByte
  Segments <- ByteSegments
  MaxBytes = 16
  MaxRest = 1
  Samples <- FrameSamples
  Encodings <- FrameEncodings
  Cuts <- FrameCuts
INVARIANTS Reencodes BuiltIsParsed RepliesAreParsed PeersAreParsed
PROPERTY Settles
CHECK_DEADLOCK FALSE
