SPECIFICATION CodecSpec
CONSTANTS
  Base = 3
  Magic <- ShortMagic
  SizeLength = 2
  MaxMessageSize = 2
  MaxStream = 11
  MaxNoise = 3
INVARIANTS
  OnePassParse
  SentFramesHandled
  ResidueIsOneFrame
