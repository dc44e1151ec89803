\* Both endpoints update their keys at once.
SPECIFICATION ChannelSpec
CONSTANTS
  W = 2
  MaxSequence = 2
  MaxGeneration = 1
  MaxFrames = 3
INVARIANT
  FreshAccepted
