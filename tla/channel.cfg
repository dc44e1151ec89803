\* Three frames from each side over three generations, a window of two bits.
SPECIFICATION ChannelSpec
CONSTANTS
  W = 2
  MaxSequence = 2
  MaxGeneration = 2
  MaxFrames = 3
INVARIANTS
  ChannelTypeOK
  NonceUnique
  FreshAcceptedUnlessCrossed
  CanCatchUp
PROPERTIES
  ImplementsDelivery
