SPECIFICATION FairFramingSpec
CONSTANTS
  Size <- MCSize
  MaxFrameBytes = 1
  LengthModulus = 4
  ReadCapacity = 4
  MaxFrames = 3
INVARIANTS DecodedArePrefix BufferBounded
PROPERTY ReaderProgresses
CHECK_DEADLOCK FALSE
