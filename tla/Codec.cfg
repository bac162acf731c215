SPECIFICATION Spec
CONSTANTS
  MaxLen = 6
  MaxFrame = 11
  Grow = 4
  Limit = 3
  SmallIn = 1
  SmallOut = 2
  BigIn = 3
  BigOut = 4
  UInt = 10
  IntMax = 4
INVARIANTS
  TypeOK
  FrameInOrder
  RoundTrip
  AcceptedExactlyWhen
  BuffersOwned
