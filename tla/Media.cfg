\* A network that loses packets and lets one overtake another; eight frames of
\* video with a keyframe every three; three frames of sound; sides up to nine
\* with a product that wraps at 110.
CONSTANTS
  MaxUnits = 3
  MaxParts = 3
  InFlight = 2
  Window = 1
  Lossy = TRUE
  Interval = 3
  MaxFrames = 8
  Samples = 2
  Frames <- SomeFrames
  Configs <- SomeConfigs
  Ends <- SomeEnds
  MaxOffers = 3
  OnTheWay = 2
  Modulus = 110
  Sides = {1, 2, 3, 4, 5, 8, 9, 10, 16}
SPECIFICATION MediaSpec
INVARIANTS
  OutInOrder
  IntactUnitsReturned
  UnitsHoldTogether
  KeyframesKeepComing
  ResyncsInTime
  TrackKeepsTime
  SoundKeepsLength
  PlanesInside
  MadeToMeasure
