SPECIFICATION Spec
CONSTANTS
  AJD = 2
  FrameLen = 2
  Wants = {1, 3}
  MaxFrame = 4
  Late = 1
  Wrap = 4
INVARIANTS
  TypeOK
  NoneTwiceNoneTorn
  PlayedInOrder
PROPERTIES
  EachIsPlayed
  SlotsComeFree
