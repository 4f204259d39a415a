SPECIFICATION Spec
CONSTANTS
  Order <- MCOrder
  Capacity <- MCCapacity
  Pressure = 4
  FirstChunk = 2
  Defects <- MCDefects
  Noise = 2
INVARIANTS NothingLeaks 
PROPERTIES TestsEnd
CHECK_DEADLOCK FALSE
