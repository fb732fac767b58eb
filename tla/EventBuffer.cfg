SPECIFICATION FairBufferSpec
CONSTANTS
  NoFile = NoFile
  Events = {e1, e2, e3}
  Files = {f1, f2}
  Writers = {f1}
  Budget = 1
  Recorders = 2
  MaxLosses = 3
INVARIANTS BufferedUnlessBehind BufferBounded
PROPERTY StoredUnlessMet
CHECK_DEADLOCK FALSE
