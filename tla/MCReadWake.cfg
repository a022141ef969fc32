CONSTANTS
  r1 = r1
  r2 = r2
  r3 = r3
  Readers <- MCReaders
SPECIFICATION SlotSpec
PROPERTY BufferedSampleTaken
