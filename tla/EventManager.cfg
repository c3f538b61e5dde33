\* Two collectors, symmetric but for their events, and the reader.
CONSTANTS
  Collectors = {c1, c2}
  Reader = reader
  Nobody = nobody
  MaxEvents = 2
SPECIFICATION Spec
INVARIANT Inv
PROPERTIES GeneratorEnds ImplementsStream
