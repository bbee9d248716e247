SPECIFICATION StreamsSpec
CONSTANTS
  NumStreams = 2
  NumFds = 12
  NumPipeStreams = 3
  NumNames = 2
CHECK_DEADLOCK FALSE
INVARIANTS
  NoCircularWait
  OutputIsItsOwn
PROPERTIES
  StreamsClose
