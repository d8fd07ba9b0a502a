SPECIFICATION FairSpec
CONSTANTS
  Streams = {s1, s2, s3}
  NoStream = NoStream
  Budget <- SomeOfEach
PROPERTIES SignalEnds
CHECK_DEADLOCK FALSE
