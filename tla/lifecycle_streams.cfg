SPECIFICATION FairSpec
CONSTANTS
  Streams = {s1, s2, s3}
  NoStream = NoStream
  Budget <- SomeOfEach
INVARIANTS SignalIsNoticed
PROPERTIES EventuallyKnown SecondSignalEnds
CHECK_DEADLOCK FALSE
