SPECIFICATION FairSpec
CONSTANTS
  r1 = r1
  r2 = r2
  Readers <- TwoReaders
  READS = 2
  CHANNELS = 2
INVARIANTS
  ReadersApart
  ChannelsApart
PROPERTIES
  ImplementsServer
  EveryReadAnswered
