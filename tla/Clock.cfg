SPECIFICATION FairSpec
CONSTANTS
  Starts <- McStarts
  Formats <- McFormats
  MaxTicks = 3
INVARIANTS
  TypeOK
  NeverBehind
  ExactWithinAMinute
PROPERTIES
  
  ReadingEnds
