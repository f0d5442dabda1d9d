SPECIFICATION FairSpec
CONSTANTS
  Securities <- MCSecurities
  Markets <- MCMarkets
  Crews <- MCScheduler
  MaxDay = 3
  Chunk = 1
  TailGrace = 0
  MaxLag = 2
CHECK_DEADLOCK FALSE
PROPERTIES
  
  HeadHeals
  HistoryReachesBack
