SPECIFICATION Spec
CONSTANTS
  Share = 2
  NoFolio = "none"
  NoSecurity = "none"
  Folios <- MCFolios
  Securities <- MCSecurities
  Worlds <- MCWorlds
  ReliableSince = 1
  Moods = 2
  Quotes <- MCQuotes
  Years <- MCYears
  TwelveMonths = 2
  Grandfather = 1
  ExemptUntil = 3
  Fmv <- MCFmv
  Eligible <- MCEligible
CHECK_DEADLOCK FALSE
INVARIANTS
  TypeOK
  ReplayIsDayWalk
  
  CostIsKept
  ViewsAgree
  
  ValuedAsInvested
  PageReachesHeld
  
  ReportsAgree
PROPERTIES
  SuggestionCloses
  FractionLeavesFreely
  
