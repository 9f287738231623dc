SPECIFICATION FairSpec
CONSTANTS
  p1 = p1
  p2 = p2
  Pages <- TwoPages
  Sources <- PagesAndBackground
  Typed <- TypedTexts
  Locations <- ServedOrFile
  Endpoint <- ServerUri
  Background = Background
  Settings <- FiveSettings
  MaxClicks = 1
  Capacity = 1
INVARIANTS
  TypeOK
  ServerReadsWhatWasSent
PROPERTIES
  MissedOnlyWhenAnotherLeft
  FeedSpec
  ClosingEnds
  LostClientsForgotten
  PushedIsBroadcast
CHECK_DEADLOCK FALSE
