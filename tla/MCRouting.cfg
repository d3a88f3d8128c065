SPECIFICATION RoutingSpec
CONSTANTS
  Traffic <- SentFrames
  MaxPayload = 4
  DestSize = 4
  Registered <- ShortPatterns
  Asked <- ShortPaths
  MaxParams = 2
  MaxValue = 3
  FirstYear = 1560
  LastYear = 2001
  Routed <- RoutedPaths
  Methods = {"GET", "HEAD", "POST"}
  Routes <- ExactRoutes
  Patterns <- RoutePatterns
  Trees <- FileTrees
  Servers <- Configurations
  MaxRequests = 2
INVARIANTS
  TypesOK
  FramesFound CloseOnce
  HeadIsRead MatchesSegments FormArrives DateReadsBack WhoAnswers
CHECK_DEADLOCK FALSE
