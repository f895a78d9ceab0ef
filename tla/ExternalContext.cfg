SPECIFICATION MCSpec
CONSTANTS
  LastItem = 2
  MaxItems = 1
  Past <- HorizonPast
  Uploaders = 2
  MaxFaults = 1
  MaxRepeats = 0
  Feeds = {}
  Naver = Naver
  SocketIds = {s1, s2}
  NoSocket = NoSocket
  Null = Null
  Assets <- TwoAssets
  Outcomes <- Fetched
  Askers = {1, 2}
  CacheTtl = 0
  FallbackAge = 1
  FetchTime = 1
  LastMoment = 2
  MaxDbFaults = 1
  MaxChains = 2
  MaxStrays = 1
CHECK_DEADLOCK FALSE
PROPERTY ServedInOrder
PROPERTY SourcesFollowed
PROPERTY ItemsArrive
