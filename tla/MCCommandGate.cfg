SPECIFICATION PartSpec
CONSTANTS
  MinOff = 12
  MinInterval = 2
  Late = 3
  Lossy = FALSE
  f1 = f1
  f2 = f2
  y1 = y1
  y2 = y2
  Files = {f1, f2}
  Streams = {y1, y2}
  NoSong = NoSong
  Charts <- MCCharts
  MaxFetches = 1
  MaxRefusals = 1
  MaxAsked = 3
  Dock = Dock
  Bowl = Bowl
  Bath = Bath
  TvFront = TvFront
  Rooms = {kitchen}
  Between = Between
  Full = 2
  Low = 1
  MaxOrders = 3
  Manifests <- MCManifests
  NoBound = NoBound
  MaxCalls = 2

  
  
PROPERTIES
  ImplementsContract
  LossesAreMadeGood
  
  NothingHangs
