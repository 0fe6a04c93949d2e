CONSTANTS
  c1 = c1
  c2 = c2
  home = home
  remote = remote
  Calls <- MCCalls
  Viewers <- MCViewers
  Levels <- MCLevels
  NoLevel = NoLevel
  NoCall = NoCall
  Scenes <- MCScenes
  Top = 4
  Step = 2
  Stride = 3
  Presets <- MCPresets
  OffAt = 4
  Default = 1
  NoTarget = NoTarget
  Presses = 2
  Moves = 1
  Pages = {p1, p2}
  Volumes <- MCVolumes
  NoSettings = NoSettings
  Uses = 2
  Upsets = 1
SPECIFICATION HandSpec
INVARIANTS
  
  VoiceIsObeyed

  
  
CHECK_DEADLOCK FALSE
