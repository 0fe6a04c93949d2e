CONSTANTS
  Low = 0
  High = 2
  MaxStep = 1
  ComfortStep = 1
  Default = 1
  Asked <- MCAsked
  Pursuits = 1
  None = None
  VoiceQueue = 2
  NoSpeech = 1
  ReplyWait = 2
  Command = 2
  Silent = Silent
  Doings <- MCDoings
SPECIFICATION PartSpec
INVARIANT OverheardIsNotSent
CHECK_DEADLOCK FALSE
