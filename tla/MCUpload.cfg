CONSTANTS
  None = None
  Unknown = Unknown
  Garbage = Garbage
  Catalogue <- Models
  FieldValues <- Values
  Transcripts <- SomeTranscripts
  DefaultLanguage <- ru
  DefaultPnc = "off"
  DefaultItn = None
  Configured = 4
  Margin = 1
  Millisecond = 2
  MaxFields = 6
  Frame = 2
  SearchBackMax = 3
  SearchBackPercent = 40
  Threshold = 1
SPECIFICATION FairSpec
INVARIANTS
  EngineNeverRefuses
  AskedAsRequested
  BodyReadFirst
  InsideModelLimit
  WholeRecording
  Timeline
  LanguageTold
PROPERTY
  Answered
CHECK_DEADLOCK FALSE
