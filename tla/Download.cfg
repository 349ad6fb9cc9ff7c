SPECIFICATION FairSpec
CONSTANTS
  Null = Null
  Jobs <- SomeJobs
  Urls <- SomeUrls
  Answers <- SomeAnswers
  OggFiles <- SomeFiles
  Limits <- SmallLimits
  MaxAvatarBytes = 3
  Block = 2
  Mac = 1
  Margin = 1
  MaxTries = 1
  MaxBody = 8
  Rate = 4
  BytesPerSecond = 7
  Word = 32
  SeqWord = 4
  MaxSeconds = 4
INVARIANTS OnlyWhatsApp BodyBounded TooLargeIsTrue VoiceIsHonest
PROPERTIES TooLargeIsFinal DownloadEnds
CHECK_DEADLOCK FALSE
