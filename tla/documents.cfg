SPECIFICATION DocumentSpec
CONSTANTS
  NoValue = NoValue
  Omitted = NoValue
  Now = Now
  NoTime = NoTime
  NoPlace = NoPlace
  NoDocument = NoDocument
  Far = 1000000
  One = 4
  Half = 8
  Safe = 32
  Wide = 64
  EpochHalf = 10440
  FirstDay <- SampleFirstDay
  LastDay = 30
  Forms <- SampleForms
  Clocks <- SampleClocks
  Offsets <- SampleOffsets
  Places <- SamplePlaces
  Guesses <- SampleGuesses
INVARIANT DocumentTypeOK
INVARIANT HolderKnewTheValues
INVARIANT SignedIsVerifiable
INVARIANT CoresAgree
INVARIANT DateRulesReadAsWritten
INVARIANT NowIsToday
