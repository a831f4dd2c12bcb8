\* Short texts over four small sets of characters.
SPECIFICATION FairSpec
CONSTANTS
  Sources <- MixedTexts
  MaxInt = 90
  Size = 4
INVARIANTS TypeOK TokensAreTheText ErrorsAreReal CrashMeansOverflow
PROPERTIES LexingEnds
