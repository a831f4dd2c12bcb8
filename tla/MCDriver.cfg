\* Two runs of shinec with any two of the mixed command lines.
SPECIFICATION FairSpec
CONSTANTS
  a = a
  b = b
  p = p
  q = q
  None = None
  Run <- TwoRuns
  Stem <- TwoStems
  CommandLines <- MixedLines
  Valid <- AllButOne
  MaxVersion = 2
INVARIANTS TypeOK SuccessIsTrue RejectionKeepsOutput SourcesKept CommandLineIsRead ResponseRemoved
PROPERTIES RunsEnd
