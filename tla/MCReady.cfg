\* Two programs built side by side with the bundled linker.
SPECIFICATION FairSpec
CONSTANTS
  a = a
  b = b
  p = p
  q = q
  None = None
  Run <- TwoRuns
  Stem <- TwoStems
  CommandLines <- TwoPrograms
  Valid <- FirstOnly
  MaxVersion = 0
INVARIANTS ReadyToRun
