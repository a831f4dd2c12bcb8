\* Compiled programs of up to 9 nodes run as their source says.
SPECIFICATION RunSpec
CONSTANTS
  vx = vx
  vy = vy
  None = None
  Vars <- Both
  Stmts <- RunAndCopyStmts
  Conds <- RunAndCopyConds
  Heads <- RunAndCopyHeads
  MaxLen = 9
CONSTRAINT RunAlphabet
INVARIANTS AlwaysAnInstruction
PROPERTIES RunsAsWritten OnlyLoopsRunForever
