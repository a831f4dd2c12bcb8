\* Sources of up to 9 nodes, each in one of three alphabets.
SPECIFICATION Spec
CONSTANTS
  vx = vx
  vy = vy
  None = None
  Vars <- Both
  Stmts <- AllStmts
  Conds <- AllConds
  Heads <- TypeHeads
  MaxLen = 9
CONSTRAINT OneAlphabet
INVARIANTS TypeOK OneTerminator BlocksClosed BranchesStayLocal ExitsInnermostLoop OnlyDeadCodeIsSkipped LoopCountsAgree CheckerIsExact GeneratorVerdict TablesAgree SlotsInEntry WritesAsDeclared
PROPERTIES ClosedBlocksFrozen
