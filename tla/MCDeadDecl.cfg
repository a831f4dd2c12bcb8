\* A variable declared in dead code and used in live code.
SPECIFICATION Spec
CONSTANTS
  vx = vx
  vy = vy
  None = None
  Vars <- Both
  Stmts <- ScopeStmts
  Conds <- ScopeConds
  Heads <- VoidFn
  MaxLen = 8
INVARIANTS AcceptedProgramsGenerate
