\* A void value returned from a void function.
SPECIFICATION Spec
CONSTANTS
  vx = vx
  vy = vy
  None = None
  Vars <- Both
  Stmts <- TypeStmts
  Conds <- TypeConds
  Heads <- TypeHeads
  MaxLen = 5
INVARIANTS NoInternalFailure
