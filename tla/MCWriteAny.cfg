\* An int-valued expression that write() cannot print.
SPECIFICATION Spec
CONSTANTS
  Idents <- Names
  Env <- Scope
  Modules <- AllModules
  Standard <- StandardModule
  SourceFiles <- SomeFiles
  Leaves <- StartLeaves
  Partners <- NextTo
  Operations <- SomeOps
  DeclTypes <- Declared
  Returns <- Results
  Words <- SmallWords
  Rich = 1
  Depth = 2
  Few = 2
CHECK_DEADLOCK FALSE
INVARIANTS WritesAnyInt
