\* Expressions of up to Depth operators around a leaf.
SPECIFICATION Spec
CONSTANTS
  Idents <- Names
  Env <- Scope
  Modules <- AllModules
  Standard <- StandardModule
  SourceFiles <- SomeFiles
  Leaves <- StartLeaves
  Partners <- NextTo
  Operations <- SomeOps
  DeclTypes <- Declared
  Returns <- Results
  Words <- SmallWords
  Rich = 1
  Depth = 2
  Few = 2
CHECK_DEADLOCK FALSE
INVARIANTS TypeOK StatementsAreRead NothingInvented LowersAsChecked ValuesAreExact CallsInOrder DeclarationsExact SuggestionIsClosest
