# A verification project for the Shine compiler

TLA+ models of `shinec`, the compiler of the Shine language (six C++ files that
lower a source to LLVM IR and hand the object to a linker), TLC runs that check
them on small instances, and proofs that TLAPS checks for every instance. Paths
below are relative to the root of the repository.

- [Inventory](#inventory): the parts of the system, their state and what is hard about them
- [The models](#the-models): which module models what, and how
- [The runs](#the-runs): what each one checks, its bounds, its fairness
- [What is proved](#what-is-proved)
- [Where code and documentation disagree](#where-code-and-documentation-disagree)
- [What is not modelled](#what-is-not-modelled), and the [plan](#plan)

## Inventory

`main` (`src/main.cpp`) runs the stages in order on one thread. Each stage reads
what the one before it left and signals an error by throwing `CompileError`,
which ends the run with exit code 1.

| Part | State | Operations | Talks to |
|---|---|---|---|
| Lexer (`src/lexer.cpp`) | position, line, column | `tokenize`, `skipTrivia`, `ident`, `number`, `str` | gives the parser a vector of tokens |
| Parser (`src/parser.cpp`) | position; the lists it has open are its call stack | `parseModule`, `structDecl`, `type`, `function`, `stmt`, `block`, `expr` to `primary` | gives `main` the tree (`ast.h`) |
| Type checker (`src/typecheck.cpp`) | `fns_`, `structs_`, `vars_` (flat, per function), `currentFn_`, `loopDepth_` | `check`, `checkFn`, `checkStmt`, `inferExpr`, `checkAssignable` | reads the tree; leaves nothing but its verdict |
| Code generator (`src/codegen.cpp`) | module, builder with its insertion block, `fns_`, `fnDecls_`, `vars_`, `structs_`, `structTys_`, `loopStack_`, `currentFnDecl_` | `generate`, `declareFn`, `defineFn`, `genStmt`, `genIf`, `genLoop`, `genExpr`, `genLValueAddr` | reads the tree, repeats part of the checks, fills the LLVM module |
| Driver (`src/main.cpp`) | files: source, object, executable, the response file | `readFile`, `emitObj`, `link`, `runProcess` | file system, linker, other runs |
| Errors (`src/error.cpp`, `error.h`, `type.h`) | none | `defaultMessage`, `suggestClosest`, `levenshtein`, `equals`, `resolveTypeName` | used by all |

What makes it correct, and what is hard about it:

- *Checker and generator walk the same tree separately*, keep symbol tables of
  their own, and both can refuse it. They must agree. The checker visits dead
  code, the generator leaves it; the checker compares types, the generator takes
  the values that come; `loopDepth_` is never reset, `vars_` is flat.
- *The control-flow graph.* A list of statements can end early by `stop`, `cont`
  or `r/`, at any depth. Five places ask `getTerminator` before they append, and
  each append depends on the block that nested lists happened to end in.
- *The compiled program* must do what the source says on every path.
- *The driver* works on files that other runs, editors and crashes change. The
  response file has one name for all runs.
- *Expressions*: integer widths and signs are settled twice, by the checker and
  by the generator, and so are lvalue shapes.
- *Names* of structs and functions are resolved in some positions and not in
  others, and a later declaration replaces an earlier one of its name in four maps,
  while the list still holds both.
- *The lexer and the parser* decide what the program is: `r/` is a keyword
  depending on what follows, comments and strings end at the end of the file or
  not at all, an assignment is an expression until its `=` is read. Every error
  must be real and have the right position.

`PROJECT.json` lists the hazards one by one, at the lines where they bite, with
the properties that cover them.

## The models

```
Lexer                   characters to tokens
ExprParser              tokens to types, expressions, simple statements
  Typing                the checker on expressions        EXTENDS ExprParser
    Lowering            the generator on expressions      EXTENDS Typing
      Declarations      both symbol tables                EXTENDS Lowering
  TokenParser           blocks, functions, files          EXTENDS ExprParser
Suggest                 "did you mean"
  Expressions           one statement, all the stages     EXTENDS Declarations,
                                                            TokenParser, Suggest
ShineProgram            the tree, and the parser that grows it
  TypeChecker           the checker's walk                EXTENDS ShineProgram
    CodeGen             the generator's walk              EXTENDS TypeChecker
      Compiler          main()'s pipeline, properties     EXTENDS CodeGen
        Execution       the compiled program, run         EXTENDS Compiler
                          Source == INSTANCE SourceRun    (refinement)
  SourceRun             what a source means               EXTENDS ShineProgram
Driver                  runs of shinec sharing files
MCLexer, MCExpressions, MCCompiler, MCExecution, MCDriver instances for TLC

CompilerProofs          types of the three stages         EXTENDS Compiler
  ControlFlowProofs     the graph, the loops around       EXTENDS CompilerProofs
    BranchProofs        where branches go                 EXTENDS ControlFlowProofs
      AgreementProofs   the checker is exact, and the     EXTENDS BranchProofs
                          generator agrees with it
        StorageProofs   slots, closed blocks              EXTENDS AgreementProofs
          ExecutionProofs  the refinement                 EXTENDS StorageProofs, Execution
DriverProofs            files, exit codes, command lines  EXTENDS Driver
LexerProofs             the tokens are the text           EXTENDS Lexer
```

The compiler is modelled twice, at right angles. `Compiler` takes whole
functions with every nesting of control flow and reduces an expression to an
operand; `Expressions` takes one statement with the whole of its expressions.
They meet in the operand: what `Compiler` calls a typed operand is an expression
that `Expressions` lowers.

**Lexer.** One action per turn of a loop of `tokenize`, `skipTrivia`, `ident`,
`number` and `str`: `pos` is `pos_`, `at` is `line_` and `col_`, `mode` the loop
the code is in, `text` and `start` its locals. A text is any sequence of
characters, and `Alpha`, `Digits`, `Single`, `Pairs`, `Escapes` are the ones the
code asks for; `MaxInt` stands for the largest `int64_t`. The kind of a token is
reduced to what tells the cases apart: a keyword or a symbol is known by its
text. The reference is said of slices of the text, without a scan: which slices
are lexemes (`Lexeme`), which are blanks or comments (`IsGap`), that a lexeme is
the longest one where it stands, that a number is the sum of its digits times
powers of ten (`NumberOf`) and that a value is the characters of the literal that
are not an escaping backslash (`Spells`).

**ExprParser and TokenParser.** The recursive descent, as functions from tokens
and a position to a tree and the next position, or to the error and the token
that it points to. A token is the string it is in the source.

**Typing, Lowering, Declarations.** `Infer`, `Assignable` and `CheckStmt` return
the type or what the checker throws, in the order of its checks. `Gen`, `GenAs`,
`Place`, `Pointer` and `GenStmt` return what the generator makes of the same
tree: the LLVM type, the value as a term over constants and memory, the calls
emitted on the way in their order, and what LLVM has no meaning for (operands
of two widths, a store of another type, a value of type void, a field never
set, a struct without a size, a function without a body). An exception that
`main` does not catch is `crash`. `StructTable` and `FnTable` are the maps that
both passes fill from the same lists.

**Suggest.** `levenshtein` row by row, and the loop of `suggestClosest` with the
candidates in any order, as an `unordered_map` delivers them. The reference is
a distance without a table: how many single edits lead from word to word.

**Expressions.** An author writes a statement: an expression that grows from a
leaf by one operator at a time, printed with as few parentheses as it needs, and
perhaps without one of its tokens; or a file of declarations and nested blocks
for the parser only; or a list of structs and functions. Then `main` runs:
`Parse`, `Check`, `Generate`, and the search for a near name. Only what the
checker accepts is grown further, since it never looks around a part it refuses.

**ShineProgram.** The tree is a sequence of nodes in preorder: `fn`, `if` and
`loop` nodes open a list, `endfn`, `else`/`endif` and `endloop` nodes close it,
and every node has its depth. An `if` always has an else list, as `IfStmt` has.
The recursive descent of the parser is the variable `open`, the stack of open
lists; one action per kind of statement appends a node. So the parser
enumerates *every* tree over the statements an instance allows (`Stmts`,
`Conds`, `Heads`) up to `MaxLen` nodes, and may fail at any point. The later
stages read the tree only. This is an abstraction of the data: an expression is
an operand (a variable, a literal, an aggregate literal, a void call,
`user_input`), a type is `int`, `agg` or `void`, an aggregate has one part, a
function has at most one parameter, an int, and function names are distinct.
`v.x = e` and `v[0] = e` are one statement.

**TypeChecker.** `tpc` is the node that the recursion of `checkStmtList` has
reached, one action per kind of node. `tvars` is `vars_`, `tfn` `currentFn_`,
`loopDepth` `loopDepth_`. The order of the checks inside a statement is the
code's, so that the code of the error is the one thrown. `Verdict` advances or
throws.

**CodeGen.** `cpc` walks the tree again. A block is named by the node that
creates it and its role (`then`, `merge`, `cond`, ...); `body` maps the blocks
to their instructions; `ins` is the insertion block. The C++ stack of
`genStmtList` activations is `frames`: at the node that closes a list the
activation on top says how `genIf` or `genLoop` goes on. Every guard on
`getTerminator` is one of `AtStatement`, `SkipRest`, `FallTo`, `DefaultReturn`.
`GenEndFunction` includes `verifyFunction` as the code uses it: it may throw
`CodegenFailure`. The generator repeats the checks the code repeats.

**Compiler.** The pipeline, and the properties of the two walks. They are stated
against the tree itself (`LoopsAround`, `DeclsBefore`, `Dead`, `WellFormed`),
never against the walk.

**SourceRun and Execution.** `SourceRun` is the abstract specification: a
function run statement by statement on its tree, with conditions decided by
values, `undef` for a variable whose declaration has not run, and 0 as the
result of a body that ends without `r/`. `Execution` runs the generated blocks,
instruction by instruction, as LLVM defines them. The refinement maps the
instruction at hand to the node that emitted it, the slots to the variables,
and the returned value to the result. A load is a stutter of the source. A
literal as a statement of its own leaves no instruction, so the source passes
over it (`Idle`, `GoesTo`) on the way to the next node that does something.

**Driver.** Several processes, each with a command line, a sequence of words
that `Parsed` reads word by word as `main` does (`Turn` is one turn of its loop,
a recursive function rather than an operator, so that it can be proved about). One action per access to a
file: read the source, read it again for the line of an error, open (and truncate) the
object, write it, open the response file, fill it, start the linker (which reads
the response file then), link, remove the response file. Others may save a new
version of a source or kill a run at any point. A content records which version
of which source it was made from, so that a stale file is told from a fresh one.

## The runs

Every run explores its instance completely, in about two minutes or less with
two workers. `MCCompiler` and `MCExecution` mix several alphabets, each with a bound
of its own; a state constraint (`OneAlphabet`, `RunAlphabet`) keeps the parser
within one of them, and has no say once a tree is parsed.

| Run | Instance | Checks |
|---|---|---|
| `MCCompiler` | three alphabets: up to 9 nodes over `r/`, `stop`, `cont`, a call, `if`, `loop`; up to 8 nodes, one variable declared, read, written anywhere; up to 5 nodes over 19 statements and three headers with two variables | the graph: `OneTerminator`, `BlocksClosed`, `BranchesStayLocal`, `ExitsInnermostLoop`, `OnlyDeadCodeIsSkipped`, `LoopCountsAgree`, `ClosedBlocksFrozen`; scopes and types: `TypeOK`, `CheckerIsExact`, `GeneratorVerdict`, `TablesAgree`, `SlotsInEntry`, `WritesAsDeclared` |
| `MCLexer` | texts of up to six characters over four alphabets | `TypeOK`, `TokensAreTheText`, `ErrorsAreReal`, `CrashMeansOverflow`, `LexingEnds` |
| `MCExpressions` | expressions of up to two operators around a leaf, in every statement; about 1400 files; 450 lists of declarations; names of up to ten letters | `TypeOK`, `StatementsAreRead`, `NothingInvented`, `LowersAsChecked`, `ValuesAreExact`, `CallsInOrder`, `DeclarationsExact`, `SuggestionIsClosest` |
| `MCExecution` | compiled and run: up to 9 nodes, a declared variable, a branch on input, every way out of nested bodies; up to 7 nodes, copies between variables and parts, literals as statements, default returns; the same in up to 6 nodes without a result | `RunsAsWritten`, `AlwaysAnInstruction`, `OnlyLoopsRunForever` |
| `MCDriver` | two runs, any two of nine command lines, three platforms, two edits per source | `TypeOK`, `SuccessIsTrue`, `RejectionKeepsOutput`, `SourcesKept`, `CommandLineIsRead`, `ResponseRemoved`, `RunsEnd` |

What they show, in words:

- `CheckerIsExact`: the checker throws at the first node that is not well formed
  and at no other. A parameter is immutable, a name is declared once per
  function wherever it stands, a condition is an int.
- `GeneratorVerdict`: what the checker accepts is generated, except for a live
  use of a variable whose declaration is dead, and a live `r/` of a void value,
  the two findings below. There is no third case within the instances.
- `WritesAsDeclared`: each write in a finished module is one the source names. A
  variable is written whole by its declaration and, if it is a `var`, by
  assignments; part by part only where the statement assigns to a part of that
  variable and it is an aggregate. Parts of a `let` are written so too, which
  `LetIsImmutable` denies. Writes through an address are in `Lowering` only.
- `TablesAgree`: the two tables called `vars_` hold the same at the same point,
  less the dead declarations.
- `OneTerminator`, `BlocksClosed`, `ClosedBlocksFrozen`: the graph is well formed
  *before* `verifyFunction` looks at it, at every step.
- `OnlyDeadCodeIsSkipped`: exactly the nodes behind a `stop`, `cont` or `r/` in
  their own or an enclosing list are left out.
- `RunsAsWritten` implies all of it again from the outside: the compiled program
  has no behaviour that the source has not.
- `TokensAreTheText`, `ErrorsAreReal`: what the lexer accepts is cut into the
  longest lexemes, and what it refuses has no lexeme, blank or comment where it
  stops. The position of an error is that of the read head, one column behind a
  lone `!`, and the end of the file for an open comment or string.
- `StatementsAreRead`, `NothingInvented`: printing and parsing give the tree
  back; with one token missing the parser finds fault at the gap or behind it,
  or the rest is a statement by itself and is read as that. One expression cannot
  be written: `terminal.pause` for a field of a variable named `terminal`.
- `LowersAsChecked`: exactly which accepted statements the generator refuses,
  crashes on or turns into instructions LLVM has no meaning for. The list is
  part of the property: operands of two widths (`x + w` for an `i64` w), places
  reached through a call or, for reading, a pointer in a field (`*s.p` cannot be
  read while `*s.p = 1` is compiled), values of type void or of a struct that
  nobody declared behind a pointer, a struct literal that names one field twice.
- `ValuesAreExact`: widths 8, 32 and 64 are scaled to 2, 4 and 8 bits. What
  arrives in a slot or at `printf` is what the source means, with the exceptions
  that the property names: unsigned numbers are divided, ordered and printed as
  signed ones, numbers narrower than `int` wrap before they are widened, and a
  literal that is too large for its slot is cut.
- `CallsInOrder`: each call once and in the order of the source, except that a
  bare array literal evaluates its first element twice. `r/ h() + terminal.pause()`
  is where two operands swapped would show.
- `DeclarationsExact`: which lists of structs and functions pass the checker and
  yet cannot become a module: a part of type void, an array of an unknown struct,
  a struct that holds itself, two structs of one name (`setBody` is called twice on
  the type of the last), two functions of one name, a function named like one of
  the runtime that is called.
- `SuggestionIsClosest`: the suggestion is a nearest name, exactly when one is
  near enough, whatever order the candidates come in.
- `CommandLineIsRead`: the last path is the input, and so is an `-o` at the end, a
  file like any other that is compiled if it is there; the word behind another
  `-o` is the output, an option too; a run without an input reads nothing and
  exits with 1.
- `SourcesKept`: a source is overwritten only where `-o` names it or the name
  derived for an output is its own: a source that ends in `.o`, or is named as an
  executable is.
- `SuccessIsTrue`: exit code 0 means that the output is what this run made of
  the source it read, provided that no other run has files in common and none
  that uses the response file runs beside it. `ReadyToRun` is the same without
  the last premise, and fails. A file that another run has just truncated may be
  read as empty, and an empty file is a module that compiles.

**Bounds.** `MaxLen` bounds the nodes of a tree. Nine nodes hold two nested
constructs with a way out in each and code behind them, or an `if` in a loop in
a function followed by a second function; that is where a walk can confuse two
blocks, loops or functions, and each mutant of the code that breaks a property
does so within them. Scopes and types need fewer nodes and more statements.
Six characters (`Size`, and two more over the smallest alphabet) hold a comment
with something next to its ends, or an escape inside a string, or a number one
digit longer than `MaxInt`; the loops of the lexer look two characters ahead at
most. `Depth` bounds the operators around a leaf: a lvalue or a pointer of every
shape is one step behind another of every shape, which is as far as the cases of
`genLValueAddr` and `genPointerExpr` look; statements whose tokens may be lost,
and the targets of assignments, have up to `Rich` operators. Struct and function
lists have two entries, enough for a name to be repeated and for two structs to
hold each other. `Few` bounds the names in scope to two, so that one can be
nearer, or both equally near. Files nest two blocks, as deep as an `else` can
find a wrong `if`.
The machine's values are `zero`, `one` and `undef`: the properties tell apart
which value is where, not how it is computed. `MaxVersion` bounds edits: one
between any two steps of a run, and another. Two runs meet on files in every
way that more could, two at a time.

**Fairness.** The compiler is one thread: `WF_vars(Next)`: the
lexer goes on while it can. A compiled program is one thread as well. For the driver,
`WF` of each process: the operating system schedules it, and the linker it
waits for returns. `Kill` and `Edit` have none. Safety properties use none of it.

**Deadlock** is checked in every run but `MCExpressions`, whose statements end in
whatever stage refuses them; elsewhere the only states without a step are given
an explicit one (`Finished`, `Over`), for a stage or a program that is over.

## What is proved

Every safety property of `Compiler`, `Execution`, `Driver` and `Lexer` that a run
checks is a theorem as well, and so is the refinement `RunsAsWritten`. The theorems
speak of every set of variables, statements, conditions and headers and of trees
of every length; of every number of runs, command line, source and number of
edits; of every text. They rest on three assumptions about constants, which TLC
evaluates on every run:

- `ProgramAssumption` (ShineProgram): the sets of statements, conditions and
  headers are such sets, of the shapes the parser makes, and variables are told
  apart from literals and from the two operands `arg` and `zero` that the
  generator makes up.
- `DriverAssumption`: no file is named as the absence of one is, command lines
  are sequences of words, versions are counted from 0.
- `LexerAssumption`: a text is a finite sequence of characters, and the largest
  number is a natural one.

### The compiler

None of the properties is inductive. Each module adds what its properties need
to the invariant of the one before, and the last one stands for all.

| Module | Invariant | What it adds, and why | Theorems |
|---|---|---|---|
| CompilerProofs | `TypeOK` | inductive by itself; that declarations and assignments name a variable is what keeps the tables typed | `TypeCorrect` |
| ControlFlowProofs | `FlowInv` | `TreeOK`: depths and closing nodes match, so behind every node but the end of a function comes a node of the same function. `WalkOK`: the insertion block and the blocks of activations are named by nodes behind the walk, so a block made at `cpc` is new. Without it `genIf` may enter a merge block that somebody closed | `FlowCorrect`, `OneTerminatorCorrect`, `BlocksClosedCorrect` |
| | `NestInv` | `MatchOK`: every list is closed by a node of its kind. `DepthOK`, `StackOK`: `loopDepth_` and `loopStack_` are the loops of the tree, dead rests of lists included | `NestingCorrect`, `LoopCountsAgreeCorrect` |
| BranchProofs | `PlaceInv`, `BranchInv` | `PlaceOK`: the blocks that an activation or an entry of `loopStack_` speaks of exist, in the function at hand. `BranchOK`: where each branch goes | `PlaceCorrect`, `BranchCorrect`, `BranchesStayLocalCorrect`, `ExitsInnermostLoopCorrect` |
| AgreementProofs | `CheckInv` | `TableOK`: `vars_` of the checker is the declarations passed in this function, and nothing left from the one before | `CheckingCorrect`, `CheckerIsExactCorrect` |
| | `AgreeInv` | `WaitOK`: blocks yet to be entered are empty. `LiveOK`: the insertion block has ended exactly where the tree says the code is dead. `VarsOK`, `SlotsOK`: `vars_` of the generator is the live declarations, each with its slot. `EmittedOK`, `RetsOK`, `StoresOK`, `VerdictOK`: what is in the module, and that nothing refused is behind the walk | `AgreementCorrect`, `OnlyDeadCodeIsSkippedCorrect`, `TablesAgreeCorrect`, `GeneratorVerdictCorrect`, `WritesAsDeclaredCorrect` |
| StorageProofs | `StorageInv` | slots are in front of the entry block and there is one per variable; `Safe` says what an operation may do to a block, and implies the action property | `StorageCorrect`, `SlotsInEntryCorrect`, `ClosedBlocksFrozenCorrect` |

A step of the generator is taken apart once: `GenerateCode` and `GenerateSafe`
say what it adds to which block, one lemma for each shape of a step (straight
on, into another block, out of a list, past dead code), and the later modules
use those rather than the actions.

### The compiled program

`RunsAsWrittenCorrect` is the theorem the others lead to: `RunSpec =>
Source!RunSpec`, for every program. It needs to know where an instruction is in
the source:

- `LayInv` adds to `StorageInv` the layout of the blocks. A block begins at a node
  of the tree (`BeginsAt`: a `merge` block behind the end of its `if`, a `cond`
  block at its loop). Each instruction does its part of the node that emitted it
  (`Shape`). Behind the code of a node comes the code of the node the source goes
  on with (`Chained`, `Due`), where literals as statements leave nothing
  (`Reaches`). `FramesAt` ties the activations to the lists around the walk, so
  that what `genIf` and `genLoop` append when a list ends is due there.
- `RunInv` adds `MachineOK`: the run stands at an instruction behind the slots,
  and the register holds a value of the operand the instruction needs.
  `AlwaysAnInstructionCorrect` follows.
- The mapping `Spc` takes the instruction at hand to its node. Each action of the
  machine is then a step of the source or a stutter: one lemma for each of
  `EnterSource`, `EvaluateSource`, `StoreSource`, `ReturnSource`, `TestSource` and
  `BranchSource`. The difficult one is a branch, which has to come out where
  `SourceRun` looks for the end of a list or the innermost loop in the tree
  (`EndOfList`, `TheLoopIs`), past the ends of any number of enclosing lists.

### The driver

`RunCorrect` is `Spec => []RunInv` in DriverProofs; all properties follow.
`SuccessIsTrue` speaks of the end of a run only, so `ProgressOK` says for a run on
files of its own what is in them at every step, `MemoryOK` and `PlaceOK` what it
has read and where it can be. `ArgsOK` says that a response file, and what a
linker took from it, names the files of *some* run: without it a linker started
by one run could write anywhere, and `RejectionKeepsOutput`, which has no premise
about the response file, would be lost. `UntouchedOK` keeps the output of a
run whose source is not known to compile, `RspOK` says that whoever has opened the
response file has yet to remove it. `CommandLineIsRead` is an induction over the
words: after each number of them the command is that of the words so far.

### The lexer

`LexingCorrect` is `Spec => []LexInv` in LexerProofs, for texts of any length and
any characters. `TokensAreTheText` and `ErrorsAreReal` speak of the end of a scan
only; `LexInv` says at every step what leads there:

- `Shape`: types, and `at = Where(pos)`: `line_` and `col_` are what counting the
  new lines in front of the read head gives (`WhereNext`). No two offsets have the
  same place (`WhereOnce`), so a token tells the slice that it comes from.
- `Behind(a)`: the tokens so far cover the text up to offset `a`. Between lexemes `a`
  is the read head.
- `Begun(mode, a, pos, text)`: in a loop, the slice from `a` to the read head is a
  beginning of what that loop reads: `LineTo`, `BlockTo`, `WordTo`, `NumberTo`,
  `StringTo`. The last says as well what the characters gathered so far spell, and
  that no quote behind the first is unescaped. `start` is the place of `a`.

Each loop ends with one of three lemmas: the slice is a gap (`LineGap`,
`BlockGap`), it is the longest lexeme at `a` (`WordLexeme`, `ReturnLexeme`,
`NumberLexeme`, `StringLexeme`, `SymbolLexeme`), or nothing at all starts at `a` (`OpenBlock`,
`NoString`), and then `GapKeeps`, `PushKeeps` or `ErrKeeps` concludes. The longest
lexeme is what makes this long: a slice that goes on must be shown not to be a
lexeme of *any* kind, the `/` behind `r` or `return` included. What `stoll` computes
from left to right is the sum of digits times powers of ten: both are shown to be
the one function with the same linear recursion (`StollFacts`), since a tail of a
number is not a number that an induction over texts could speak of.

### What the proofs changed

Three statements were true of the instances and not of the code, and were
corrected when their proofs failed. `SourcesKept` left out a source that is named as
an executable is. `CommandLineIsRead` said that a run that takes `-o` for its input
does not get past its first step; it reads a file of that name, and compiles it. `SourceRun` stopped at a literal as a statement, for which the
compiled program has no instruction to stop at. The instances have the cases now
(a source `a.exe`, one without extension and one named `-o`, an output `-o`, a literal among the
statements of `MCExecution`). A fourth was an assumption that was missing: nothing said
that `arg` and `zero` are not variables.

The lexer's proofs had the model corrected where its instance could not tell. A
`>` without `=` was refused: the reference asks the same table `Single` as the
model, so no run could notice, and reading the table against the switch did.
Letters, digits and keywords were those of the run and are all of them now. A
comment to the end of a line was said to end where the next character is none,
which a NUL in the file is too.

### What stays with the model checker

- Liveness (`OnlyLoopsRunForever`, `RunsEnd`, `LexingEnds`):
  fairness and ENABLED are beyond the prover.
- `Expressions` and the modules below it, `Suggest` included: trees of expressions,
  type suffixes and edit distances are recursive operators, which the prover does
  not take, and what they compute for every tree would be an induction over data.

## Where code and documentation disagree

Seven runs state what the documentation or a comment says and find it violated.

| Run | Says | Does |
|---|---|---|
| `MCDeadDecl` | ROADMAP.md:34: the type-checking pass validates, codegen does not | a variable declared in dead code and used in live code passes the checker; codegen throws `UndeclaredIdentifier` |
| `MCVoidReturn` | error.h:62: `CodegenFailure` is internal | `r/ write("x");` in a void function passes the checker and is reported as that |
| `MCLetParts` | README.md:51: `let` is immutable | fields and elements of a `let` are assigned |
| `MCSecondVerdict` | ROADMAP.md:34, as above, for expressions | `*"text"`, a field of a call result or a dereferenced field passes the checker; codegen throws `DerefNonVariable` |
| `MCWriteAny` | ROADMAP.md:25: any int-valued expression can be passed to `write()` | `write(x + w)` with operands of two widths passes the checker and becomes an instruction LLVM has no meaning for |
| `MCUnknownStruct` | parser.cpp:107: the type checker resolves whether a struct exists | an array of an unknown struct is accepted, and codegen ends in an exception nobody catches |
| `MCReady` | README.md:79: compiled and ready to run | of two builds side by side one can read the other's response file and still exit with 0 |

## What is not modelled

- Texts of messages: `templateFor`, its placeholders, and `canonicalName`, which
  prints a pointer to `[2]i32` and an array of two `i32*` alike. Only the code of
  an error, its position and a suggested name are modelled.
- In `Compiler`: expressions below the operand, pointers (so `DerefAssignStmt`),
  several parameters. They are in `Expressions`, where in turn there is one
  statement and no control flow.
- Calls between functions at run time, the values behind pointers, and
  aggregates of several parts in `Execution`.
- LLVM's optimiser, its backends and object formats. The linker is a step that
  may fail.
- Numbers of real size: widths are scaled, for each has one `Bits` entry.
- Tests, scripts and packaging keep no state.

## Plan

1. *Done*: ShineProgram, TypeChecker, CodeGen, Compiler; SourceRun and Execution;
   Driver with its command lines.
2. *Done*: Lexer; ExprParser and TokenParser; Typing, Lowering and Declarations
   with Expressions; Suggest.
3. *Done*: every safety property of Compiler, Execution and Driver, and the
   refinement of SourceRun by Execution, proved.
4. *Done*: every safety property of Lexer proved.
5. Left: the tables of `Declarations` (`StructTable`, `FnTable`) as functions of
   the lists, in a module without recursion, so that what a repeated name does can
   be proved; two statements in `Expressions`, so that a value can be read back.

Abstract specifications: `SourceRun` for the compiled program, the slices of a
text for the lexer, the printed tree for the parser, the meaning of an
expression over memory for the generator.
