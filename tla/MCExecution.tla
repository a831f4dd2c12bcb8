------------------------------ MODULE MCExecution ------------------------------
(* Instances of the run of compiled programs for TLC, in two alphabets. *)
EXTENDS Execution, MCCompiler

\* every way out of lists, with a variable that tells whether it was declared
RunStmts == {Decl(TRUE, "int", vx, "lit"), Return(vx), Stop, Cont}
RunHeads == {Header("int", None)}

\* two variables, copies, parts, dead code and default returns
CopyStmts == {Decl(TRUE, "int", vx, "input"), Decl(TRUE, "agg", vy, "agg"), Assign(vx, vx), Eval("lit"),
              PartAssign(vy, vx), Return(vx), Stop, Cont}
CopyConds == {vx, "lit"}
CopyHeads == {Header("int", None), Header("int", vx)}

\* the same in a function without a result
VoidStmts == (CopyStmts \ {Return(vx)}) \cup {Return(None)}

RunAndCopyStmts == RunStmts \cup CopyStmts \cup VoidStmts
RunAndCopyConds == OneCond \cup CopyConds
RunAndCopyHeads == RunHeads \cup CopyHeads \cup VoidFn

Running == Alphabet(RunStmts, OneCond, RunHeads, 9)
Copying == Alphabet(CopyStmts, CopyConds, CopyHeads, 7)
NoResult == Alphabet(VoidStmts, CopyConds, VoidFn, 6)

\* bound: the parser stays within one alphabet
RunAlphabet == Parsing => WrittenIn(Running) \/ WrittenIn(Copying) \/ WrittenIn(NoResult)
=============================================================================
