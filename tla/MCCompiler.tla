------------------------------ MODULE MCCompiler ------------------------------
(***************************************************************************)
(* Instances of the compiler for TLC: what the sources may hold.  A source *)
(* is written in one of three alphabets, each with a bound of its own: the *)
(* union of the three under the largest bound would be out of reach.       *)
(***************************************************************************)
EXTENDS Compiler

CONSTANTS vx, vy

Both == {vx, vy}

\* control flow: every way out of a list, conditions and bodies that cannot fail
FlowStmts == {Return(None), Stop, Cont, Eval("void")}
OneCond   == {"input"}
VoidFn    == {Header("void", None)}

\* scopes: a variable declared, read and written anywhere among branches
ScopeStmts == {Decl(TRUE, "int", vx, "lit"), Assign(vx, "lit"), Eval(vx), Return(None), Stop}
ScopeConds == {"input", vx}

\* types: every check of the type checker, no control flow
TypeStmts == {Decl(FALSE, "int", vx, "lit"), Decl(TRUE, "agg", vy, "agg"),
              Decl(FALSE, "agg", vy, "agg"), Decl(TRUE, "int", vx, vy),
              Decl(TRUE, "void", vy, "void"), Decl(TRUE, "int", vy, vy),
              Assign(vx, vy), Assign(vy, "agg"), Assign(vx, "input"),
              PartAssign(vy, vx), PartAssign(vx, "lit"), PartAssign(vy, "void"),
              Eval(vx), Eval("agg"), Eval("void"),
              Return(None), Return(vx), Return("void"), Return("agg")}
TypeHeads == {Header("void", None), Header("int", vx), Header("agg", vy)}
TypeConds == {vx, "void", "lit"}

AllStmts == FlowStmts \cup ScopeStmts \cup TypeStmts
AllConds == OneCond \cup ScopeConds \cup TypeConds

\* the nodes of an alphabet, and the length its trees may have
Alphabet(stmts, conds, heads, length) ==
  [nodes |-> stmts \cup heads \cup {Node(k, None, c, FALSE, "void") : k \in {"if", "loop"}, c \in conds}
             \cup {Node(k, None, None, FALSE, "void") : k \in Closers},
   length |-> length]

WrittenIn(a) == /\ Len(prog) + Len(open) + Len(SelectSeq(open, LAMBDA k : k = "if")) <= a.length
                /\ \A i \in 1..Len(prog) : [prog[i] EXCEPT !.d = 0] \in a.nodes

Flow   == Alphabet(FlowStmts, OneCond, VoidFn, 9)
Scopes == Alphabet(ScopeStmts, ScopeConds, VoidFn, 8)
Typed  == Alphabet(TypeStmts, TypeConds, TypeHeads, 5)

\* bound: the parser stays within one alphabet
OneAlphabet == Parsing => WrittenIn(Flow) \/ WrittenIn(Scopes) \/ WrittenIn(Typed)
=============================================================================
