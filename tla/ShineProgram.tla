----------------------------- MODULE ShineProgram -----------------------------
(***************************************************************************)
(* The abstract syntax tree of a Shine module (include/shine/ast.h) and    *)
(* the part of the parser that builds it, statement by statement.          *)
(*                                                                         *)
(* The tree is kept in preorder: a sequence of nodes in which a function,  *)
(* an if and a loop open a statement list that an "endfn", "else"/"endif"  *)
(* or "endloop" node closes.  Every node carries its nesting depth `d`, so *)
(* the checker and the generator, which recurse over the tree in C++, walk *)
(* it with an index and an explicit stack of activations.  An `if` always  *)
(* has an else list, empty when the source has none, as in IfStmt.         *)
(*                                                                         *)
(* Expressions are reduced to operands: a variable, or one of the strings  *)
(*   "lit"    an integer literal,                                          *)
(*   "agg"    a struct or array literal of the one aggregate type,         *)
(*   "void"   write(...), or a call of a void function,                    *)
(*   "input"  user_input("..."), an int that only the run can tell.        *)
(***************************************************************************)
EXTENDS Integers, SequencesExt

CONSTANTS Vars,     \* names of variables and parameters
          None,     \* no name, no operand
          Stmts,    \* the statements without a block that a source may hold
          Conds,    \* the operands its conditions may be
          Heads,    \* the headers its functions may have
          MaxLen    \* bound: nodes of a tree

Literals == {"lit", "agg", "void", "input"}
Operand  == Vars \cup Literals
Types    == {"int", "agg", "void"}

Node(k, v, u, m, t) == [k |-> k, v |-> v, u |-> u, m |-> m, t |-> t, d |-> 0]

Decl(m, t, v, u) == Node("decl", v, u, m, t)
Assign(v, u)     == Node("assign", v, u, FALSE, "void")
\* x.f = u and x[0] = u: the variable x is the target, the part is an int
PartAssign(v, u) == Node("part", v, u, FALSE, "int")
Eval(u)          == Node("expr", None, u, FALSE, "void")
Return(u)        == Node("ret", None, u, FALSE, "void")
Stop             == Node("stop", None, None, FALSE, "void")
Cont             == Node("cont", None, None, FALSE, "void")
Header(t, v)     == Node("fn", v, None, FALSE, t)

Openers  == {"fn", "if", "else", "loop"}
Closers  == {"endfn", "else", "endif", "endloop"}
Simple   == {"decl", "assign", "part", "expr", "ret", "stop", "cont"}
NodeKind == Openers \cup Closers \cup Simple

AnyNode == [k : NodeKind, v : Vars \cup {None}, u : Operand \cup {None},
            m : BOOLEAN, t : Types, d : Nat]

ASSUME ProgramAssumption ==
  /\ Vars \cap Literals = {} /\ Vars \cap {"arg", "zero"} = {}
  /\ None \notin Vars \cup Literals \cup {"arg", "zero"}
  /\ Stmts \subseteq {s \in AnyNode : s.k \in Simple}
  /\ \A s \in Stmts : /\ s.k \in {"decl", "assign", "part"} => s.v \in Vars
                      /\ s.k \in {"decl", "assign", "part", "expr"} => s.u \in Operand
                      /\ s.k \in {"stop", "cont"} => s.u = None
                      /\ s.k = "part" => s.t = "int"
  /\ Conds \subseteq Operand
  /\ Heads \subseteq {h \in AnyNode : h.k = "fn" /\ h.m = FALSE}
  /\ MaxLen \in Nat

VARIABLES prog,   \* the tree in preorder, a prefix of it while parsing
          open,   \* kinds of the lists that are open, innermost last
          phase,  \* where main() is: "parse", "check", "gen", "done", "failed"
          err     \* the CompileError thrown, by stage and code

parserVars == <<prog, open>>
mainVars   == <<phase, err>>

Stages == {"none", "parse", "check", "gen"}

\* enum class Err, the codes a tree over these statements can raise
ErrCode == {"none", "SyntaxError", "UndeclaredIdentifier", "VariableRedeclared",
            "VoidVariable", "ImmutableAssign", "TypeMismatch", "NotAnAggregate",
            "ReturnTypeMismatch", "ConditionType", "BreakOutsideLoop",
            "ContinueOutsideLoop", "CodegenFailure"}

NoError == [stage |-> "none", code |-> "none"]

-----------------------------------------------------------------------------
(* Reading the tree *)

\* the statement list that holds node i ends at node j
ListEnds(i) == {j \in (i + 1)..Len(prog) :
                  /\ prog[j].d < prog[i].d
                  /\ \A k \in i..(j - 1) : prog[k].d >= prog[i].d}

FunctionOf(i) == CHOOSE f \in 1..i : /\ prog[f].k = "fn"
                                     /\ \A k \in (f + 1)..i : prog[k].k # "fn"

\* node a opens a list that holds node i, directly or further in
Encloses(a, i) == /\ a < i /\ prog[a].k \in Openers
                  /\ \A k \in (a + 1)..i : prog[k].d > prog[a].d

LoopsAround(i) == {a \in 1..i : prog[a].k = "loop" /\ Encloses(a, i)}

-----------------------------------------------------------------------------
(* The parser *)

ParserInit == prog = <<>> /\ open = <<>>

Place(n, depth) == prog' = Append(prog, [n EXCEPT !.d = depth])

Parsing == phase = "parse"

\* bound: the nodes that close the open lists still fit
Fits == Len(prog') + Len(open') + Len(SelectSeq(open', LAMBDA k : k = "if")) <= MaxLen

\* parseModule: at the top level only a function can start
ParseFunction == /\ Parsing /\ open = <<>>
                 /\ \E h \in Heads : Place(h, 0)
                 /\ open' = <<"fn">> /\ Fits
                 /\ UNCHANGED mainVars

InList == Parsing /\ open # <<>>

Simply(kinds) == /\ InList
                 /\ \E s \in Stmts : s.k \in kinds /\ Place(s, Len(open))
                 /\ open' = open /\ Fits
                 /\ UNCHANGED mainVars

ParseVarDecl == Simply({"decl"})
\* the tail of stmt(): an expression, an assignment if '=' follows it
ParseAssignOrExpr == Simply({"assign", "part", "expr"})
ParseReturn   == Simply({"ret"})
ParseBreak    == Simply({"stop"})
ParseContinue == Simply({"cont"})

Opening(k) == /\ InList
              /\ \E c \in Conds : Place(Node(k, None, c, FALSE, "void"), Len(open))
              /\ open' = Append(open, k) /\ Fits
              /\ UNCHANGED mainVars

ParseIf   == Opening("if")
ParseLoop == Opening("loop")

\* the then list ends, the else list (empty without an 'else') begins
ParseElse == /\ InList /\ Last(open) = "if"
             /\ Place(Node("else", None, None, FALSE, "void"), Len(open) - 1)
             /\ open' = Append(Front(open), "else")
             /\ UNCHANGED mainVars

Closing(o, k) == /\ InList /\ Last(open) = o
                 /\ Place(Node(k, None, None, FALSE, "void"), Len(open) - 1)
                 /\ open' = Front(open)
                 /\ UNCHANGED mainVars

ParseEndIf       == Closing("else", "endif")
ParseEndLoop     == Closing("loop", "endloop")
ParseEndFunction == Closing("fn", "endfn")

\* parseModule returns at the end of the input
ParseModule == /\ phase = "parse" /\ open = <<>>
               /\ phase' = "check"
               /\ UNCHANGED <<prog, open, err>>

Throw(stage, code) == /\ phase' = "failed"
                      /\ err' = [stage |-> stage, code |-> code]

\* a token that fits nowhere, or the end of the input inside a block
ParseFails == /\ phase = "parse"
              /\ Throw("parse", "SyntaxError")
              /\ UNCHANGED parserVars

ParserNext == \/ ParseFunction \/ ParseEndFunction
              \/ ParseVarDecl \/ ParseAssignOrExpr \/ ParseReturn
              \/ ParseBreak \/ ParseContinue
              \/ ParseIf \/ ParseElse \/ ParseEndIf \/ ParseLoop \/ ParseEndLoop
              \/ ParseModule \/ ParseFails

ParserTypeOK == /\ prog \in Seq(AnyNode)
                /\ \A i \in 1..Len(prog) :
                     prog[i].k \in {"decl", "assign", "part"} => prog[i].v \in Vars
                /\ open \in Seq(Openers)
                /\ phase \in {"parse", "check", "gen", "done", "failed"}
                /\ err \in [stage : Stages, code : ErrCode]
=============================================================================
