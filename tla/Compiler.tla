-------------------------------- MODULE Compiler --------------------------------
(***************************************************************************)
(* The pipeline of main() (src/main.cpp): parse, check, generate, each     *)
(* reading what the stage before it left, the first CompileError ending    *)
(* the run.  The properties relate the three walks over the same tree to   *)
(* each other and to what the tree itself says.                            *)
(***************************************************************************)
EXTENDS CodeGen

vars == <<prog, open, phase, err, tpc, tfn, tvars, loopDepth,
          cpc, cfn, cvars, ins, body, frames, loopStack>>

Init == /\ ParserInit /\ phase = "parse" /\ err = NoError
        /\ CheckerInit /\ GenInit

Parse == ParserNext /\ UNCHANGED <<checkerVars, genVars>>
Check == CheckerNext /\ UNCHANGED <<parserVars, genVars>>
Generate == GenNext /\ UNCHANGED <<parserVars, checkerVars>>

\* main() returns: its exit code is 1 after a throw
Finished == phase \in {"done", "failed"} /\ UNCHANGED vars

Next == Parse \/ Check \/ Generate \/ Finished

Spec == Init /\ [][Next]_vars

TypeOK == ParserTypeOK /\ CheckerTypeOK /\ GenTypeOK

-----------------------------------------------------------------------------
(* What the tree says of itself, without walking it in order *)

Nodes == 1..Len(prog)
SimpleAt(kinds) == {i \in Nodes : prog[i].k \in kinds}

Within(f) == {i \in Nodes : f <= i /\ FunctionOf(i) = f}

\* the declaration that gives v its meaning at node i: the parameter (the
\* header itself), or a declaration anywhere earlier in the function
DeclsBefore(v, i) == {j \in Within(FunctionOf(i)) :
                        j < i /\ prog[j].k \in {"fn", "decl"} /\ prog[j].v = v}

DeclType(j) == IF prog[j].k = "fn" THEN "int" ELSE prog[j].t

Declared(v, i) == DeclsBefore(v, i) # {}
TheDecl(v, i)  == CHOOSE j \in DeclsBefore(v, i) : TRUE

HasType(u, i, t) ==
  IF u \in Vars THEN Declared(u, i) /\ DeclType(TheDecl(u, i)) = t
  ELSE t = CASE u \in {"lit", "input"} -> "int" [] u = "agg" -> "agg" [] u = "void" -> "void"

\* what the language asks of one node
WellFormed(i) ==
  LET s == prog[i]
  IN CASE s.k = "decl"   -> ~Declared(s.v, i) /\ s.t # "void" /\ HasType(s.u, i, s.t)
       [] s.k = "assign" -> /\ Declared(s.v, i)
                            /\ prog[TheDecl(s.v, i)].k = "decl" /\ prog[TheDecl(s.v, i)].m
                            /\ HasType(s.u, i, DeclType(TheDecl(s.v, i)))
       [] s.k = "part"   -> HasType(s.v, i, "agg") /\ HasType(s.u, i, "int")
       [] s.k = "expr"   -> s.u \in Vars => Declared(s.u, i)
       [] s.k = "ret"    -> IF s.u = None THEN prog[FunctionOf(i)].t = "void"
                            ELSE HasType(s.u, i, prog[FunctionOf(i)].t)
       [] s.k \in {"if", "loop"}   -> HasType(s.u, i, "int")
       [] s.k \in {"stop", "cont"} -> LoopsAround(i) # {}
       [] OTHER -> TRUE

\* a list is left at stop, cont and r/: what follows in it is dead
Ends(i, j) == /\ i < j /\ prog[i].k \in {"ret", "stop", "cont"}
              /\ \A k \in i..j : prog[k].d >= prog[i].d

Dead(j) == \E i \in Nodes : Ends(i, j)

Uses(i) == {v \in Vars : v = prog[i].u \/ (prog[i].k \in {"assign", "part"} /\ v = prog[i].v)}

\* node i is live and names a variable whose declaration is dead
UsesDeadDecl(i) == ~Dead(i) /\ \E v \in Uses(i) : Declared(v, i) /\ Dead(TheDecl(v, i))

\* node i is a live `r/` of a void value
ReturnsVoidValue(i) == prog[i].k = "ret" /\ prog[i].u = "void" /\ ~Dead(i)

-----------------------------------------------------------------------------
(* Properties of the type checker *)

\* The checker (checkStmt over one flat vars_ per function, counting
\* loopDepth_) has accepted exactly the nodes behind it that the tree itself
\* makes well formed, and throws at the first node that is not.
CheckerIsExact ==
  /\ \A i \in Nodes : i < tpc => WellFormed(i)
  /\ err.stage = "check" => ~WellFormed(tpc)

\* loopDepth_ (never reset between functions) and loopStack_ both count the
\* loops of the source around the node reached, so neither leaks a loop of
\* one function into the next, dead code skipped or not.
LoopCountsAgree ==
  \A i \in Nodes \ SimpleAt({"endloop"}) :
    /\ phase = "check" /\ i = tpc => loopDepth = Cardinality(LoopsAround(i))
    /\ phase = "gen" /\ i = cpc => Len(loopStack) = Cardinality(LoopsAround(i))

-----------------------------------------------------------------------------
(* Properties of the control-flow graph *)

\* the blocks an activation of genIf or genLoop has yet to enter
Pending(f) == CASE f.k = "then" -> {<<f.at, "else">>, <<f.at, "merge">>}
                [] f.k = "else" -> {<<f.at, "merge">>}
                [] f.k = "loop" -> {<<f.at, "after">>}

Waiting == UNION {Pending(frames[i]) : i \in 1..Len(frames)}

\* No block ever gets an instruction behind its terminator, whatever mix of
\* r/, stop, cont, nested if and loop the source has (genStmtList, genIf and
\* genLoop each look at getTerminator before they append).
OneTerminator ==
  \A b \in DOMAIN body : \A i \in 1..(Len(body[b]) - 1) : body[b][i].k \notin Terminators

\* the node reached lies in a function
Inside == cpc \in Nodes /\ prog[cpc].k # "fn"

\* Every block is closed as soon as nothing can be added to it any more:
\* between functions and in the finished module no block lacks a terminator,
\* inside a function only the insertion block and the blocks that an
\* activation of genIf or genLoop will still enter may (genIf, genLoop and
\* the default return of defineFn close what genStmt leaves open).
BlocksClosed ==
  \A b \in DOMAIN body : Terminated(body, b) \/ (Inside /\ (b = ins \/ b \in Waiting))

\* A branch goes to a block of its own function and never to the entry block.
BranchesStayLocal ==
  \A b \in DOMAIN body : \A i \in 1..Len(body[b]) : \A t \in Targets(body[b][i]) :
    /\ t \in DOMAIN body /\ t[2] # "entry"
    /\ FunctionOf(t[1]) = FunctionOf(b[1])

InnermostLoop(i) == CHOOSE a \in LoopsAround(i) : \A c \in LoopsAround(i) : c <= a

\* stop leaves, and cont repeats, the innermost loop of the source around it.
ExitsInnermostLoop ==
  \A b \in DOMAIN body : \A i \in 1..Len(body[b]) :
    LET x == body[b][i]
    IN  x.k = "br" /\ prog[x.at].k \in {"stop", "cont"} =>
          x.to = << <<InnermostLoop(x.at), IF prog[x.at].k = "stop" THEN "after" ELSE "cond">> >>

Emitted == {x.at : x \in UNION {{body[b][i] : i \in 1..Len(body[b])} : b \in DOMAIN body}}

\* Dead code is the only code left out: a node that always emits something
\* is in the module exactly when no stop, cont or r/ precedes it in its list
\* or in a list around it.
OnlyDeadCodeIsSkipped ==
  phase = "done" =>
    \A i \in SimpleAt({"decl", "assign", "part", "ret", "stop", "cont", "if", "loop"}) :
      i \in Emitted <=> ~Dead(i)

\* A slot is allocated once, in the entry block of its function (createAlloca
\* from inside any loop), so no loop grows the stack.
SlotsInEntry ==
  /\ \A b \in DOMAIN body : \A i \in 1..Len(body[b]) :
       body[b][i].k = "alloca" => b[2] = "entry"
  /\ \A b \in DOMAIN body : \A i, j \in 1..Len(body[b]) :
       body[b][i].k = "alloca" /\ body[b][j].k = "alloca" /\ body[b][i].v = body[b][j].v
         => i = j \/ body[b][i].v = None

\* A block that has its terminator is never touched again, except that the
\* entry block of the function being defined still gets slots at its front.
ClosedBlocksFrozen ==
  [][\A b \in DOMAIN body : Terminated(body, b) =>
       /\ b \in DOMAIN body'
       /\ LET n == Len(body'[b]) - Len(body[b])
          IN  /\ SubSeq(body'[b], n + 1, Len(body'[b])) = body[b]
              /\ \A i \in 1..n : body'[b][i].k = "alloca" /\ b = Entry]_vars

-----------------------------------------------------------------------------
(* Properties of the two passes together *)

\* What the checker accepts the generator lowers, with two exceptions and no
\* other: a live use of a variable whose declaration is dead code, which the
\* checker declares and genStmtList never reaches, and a live `r/` of a void
\* value, which verifyFunction refuses.
GeneratorVerdict ==
  /\ err.stage = "gen" =>
       \/ err.code = "UndeclaredIdentifier" /\ UsesDeadDecl(cpc)
       \/ /\ err.code = "CodegenFailure"
          /\ \E i \in Within(cfn) : ReturnsVoidValue(i)
  /\ phase = "done" => \A i \in Nodes : ~UsesDeadDecl(i) /\ ~ReturnsVoidValue(i)

\* The two symbol tables agree: at the same point of the same function the
\* generator's vars_ holds what the checker's held, less the dead declarations.
TablesAgree ==
  phase = "gen" /\ cpc \in Nodes /\ prog[cpc].k # "fn" /\ ~Dead(cpc) =>
    /\ DOMAIN cvars = {v \in Vars : Declared(v, cpc) /\ ~Dead(TheDecl(v, cpc))}
    /\ \A v \in DOMAIN cvars :
         cvars[v] = [t |-> DeclType(TheDecl(v, cpc)), m |-> prog[TheDecl(v, cpc)].m]

\* a write to the slot of a variable, whole (store) or to a part (pstore),
\* that the statement it comes from and the declaration allow
WriteFits(x) ==
  LET s == prog[x.at]   d == TheDecl(x.v, x.at)
  IN  /\ x.k = "store"  => \/ s.k \in {"fn", "decl"} /\ s.v = x.v
                           \/ s.k = "assign" /\ s.v = x.v /\ prog[d].k = "decl" /\ prog[d].m
      /\ x.k = "pstore" => s.k = "part" /\ s.v = x.v /\ DeclType(d) = "agg"

\* In a finished module every write to a variable is one its source names.
\* The whole slot is written by the declaration of the variable, and else by
\* assignments to a `var`, never to a `let` or a parameter; a part is
\* written by an assignment to a part, to a variable with parts.  So a `let`
\* without parts has one writer; one with parts may change in its parts
\* (LetIsImmutable denies that, and fails).
WritesAsDeclared ==
  phase = "done" => \A b \in DOMAIN body : \A i \in 1..Len(body[b]) : WriteFits(body[b][i])

-----------------------------------------------------------------------------
(* Claims of the documentation that the code does not keep *)

\* ROADMAP.md: a type-checking pass runs before code generation, so what
\* passes it should generate.
AcceptedProgramsGenerate ==
  err.stage = "gen" => err.code # "UndeclaredIdentifier"

\* error.h files CodegenFailure under "codegen: internal": no source that
\* passes the checks should produce it.
NoInternalFailure == err.code # "CodegenFailure"

\* README.md: "`let` is an immutable variable".
LetIsImmutable ==
  phase = "done" =>
    \A b \in DOMAIN body : \A i \in 1..Len(body[b]) :
      LET x == body[b][i]
      IN  x.k = "pstore" => prog[TheDecl(x.v, x.at)].m
=============================================================================
