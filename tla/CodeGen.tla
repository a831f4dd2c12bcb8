-------------------------------- MODULE CodeGen --------------------------------
(***************************************************************************)
(* class CodeGen (src/codegen.cpp): the walk over the tree that lowers     *)
(* each function to a graph of LLVM basic blocks.                          *)
(*                                                                         *)
(* A block is named by the node that creates it and its role there.  The   *)
(* C++ recursion of genStmtList is the stack `frames`: when a statement    *)
(* list ends, the activation on top says which of genIf, genLoop or        *)
(* defineFn goes on.  `ins` is the builder's insertion block, `body` the   *)
(* instructions of every block created so far, `cvars` is vars_ (slot,     *)
(* type, mutability) and `loopStack` is loopStack_.                        *)
(*                                                                         *)
(* A throw discards the CodeGen object, so an action that throws leaves    *)
(* its variables as they were.                                             *)
(***************************************************************************)
EXTENDS TypeChecker

VARIABLES cpc, cfn, cvars, ins, body, frames, loopStack

genVars == <<cpc, cfn, cvars, ins, body, frames, loopStack>>

Roles == {"entry", "then", "else", "merge", "cond", "body", "after"}
Block == Nat \X Roles
NoBlock == <<0, "entry">>

\* at: the node that emits it; v: the slot; u: the operand stored, tested or
\* returned, or the call made; to: the targets of a branch, the true one first
InstrKind == {"alloca", "store", "pstore", "load", "call", "br", "ret"}
Instr == [k : InstrKind, at : Nat, v : Vars \cup {None},
          u : Operand \cup {None, "arg", "zero"}, to : Seq(Block)]

I(k, at, v, u, to) == [k |-> k, at |-> at, v |-> v, u |-> u, to |-> to]

Alloca(v)      == I("alloca", cpc, v, None, <<>>)
Load(v)        == I("load", cpc, v, None, <<>>)
Store(v, u)    == I("store", cpc, v, u, <<>>)
StorePart(v, u) == I("pstore", cpc, v, u, <<>>)
Call(u)        == I("call", cpc, None, u, <<>>)
Br(b)          == I("br", cpc, None, None, <<b>>)
CondBr(u, t, f) == I("br", cpc, None, u, <<t, f>>)
Ret(u)         == I("ret", cpc, None, u, <<>>)

Targets(x) == {x.to[i] : i \in 1..Len(x.to)}

Terminators == {"br", "ret"}

\* mutant of Terminated: asks whether the block is empty
NonEmpty(bd, b) == bd[b] # <<>>

\* BasicBlock::getTerminator: the last instruction, if it ends a block
Terminated(bd, b) == bd[b] # <<>> /\ Last(bd[b]).k \in Terminators

\* BasicBlock::Create, and appending at the end of a block
Create(bd, new)   == [b \in DOMAIN bd \cup new |-> IF b \in new THEN <<>> ELSE bd[b]]
Emit(bd, b, code) == [bd EXCEPT ![b] = @ \o code]

Entry == <<cfn, "entry">>

\* mutant of AddSlot: the slot where the builder stands
SlotHere(bd, v) == [bd EXCEPT ![ins] = @ \o <<Alloca(v)>>]

\* createAlloca: at the beginning of the entry block, wherever ins is
AddSlot(bd, v) == [bd EXCEPT ![Entry] = <<Alloca(v)>> \o @]

\* genExpr into block b: a literal of the aggregate type is built in a
\* temporary slot, user_input() calls printf, scanf and getchar on one
GenExpr(bd, b, u) ==
  CASE u \in Vars            -> Emit(bd, b, <<Load(u)>>)
    [] u = "void"            -> Emit(bd, b, <<Call(u)>>)
    [] u \in {"agg", "input"} -> Emit(AddSlot(bd, None), b, <<Call(u)>>)
    [] u \in {"lit", None}   -> bd

-----------------------------------------------------------------------------

GenInit == /\ cpc = 1 /\ cfn = 0 /\ cvars = NoVars /\ ins = NoBlock
           /\ body = [b \in {} |-> <<>>]
           /\ frames = <<>> /\ loopStack = <<>>

Here == prog[cpc]

Generating(kinds) == phase = "gen" /\ cpc \in 1..Len(prog) /\ Here.k \in kinds

Statements == Simple \cup {"if", "loop"}

\* mutant of AtStatement: no look at the terminator
AtAnyStatement(kinds) == Generating(kinds)

\* genStmtList checks the terminator before every statement
AtStatement(kinds) == Generating(kinds) /\ ~Terminated(body, ins)

GenThrow(code) == Throw("gen", code) /\ UNCHANGED genVars

UndeclaredUse(u) == Unbound(cvars, u) /\ GenThrow("UndeclaredIdentifier")

Ahead == cpc' = cpc + 1

\* genStmtList leaves the rest of a list whose block already ended
SkipRest == /\ Generating(Statements)
            /\ Terminated(body, ins)
            /\ \E j \in ListEnds(cpc) : cpc' = j
            /\ UNCHANGED <<cfn, cvars, ins, body, frames, loopStack, mainVars>>

\* mutant of GenFunction: vars_ keeps what the function before declared
GenFunctionKeepsVars ==
  /\ Generating({"fn"})
  /\ cfn' = cpc /\ ins' = <<cpc, "entry">> /\ cvars' = IF cfn = 0 THEN ParamEnv(Here) ELSE cvars
  /\ body' = Create(body, {ins'}) /\ Ahead
  /\ UNCHANGED <<frames, loopStack, mainVars>>

\* defineFn, up to its genStmtList: the parameter gets a slot and a store
GenFunction ==
  /\ Generating({"fn"})
  /\ cfn' = cpc /\ ins' = <<cpc, "entry">> /\ cvars' = ParamEnv(Here)
  /\ body' = LET bd == Create(body, {ins'})
             IN  IF Here.v = None THEN bd
                 ELSE Emit(bd, ins', <<Alloca(Here.v), Store(Here.v, "arg")>>)
  /\ Ahead
  /\ UNCHANGED <<frames, loopStack, mainVars>>

Bound(u) == ~Unbound(cvars, u)

GenVarDecl ==
  /\ AtStatement({"decl"})
  /\ \/ Here.v \in DOMAIN cvars /\ GenThrow("VariableRedeclared")
     \/ /\ Here.v \notin DOMAIN cvars
        /\ \/ Here.t = "void" /\ GenThrow("VoidVariable")
           \/ Here.t # "void" /\ UndeclaredUse(Here.u)
           \/ /\ Here.t # "void" /\ Bound(Here.u)
              /\ body' = Emit(GenExpr(AddSlot(body, Here.v), ins, Here.u),
                              ins, <<Store(Here.v, Here.u)>>)
              /\ cvars' = Bind(cvars, Here.v, [t |-> Here.t, m |-> Here.m])
              /\ Ahead
              /\ UNCHANGED <<cfn, ins, frames, loopStack, mainVars>>

GenAssign ==
  /\ AtStatement({"assign"})
  /\ \/ UndeclaredUse(Here.v)
     \/ /\ Bound(Here.v)
        /\ \/ ~cvars[Here.v].m /\ GenThrow("ImmutableAssign")
           \/ cvars[Here.v].m /\ UndeclaredUse(Here.u)
           \/ /\ cvars[Here.v].m /\ Bound(Here.u)
              /\ body' = Emit(GenExpr(body, ins, Here.u), ins, <<Store(Here.v, Here.u)>>)
              /\ Ahead
              /\ UNCHANGED <<cfn, cvars, ins, frames, loopStack, mainVars>>

\* mutant of GenPartAssign: stores what an earlier statement evaluated
GenPartAssignStale ==
  /\ AtStatement({"part"}) /\ Bound(Here.v) /\ Bound(Here.u)
  /\ body' = Emit(body, ins, <<StorePart(Here.v, Here.u)>>) /\ Ahead
  /\ UNCHANGED <<cfn, cvars, ins, frames, loopStack, mainVars>>

\* mutant of GenPartAssign: the address of the variable, not of the part
GenPartAssignWhole ==
  /\ AtStatement({"part"}) /\ Bound(Here.v) /\ Bound(Here.u)
  /\ body' = Emit(GenExpr(body, ins, Here.u), ins, <<Store(Here.v, Here.u)>>) /\ Ahead
  /\ UNCHANGED <<cfn, cvars, ins, frames, loopStack, mainVars>>

\* genLValueAddr of the target, then the value, then the store of the part
GenPartAssign ==
  /\ AtStatement({"part"})
  /\ \/ UndeclaredUse(Here.v)
     \/ /\ Bound(Here.v)
        /\ \/ cvars[Here.v].t # "agg" /\ GenThrow("NotAnAggregate")
           \/ cvars[Here.v].t = "agg" /\ UndeclaredUse(Here.u)
           \/ /\ cvars[Here.v].t = "agg" /\ Bound(Here.u)
              /\ body' = Emit(GenExpr(body, ins, Here.u), ins, <<StorePart(Here.v, Here.u)>>)
              /\ Ahead
              /\ UNCHANGED <<cfn, cvars, ins, frames, loopStack, mainVars>>

GenExprStmt ==
  /\ AtStatement({"expr"})
  /\ \/ UndeclaredUse(Here.u)
     \/ /\ Bound(Here.u)
        /\ body' = GenExpr(body, ins, Here.u)
        /\ Ahead
        /\ UNCHANGED <<cfn, cvars, ins, frames, loopStack, mainVars>>

GenReturn ==
  /\ AtStatement({"ret"})
  /\ \/ UndeclaredUse(Here.u)
     \/ /\ Bound(Here.u)
        /\ body' = Emit(GenExpr(body, ins, Here.u), ins, <<Ret(Here.u)>>)
        /\ Ahead
        /\ UNCHANGED <<cfn, cvars, ins, frames, loopStack, mainVars>>

\* genBreak and genContinue: a branch to what the top of loopStack_ says
Leave(kind, target, code) ==
  /\ AtStatement({kind})
  /\ \/ loopStack = <<>> /\ GenThrow(code)
     \/ /\ loopStack # <<>>
        /\ body' = Emit(body, ins, <<Br(Last(loopStack)[target])>>)
        /\ Ahead
        /\ UNCHANGED <<cfn, cvars, ins, frames, loopStack, mainVars>>

\* mutants of GenContinue: emits nothing, leaves the loop
GenContinueNot == /\ AtStatement({"cont"}) /\ Ahead
                  /\ UNCHANGED <<cfn, cvars, ins, body, frames, loopStack, mainVars>>
GenContinueLeaves == Leave("cont", "breakBB", "ContinueOutsideLoop")

GenBreak    == Leave("stop", "breakBB", "BreakOutsideLoop")
GenContinue == Leave("cont", "continueBB", "ContinueOutsideLoop")

-----------------------------------------------------------------------------
(* genIf and genLoop *)

Frame == [k : {"then", "else", "loop"}, at : Nat]

Push(k) == frames' = Append(frames, [k |-> k, at |-> cpc])

GenIf ==
  /\ AtStatement({"if"})
  /\ \/ UndeclaredUse(Here.u)
     \/ LET thenBB == <<cpc, "then">>   elseBB == <<cpc, "else">>
            mergeBB == <<cpc, "merge">>
        IN /\ Bound(Here.u)
           /\ body' = Emit(Create(GenExpr(body, ins, Here.u), {thenBB, elseBB, mergeBB}),
                           ins, <<CondBr(Here.u, thenBB, elseBB)>>)
           /\ ins' = thenBB
           /\ Push("then") /\ Ahead
           /\ UNCHANGED <<cfn, cvars, loopStack, mainVars>>

\* mutant of GenLoop: cont goes to the block in front of the loop
GenLoopFromAbove ==
  /\ AtStatement({"loop"}) /\ Bound(Here.u)
  /\ LET new == {<<cpc, "cond">>, <<cpc, "body">>, <<cpc, "after">>}
         bd == Emit(Create(body, new), ins, <<Br(<<cpc, "cond">>)>>)
     IN  body' = Emit(GenExpr(bd, <<cpc, "cond">>, Here.u), <<cpc, "cond">>,
                      <<CondBr(Here.u, <<cpc, "body">>, <<cpc, "after">>)>>)
  /\ ins' = <<cpc, "body">>
  /\ loopStack' = Append(loopStack, [continueBB |-> ins, breakBB |-> <<cpc, "after">>])
  /\ Push("loop") /\ Ahead
  /\ UNCHANGED <<cfn, cvars, mainVars>>

GenLoop ==
  /\ AtStatement({"loop"})
  /\ \/ UndeclaredUse(Here.u)
     \/ LET condBB == <<cpc, "cond">>   bodyBB == <<cpc, "body">>
            afterBB == <<cpc, "after">>
            bd == Emit(Create(body, {condBB, bodyBB, afterBB}), ins, <<Br(condBB)>>)
        IN /\ Bound(Here.u)
           /\ body' = Emit(GenExpr(bd, condBB, Here.u), condBB, <<CondBr(Here.u, bodyBB, afterBB)>>)
           /\ ins' = bodyBB
           /\ loopStack' = Append(loopStack, [continueBB |-> condBB, breakBB |-> afterBB])
           /\ Push("loop") /\ Ahead
           /\ UNCHANGED <<cfn, cvars, mainVars>>

\* mutant of FallTo: appends to a block that has ended
FallToAlways(b) == Emit(body, ins, <<Br(b)>>)

\* the branch that ends a list falls through, unless the block already ended
FallTo(b) == IF Terminated(body, ins) THEN body ELSE Emit(body, ins, <<Br(b)>>)

\* genStmtList returns to the activation on top, whose list node `end` ends
ListEnd(end, k) == /\ Generating({end})
                   /\ frames # <<>> /\ Last(frames).k = k

\* mutant of GenElse: the then list does not branch to the merge block
GenElseNoBranch ==
  /\ ListEnd("else", "then")
  /\ ins' = <<Last(frames).at, "else">>
  /\ frames' = Append(Front(frames), [k |-> "else", at |-> Last(frames).at])
  /\ Ahead
  /\ UNCHANGED <<cfn, cvars, body, loopStack, mainVars>>

GenElse ==
  /\ ListEnd("else", "then")
  /\ LET at == Last(frames).at
     IN /\ body' = FallTo(<<at, "merge">>)
        /\ ins' = <<at, "else">>
        /\ frames' = Append(Front(frames), [k |-> "else", at |-> at])
  /\ Ahead
  /\ UNCHANGED <<cfn, cvars, loopStack, mainVars>>

GenEndIf ==
  /\ ListEnd("endif", "else")
  /\ body' = FallTo(<<Last(frames).at, "merge">>)
  /\ ins' = <<Last(frames).at, "merge">>
  /\ frames' = Front(frames) /\ Ahead
  /\ UNCHANGED <<cfn, cvars, loopStack, mainVars>>

\* mutants of GenEndLoop: loopStack_ is not popped; the test is not repeated
GenEndLoopLeaks ==
  /\ ListEnd("endloop", "loop")
  /\ body' = FallTo(<<Last(frames).at, "cond">>)
  /\ ins' = <<Last(frames).at, "after">>
  /\ frames' = Front(frames) /\ Ahead
  /\ UNCHANGED <<cfn, cvars, loopStack, mainVars>>

GenEndLoopToBody ==
  /\ ListEnd("endloop", "loop")
  /\ body' = FallTo(<<Last(frames).at, "body">>)
  /\ ins' = <<Last(frames).at, "after">>
  /\ frames' = Front(frames) /\ loopStack' = Front(loopStack) /\ Ahead
  /\ UNCHANGED <<cfn, cvars, mainVars>>

GenEndLoop ==
  /\ ListEnd("endloop", "loop")
  /\ body' = FallTo(<<Last(frames).at, "cond">>)
  /\ ins' = <<Last(frames).at, "after">>
  /\ frames' = Front(frames) /\ loopStack' = Front(loopStack) /\ Ahead
  /\ UNCHANGED <<cfn, cvars, mainVars>>

-----------------------------------------------------------------------------
(* The end of defineFn *)

FnBlocks(bd, f) == {b \in DOMAIN bd : b[1] >= f}

\* mutant of DefaultReturn: an undefined value, not the null value
DefaultReturnUndef == IF Terminated(body, ins) THEN body
                      ELSE Emit(body, ins, <<Ret(IF prog[cfn].t = "void" THEN None ELSE "undef")>>)

\* CreateRetVoid, or CreateRet of the null value of the return type
DefaultReturn == IF Terminated(body, ins) THEN body
                 ELSE Emit(body, ins, <<Ret(IF prog[cfn].t = "void" THEN None ELSE "zero")>>)

\* llvm::verifyFunction: every block ends in its one terminator, branches
\* stay in the function and never enter the entry block, a slot is allocated
\* there, and ret has a value exactly when the function has a type
VerifiedBlock(bd, f, b) ==
  /\ Terminated(bd, b)
  /\ \A i \in 1..Len(bd[b]) :
       LET x == bd[b][i]
       IN /\ x.k \in Terminators => i = Len(bd[b])
          /\ Targets(x) \subseteq FnBlocks(bd, f) \ {<<f, "entry">>}
          /\ x.v # None => \E j \in 1..Len(bd[<<f, "entry">>]) :
                             /\ bd[<<f, "entry">>][j].k = "alloca"
                             /\ bd[<<f, "entry">>][j].v = x.v
          /\ x.k = "ret" => (x.u = None <=> prog[f].t = "void")

Verified(bd, f) == \A b \in FnBlocks(bd, f) : VerifiedBlock(bd, f, b)

GenEndFunction ==
  /\ Generating({"endfn"}) /\ frames = <<>>
  /\ \/ ~Verified(DefaultReturn, cfn) /\ GenThrow("CodegenFailure")
     \/ /\ Verified(DefaultReturn, cfn)
        /\ body' = DefaultReturn
        /\ Ahead
        /\ UNCHANGED <<cfn, cvars, ins, frames, loopStack, mainVars>>

\* generate() returns the module
GenDone == /\ phase = "gen" /\ cpc > Len(prog)
           /\ phase' = "done"
           /\ UNCHANGED <<genVars, err>>

GenNext == \/ SkipRest \/ GenFunction \/ GenVarDecl \/ GenAssign
           \/ GenPartAssign \/ GenExprStmt \/ GenReturn \/ GenBreak
           \/ GenContinue \/ GenIf \/ GenElse \/ GenEndIf \/ GenLoop
           \/ GenEndLoop \/ GenEndFunction \/ GenDone

GenTypeOK == /\ cpc \in Nat \ {0}
             /\ cfn \in Nat
             /\ DOMAIN cvars \subseteq Vars
             /\ \A v \in DOMAIN cvars : cvars[v] \in VarInfo
             /\ ins \in Block
             /\ DOMAIN body \subseteq Block
             /\ \A b \in DOMAIN body : body[b] \in Seq(Instr)
             /\ frames \in Seq(Frame)
             /\ loopStack \in Seq([continueBB : Block, breakBB : Block])
=============================================================================
