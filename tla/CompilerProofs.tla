----------------------------- MODULE CompilerProofs -----------------------------
(***************************************************************************)
(* What holds of the compiler for every set of names and statements and    *)
(* every bound on the tree.                                                *)
(***************************************************************************)
EXTENDS Compiler, SequenceTheorems, TLAPS

-----------------------------------------------------------------------------
(* Lemmas about the operators the stages are built from *)

(* Taking the last element off a nonempty sequence (open, frames,           *)
(* loopStack) leaves a shorter sequence of the same elements.               *)
LEMMA FrontFacts ==
  ASSUME NEW T, NEW s \in Seq(T), s # <<>>
  PROVE  /\ Last(s) \in T
         /\ Front(s) \in Seq(T)
         /\ Len(s) \in Nat \ {0}
         /\ Len(Front(s)) = Len(s) - 1
         /\ \A i \in 1..Len(Front(s)) : Front(s)[i] = s[i]
  <1>1. Len(s) \in Nat \ {0} /\ s[Len(s)] \in T
    BY EmptySeq, ElementOfSeq
  <1>2. /\ SubSeq(s, 1, Len(s) - 1) \in Seq(T)
        /\ Len(SubSeq(s, 1, Len(s) - 1)) = Len(s) - 1
        /\ \A i \in 1..(Len(s) - 1) : SubSeq(s, 1, Len(s) - 1)[i] = s[i]
    <2>1. \A i \in 1..(Len(s) - 1) : s[i] \in T
      BY <1>1, ElementOfSeq
    <2> DEFINE n == Len(s) - 1
    <2>2. n \in Nat
      BY <1>1
    <2> DEFINE front == SubSeq(s, 1, n)
    <2>3. /\ front \in Seq(T)
          /\ Len(front) = IF 1 <= n THEN n - 1 + 1 ELSE 0
          /\ \A i \in 1..(n - 1 + 1) : front[i] = s[1 + i - 1]
      BY <2>1, <2>2, SubSeqProperties
    <2>n. n = Len(s) - 1 /\ front = SubSeq(s, 1, Len(s) - 1)
      OBVIOUS
    <2> HIDE DEF n, front
    <2>4. \A i \in 1..n : front[i] = s[i]
      <3> TAKE i \in 1..n
      <3>1. i \in 1..(n - 1 + 1) /\ 1 + i - 1 = i
        BY <2>2
      <3> QED BY <2>3, <3>1
    <2>5. Len(front) = n
      BY <2>2, <2>3
    <2> QED BY <2>n, <2>3, <2>4, <2>5
  <1> QED BY <1>1, <1>2 DEF Last, Front

(* Binding a name in a symbol table (vars_[name] = ...) keeps its type.     *)
LEMMA BindType ==
  ASSUME NEW env, DOMAIN env \subseteq Vars, \A v \in DOMAIN env : env[v] \in VarInfo,
         NEW w \in Vars, NEW info \in VarInfo
  PROVE  /\ DOMAIN Bind(env, w, info) \subseteq Vars
         /\ \A v \in DOMAIN Bind(env, w, info) : Bind(env, w, info)[v] \in VarInfo
  BY DEF Bind

(* The parameters of a header make a well-typed table.                      *)
LEMMA ParamEnvType ==
  ASSUME NEW h \in AnyNode
  PROVE  /\ DOMAIN ParamEnv(h) \subseteq Vars
         /\ \A v \in DOMAIN ParamEnv(h) : ParamEnv(h)[v] \in VarInfo
  <1>1. h.v \in Vars \cup {None}
    BY DEF AnyNode
  <1>2. [t |-> "int", m |-> FALSE] \in VarInfo
    BY DEF VarInfo, Types
  <1>3. DOMAIN NoVars = {}
    BY DEF NoVars
  <1>4. CASE h.v = None
    BY <1>3, <1>4 DEF ParamEnv
  <1>5. CASE h.v \in Vars
    BY <1>1, <1>2, <1>3, <1>4, <1>5, BindType DEF ParamEnv
  <1> QED BY <1>1, <1>4, <1>5

Bodies(bd) == /\ DOMAIN bd \subseteq Block
              /\ \A b \in DOMAIN bd : bd[b] \in Seq(Instr)

(* Appending instructions to a block keeps every block a list of them.      *)
LEMMA EmitType ==
  ASSUME NEW bd, Bodies(bd), NEW b, NEW code \in Seq(Instr)
  PROVE  Bodies(Emit(bd, b, code)) /\ DOMAIN Emit(bd, b, code) = DOMAIN bd
  BY DEF Bodies, Emit

(* So does creating blocks, which start out empty.                          *)
LEMMA CreateType ==
  ASSUME NEW bd, Bodies(bd), NEW new, new \subseteq Block
  PROVE  Bodies(Create(bd, new)) /\ DOMAIN Create(bd, new) = DOMAIN bd \cup new
  BY DEF Bodies, Create

(* A slot in front of the entry block is an instruction like another.       *)
LEMMA AddSlotType ==
  ASSUME NEW bd, Bodies(bd), cpc \in Nat, NEW v \in Vars \cup {None}
  PROVE  Bodies(AddSlot(bd, v)) /\ DOMAIN AddSlot(bd, v) = DOMAIN bd
  <1>1. <<Alloca(v)>> \in Seq(Instr)
    BY DEF Alloca, I, Instr, InstrKind
  <1> QED BY <1>1 DEF Bodies, AddSlot

(* genExpr leaves blocks as lists of instructions and creates none.         *)
LEMMA GenExprType ==
  ASSUME NEW bd, Bodies(bd), cpc \in Nat, NEW b, NEW u \in Operand \cup {None}
  PROVE  Bodies(GenExpr(bd, b, u)) /\ DOMAIN GenExpr(bd, b, u) = DOMAIN bd
  <1>1. CASE u \in Vars
    <2>1. <<Load(u)>> \in Seq(Instr)
      BY <1>1 DEF Load, I, Instr, InstrKind
    <2>2. GenExpr(bd, b, u) = Emit(bd, b, <<Load(u)>>)
      BY <1>1, ProgramAssumption DEF GenExpr, Literals
    <2> QED BY <2>1, <2>2, EmitType
  <1>2. CASE u = "void"
    <2>1. <<Call(u)>> \in Seq(Instr)
      BY DEF Call, I, Instr, InstrKind
    <2>2. GenExpr(bd, b, u) = Emit(bd, b, <<Call(u)>>)
      BY <1>2, ProgramAssumption DEF GenExpr, Literals
    <2> QED BY <2>1, <2>2, EmitType
  <1>3. CASE u \in {"agg", "input"}
    <2>1. <<Call(u)>> \in Seq(Instr)
      BY DEF Call, I, Instr, InstrKind
    <2>2. GenExpr(bd, b, u) = Emit(AddSlot(bd, None), b, <<Call(u)>>)
      BY <1>3, ProgramAssumption DEF GenExpr, Literals
    <2>3. Bodies(AddSlot(bd, None)) /\ DOMAIN AddSlot(bd, None) = DOMAIN bd
      BY AddSlotType
    <2>4. /\ Bodies(Emit(AddSlot(bd, None), b, <<Call(u)>>))
          /\ DOMAIN Emit(AddSlot(bd, None), b, <<Call(u)>>) = DOMAIN bd
      BY <2>1, <2>3, EmitType, Zenon
    <2> QED BY <2>2, <2>4
  <1>4. CASE u \in {"lit", None}
    BY <1>4, ProgramAssumption DEF GenExpr, Literals
  <1> QED BY <1>1, <1>2, <1>3, <1>4 DEF Operand, Literals

-----------------------------------------------------------------------------
(* Every variable keeps its type *)

(* The parser's actions, which append to the tree and open or close lists. *)
LEMMA ParseType ==
  ASSUME TypeOK, Parse
  PROVE  TypeOK'
  <1> USE DEF TypeOK
  <1>1. CheckerTypeOK' /\ GenTypeOK'
    BY DEF Parse, CheckerTypeOK, GenTypeOK, checkerVars, genVars, Terminated
  <1>2. ASSUME NEW n \in AnyNode, NEW depth \in Nat, Place(n, depth),
               n.k \in {"decl", "assign", "part"} => n.v \in Vars
        PROVE  /\ prog' \in Seq(AnyNode)
               /\ \A i \in 1..Len(prog') :
                    prog'[i].k \in {"decl", "assign", "part"} => prog'[i].v \in Vars
    <2> DEFINE p == [n EXCEPT !.d = depth]
    <2>1. p \in AnyNode /\ p.k = n.k /\ p.v = n.v
      BY DEF AnyNode
    <2>2. prog \in Seq(AnyNode) /\ prog' = Append(prog, p)
      BY <1>2 DEF Place, ParserTypeOK
    <2>3. /\ prog' \in Seq(AnyNode) /\ Len(prog') = Len(prog) + 1
          /\ \A i \in 1..Len(prog) : prog'[i] = prog[i]
          /\ prog'[Len(prog) + 1] = p
      BY <2>1, <2>2, AppendProperties
    <2> HIDE DEF p
    <2>4. ASSUME NEW i \in 1..Len(prog'), prog'[i].k \in {"decl", "assign", "part"}
          PROVE  prog'[i].v \in Vars
      <3>1. CASE i = Len(prog) + 1
        BY <1>2, <2>1, <2>3, <2>4, <3>1
      <3>2. CASE i \in 1..Len(prog)
        BY <2>3, <2>4, <3>2 DEF ParserTypeOK
      <3> QED BY <2>2, <2>3, <3>1, <3>2, LenProperties
    <2> QED BY <2>3, <2>4
  <1>3. open \in Seq(Openers) /\ Len(open) \in Nat
    BY LenProperties DEF ParserTypeOK
  <1>4. ASSUME NEW k \in {"fn", "if", "else", "loop", "endfn", "endif", "endloop"},
               NEW c \in Operand \cup {None}
        PROVE  Node(k, None, c, FALSE, "void") \in AnyNode
    BY DEF Node, AnyNode, NodeKind, Openers, Closers, Types
  <1>5. ASSUME open # <<>>
        PROVE  Front(open) \in Seq(Openers) /\ Len(open) - 1 \in Nat
    BY <1>3, <1>5, FrontFacts
  <1>6. ASSUME NEW kinds, Simply(kinds)
        PROVE  ParserTypeOK'
    <2>1. PICK s \in Stmts : Place(s, Len(open))
      BY <1>6 DEF Simply
    <2>2. s \in AnyNode /\ (s.k \in {"decl", "assign", "part"} => s.v \in Vars)
      BY ProgramAssumption
    <2> QED BY <1>2, <1>3, <1>6, <2>1, <2>2 DEF Simply, ParserTypeOK, mainVars
  <1>7. ASSUME NEW k \in {"if", "loop"}, Opening(k)
        PROVE  ParserTypeOK'
    <2>1. PICK c \in Conds : Place(Node(k, None, c, FALSE, "void"), Len(open))
      BY <1>7 DEF Opening
    <2>2. Node(k, None, c, FALSE, "void") \in AnyNode
      BY <1>4, ProgramAssumption
    <2>3. Node(k, None, c, FALSE, "void").k = k
      BY DEF Node
    <2>4. open' \in Seq(Openers)
      BY <1>3, <1>7 DEF Opening, Openers
    <2> QED BY <1>2, <1>3, <1>7, <2>1, <2>2, <2>3, <2>4 DEF Opening, ParserTypeOK, mainVars
  <1>8. ASSUME NEW o, NEW k \in {"endif", "endloop", "endfn"}, Closing(o, k)
        PROVE  ParserTypeOK'
    <2>1. Node(k, None, None, FALSE, "void") \in AnyNode
      BY <1>4
    <2>2. Node(k, None, None, FALSE, "void").k = k
      BY DEF Node
    <2> QED BY <1>2, <1>3, <1>5, <1>8, <2>1, <2>2 DEF Closing, InList, ParserTypeOK, mainVars
  <1>9. ASSUME ParseFunction PROVE ParserTypeOK'
    <2>1. PICK h \in Heads : Place(h, 0)
      BY <1>9 DEF ParseFunction
    <2>2. h \in AnyNode /\ h.k = "fn"
      BY ProgramAssumption
    <2> QED BY <1>2, <1>9, <2>1, <2>2 DEF ParseFunction, ParserTypeOK, mainVars, Openers
  <1>10. ASSUME ParseElse PROVE ParserTypeOK'
    <2>1. Node("else", None, None, FALSE, "void") \in AnyNode
      BY <1>4
    <2>2. Node("else", None, None, FALSE, "void").k = "else"
      BY DEF Node
    <2>3. open' \in Seq(Openers)
      BY <1>5, <1>10 DEF ParseElse, InList, Openers
    <2> QED BY <1>2, <1>3, <1>5, <1>10, <2>1, <2>2, <2>3
            DEF ParseElse, InList, ParserTypeOK, mainVars
  <1>11. ASSUME ParseModule PROVE ParserTypeOK'
    BY <1>11 DEF ParseModule, ParserTypeOK
  <1>12. ASSUME ParseFails PROVE ParserTypeOK'
    <2>1. Throw("parse", "SyntaxError") /\ prog' = prog /\ open' = open
      BY <1>12 DEF ParseFails, parserVars
    <2>2. err' \in [stage : Stages, code : ErrCode] /\ phase' = "failed"
      BY <2>1 DEF Throw, Stages, ErrCode
    <2> QED BY <2>1, <2>2 DEF ParserTypeOK
  <1>13. ParserTypeOK'
    BY <1>6, <1>7, <1>8, <1>9, <1>10, <1>11, <1>12
       DEF Parse, ParserNext, ParseVarDecl, ParseAssignOrExpr, ParseReturn, ParseBreak,
           ParseContinue, ParseIf, ParseLoop, ParseEndIf, ParseEndLoop, ParseEndFunction
  <1> QED BY <1>1, <1>13

(* Each check throws a code of error.h or lets the walk go on.               *)
LEMMA AssignableType ==
  ASSUME NEW env, NEW u, NEW want
  PROVE  Assignable(env, u, want) \in {"ok", "UndeclaredIdentifier", "TypeMismatch"}
  BY DEF Assignable

(* A check that throws leaves a code of error.h, one that does not moves on.*)
LEMMA VerdictType ==
  ASSUME TypeOK, NEW code \in ErrCode \cup {"ok"}, Verdict(code)
  PROVE  /\ tpc' \in Nat \ {0}
         /\ phase' \in {"parse", "check", "gen", "done", "failed"}
         /\ err' \in [stage : Stages, code : ErrCode]
  <1>1. CASE code = "ok"
    BY <1>1 DEF Verdict, TypeOK, ParserTypeOK, CheckerTypeOK, mainVars
  <1>2. CASE code # "ok"
    BY <1>2 DEF Verdict, Throw, Stages, TypeOK, ParserTypeOK, CheckerTypeOK
  <1> QED BY <1>1, <1>2

(* The checker's actions, one walk over a tree that stays as it is.         *)
LEMMA CheckType ==
  ASSUME TypeOK, Check
  PROVE  TypeOK'
  <1> USE DEF TypeOK
  <1> DEFINE MainOK == /\ phase' \in {"parse", "check", "gen", "done", "failed"}
                       /\ err' \in [stage : Stages, code : ErrCode]
  <1>1. GenTypeOK' /\ prog' = prog /\ open' = open
    BY DEF Check, GenTypeOK, genVars, parserVars
  <1>2. ASSUME UNCHANGED mainVars PROVE MainOK
    BY <1>2 DEF ParserTypeOK, mainVars
  <1>3. ASSUME NEW kinds, Checking(kinds)
        PROVE  /\ Now \in AnyNode /\ tpc \in 1..Len(prog)
               /\ Now.k \in {"decl", "assign", "part"} => Now.v \in Vars
    BY <1>3, ElementOfSeq DEF Checking, Now, ParserTypeOK
  <1>4. ASSUME NEW code \in ErrCode \cup {"ok"}, Verdict(code),
               UNCHANGED tfn, UNCHANGED tvars, loopDepth' \in Int
        PROVE  CheckerTypeOK' /\ MainOK
    BY <1>4, VerdictType DEF CheckerTypeOK
  <1>5. \A u, want : Assignable(tvars, u, want) \in ErrCode \cup {"ok"}
    BY AssignableType DEF ErrCode
  <1>6. CASE CheckFn
    <2>1. Now \in AnyNode /\ tpc \in Nat
      BY <1>3, <1>6 DEF CheckFn, CheckerTypeOK
    <2> QED BY <1>1, <1>2, <1>6, <2>1, ParamEnvType
            DEF CheckFn, CheckerTypeOK, ParserTypeOK
  <1>7. CASE CheckVarDecl
    <2>1. Now \in AnyNode /\ Now.v \in Vars
      BY <1>3, <1>7 DEF CheckVarDecl, Checking
    <2>2. [t |-> Now.t, m |-> Now.m] \in VarInfo
      BY <2>1 DEF AnyNode, VarInfo
    <2>3. DeclVerdict \in ErrCode \cup {"ok"}
      BY <1>5 DEF DeclVerdict, ErrCode
    <2>4. Verdict(DeclVerdict) /\ tfn' = tfn /\ loopDepth' = loopDepth
      BY <1>7 DEF CheckVarDecl
    <2>5. tpc' \in Nat \ {0} /\ MainOK
      BY <2>3, <2>4, VerdictType
    <2>6. CASE DeclVerdict = "ok"
      BY <1>1, <1>7, <2>1, <2>2, <2>4, <2>5, <2>6, BindType
         DEF CheckVarDecl, CheckerTypeOK, ParserTypeOK
    <2>7. CASE DeclVerdict # "ok"
      BY <1>1, <1>7, <2>4, <2>5, <2>7 DEF CheckVarDecl, CheckerTypeOK, ParserTypeOK
    <2> QED BY <2>6, <2>7
  <1>8. CASE CheckAssign
    <2> DEFINE code == IF Now.v \notin DOMAIN tvars THEN "UndeclaredIdentifier"
                       ELSE IF ~tvars[Now.v].m THEN "ImmutableAssign"
                       ELSE Assignable(tvars, Now.u, tvars[Now.v].t)
    <2>1. code \in ErrCode \cup {"ok"}
      BY <1>5 DEF ErrCode
    <2>2. Verdict(code) /\ UNCHANGED tfn /\ UNCHANGED tvars /\ loopDepth' \in Int
      BY <1>8 DEF CheckAssign, CheckerTypeOK
    <2> QED BY <1>1, <1>4, <2>1, <2>2 DEF ParserTypeOK
  <1>9. CASE CheckPartAssign
    <2> DEFINE code == IF Unbound(tvars, Now.v) THEN "UndeclaredIdentifier"
                       ELSE IF TypeOf(tvars, Now.v) # "agg" THEN "NotAnAggregate"
                       ELSE Assignable(tvars, Now.u, Now.t)
    <2>1. code \in ErrCode \cup {"ok"}
      BY <1>5 DEF ErrCode
    <2>2. Verdict(code) /\ UNCHANGED tfn /\ UNCHANGED tvars /\ loopDepth' \in Int
      BY <1>9 DEF CheckPartAssign, CheckerTypeOK
    <2> QED BY <1>1, <1>4, <2>1, <2>2 DEF ParserTypeOK
  <1>10. CASE CheckExpr
    <2> DEFINE code == IF Unbound(tvars, Now.u) THEN "UndeclaredIdentifier" ELSE "ok"
    <2>1. code \in ErrCode \cup {"ok"}
      BY DEF ErrCode
    <2>2. Verdict(code) /\ UNCHANGED tfn /\ UNCHANGED tvars /\ loopDepth' \in Int
      BY <1>10 DEF CheckExpr, CheckerTypeOK
    <2> QED BY <1>1, <1>4, <2>1, <2>2 DEF ParserTypeOK
  <1>11. CASE CheckReturn
    <2> DEFINE code == IF Now.u # None THEN Assignable(tvars, Now.u, prog[tfn].t)
                       ELSE IF prog[tfn].t # "void" THEN "ReturnTypeMismatch" ELSE "ok"
    <2>1. code \in ErrCode \cup {"ok"}
      BY <1>5 DEF ErrCode
    <2>2. Verdict(code) /\ UNCHANGED tfn /\ UNCHANGED tvars /\ loopDepth' \in Int
      BY <1>11 DEF CheckReturn, CheckerTypeOK
    <2> QED BY <1>1, <1>4, <2>1, <2>2 DEF ParserTypeOK
  <1>12. CondVerdict \in ErrCode \cup {"ok"}
    BY <1>5 DEF CondVerdict, ErrCode
  <1>13. CASE CheckIf
    <2>1. Verdict(CondVerdict) /\ UNCHANGED tfn /\ UNCHANGED tvars /\ loopDepth' \in Int
      BY <1>13 DEF CheckIf, CheckerTypeOK
    <2> QED BY <1>1, <1>4, <1>12, <2>1 DEF ParserTypeOK
  <1>14. CASE CheckLoop
    <2>1. Verdict(CondVerdict) /\ UNCHANGED tfn /\ UNCHANGED tvars /\ loopDepth' \in Int
      BY <1>14 DEF CheckLoop, CheckerTypeOK
    <2> QED BY <1>1, <1>4, <1>12, <2>1 DEF ParserTypeOK
  <1>15. CASE CheckEndLoop
    BY <1>1, <1>2, <1>15 DEF CheckEndLoop, CheckerTypeOK, ParserTypeOK
  <1>16. CASE CheckBreak
    <2> DEFINE code == IF loopDepth = 0 THEN "BreakOutsideLoop" ELSE "ok"
    <2>1. code \in ErrCode \cup {"ok"}
      BY DEF ErrCode
    <2>2. Verdict(code) /\ UNCHANGED tfn /\ UNCHANGED tvars /\ loopDepth' \in Int
      BY <1>16 DEF CheckBreak, CheckerTypeOK
    <2> QED BY <1>1, <1>4, <2>1, <2>2 DEF ParserTypeOK
  <1>17. CASE CheckContinue
    <2> DEFINE code == IF loopDepth = 0 THEN "ContinueOutsideLoop" ELSE "ok"
    <2>1. code \in ErrCode \cup {"ok"}
      BY DEF ErrCode
    <2>2. Verdict(code) /\ UNCHANGED tfn /\ UNCHANGED tvars /\ loopDepth' \in Int
      BY <1>17 DEF CheckContinue, CheckerTypeOK
    <2> QED BY <1>1, <1>4, <2>1, <2>2 DEF ParserTypeOK
  <1>18. CASE CheckListEnd
    BY <1>1, <1>2, <1>18 DEF CheckListEnd, CheckerTypeOK, ParserTypeOK
  <1>19. CASE CheckDone
    BY <1>1, <1>19 DEF CheckDone, checkerVars, CheckerTypeOK, ParserTypeOK
  <1> QED BY <1>6, <1>7, <1>8, <1>9, <1>10, <1>11, <1>13, <1>14, <1>15, <1>16, <1>17,
             <1>18, <1>19 DEF Check, CheckerNext

(* A branch or a return of the node at hand is an instruction.              *)
LEMMA TerminatorType ==
  ASSUME cpc \in Nat
  PROVE  /\ \A b \in Block : <<Br(b)>> \in Seq(Instr)
         /\ \A u \in Operand \cup {None, "zero"} : <<Ret(u)>> \in Seq(Instr)
         /\ \A u \in Operand \cup {None} : \A b, c \in Block :
              <<CondBr(u, b, c)>> \in Seq(Instr)
  <1> USE DEF I, Instr, InstrKind
  <1>1. ASSUME NEW b \in Block PROVE <<Br(b)>> \in Seq(Instr)
    <2>1. <<b>> \in Seq(Block)
      OBVIOUS
    <2> QED BY <2>1 DEF Br
  <1>2. ASSUME NEW u \in Operand \cup {None, "zero"} PROVE <<Ret(u)>> \in Seq(Instr)
    <2>1. <<>> \in Seq(Block)
      OBVIOUS
    <2> QED BY <2>1 DEF Ret
  <1>3. ASSUME NEW u \in Operand \cup {None}, NEW b \in Block, NEW c \in Block
        PROVE  <<CondBr(u, b, c)>> \in Seq(Instr)
    <2>1. <<b, c>> \in Seq(Block)
      OBVIOUS
    <2> QED BY <2>1 DEF CondBr
  <1> QED BY <1>1, <1>2, <1>3

(* So are a store and a slot of a variable.                                 *)
LEMMA StoreType ==
  ASSUME cpc \in Nat, NEW v \in Vars
  PROVE  /\ \A u \in Operand \cup {None} : <<Store(v, u)>> \in Seq(Instr)
         /\ \A u \in Operand \cup {None} : <<StorePart(v, u)>> \in Seq(Instr)
         /\ <<Alloca(v), Store(v, "arg")>> \in Seq(Instr)
  <1>1. <<>> \in Seq(Block)
    OBVIOUS
  <1> QED BY <1>1 DEF Store, StorePart, Alloca, I, Instr, InstrKind

(* Names of the blocks that node cpc creates.                               *)
LEMMA BlockNames ==
  ASSUME NEW at \in Nat
  PROVE  \A r \in Roles : <<at, r>> \in Block
  BY DEF Block

(* The generator's actions, each adding instructions to blocks.             *)
LEMMA GenType ==
  ASSUME TypeOK, Generate
  PROVE  TypeOK'
  <1> USE DEF TypeOK
  <1> DEFINE MainOK == /\ phase' \in {"parse", "check", "gen", "done", "failed"}
                       /\ err' \in [stage : Stages, code : ErrCode]
  <1>1. CheckerTypeOK' /\ prog' = prog /\ open' = open
    BY DEF Generate, CheckerTypeOK, checkerVars, parserVars
  <1>2. ASSUME UNCHANGED mainVars PROVE MainOK
    BY <1>2 DEF ParserTypeOK, mainVars
  <1>3. ASSUME NEW kinds, Generating(kinds)
        PROVE  /\ Here \in AnyNode /\ cpc \in 1..Len(prog) /\ cpc \in Nat
               /\ Here.k \in {"decl", "assign", "part"} => Here.v \in Vars
               /\ Here.u \in Operand \cup {None} /\ Here.v \in Vars \cup {None}
    <2>1. cpc \in 1..Len(prog) /\ cpc \in Nat
      BY <1>3 DEF Generating, GenTypeOK
    <2>2. Here \in AnyNode
      BY <2>1, ElementOfSeq DEF Here, ParserTypeOK
    <2>3. Here.k \in {"decl", "assign", "part"} => Here.v \in Vars
      BY <2>1 DEF Here, ParserTypeOK
    <2> QED BY <2>1, <2>2, <2>3 DEF AnyNode
  <1>4. ASSUME NEW code \in ErrCode, GenThrow(code)
        PROVE  GenTypeOK' /\ MainOK
    BY <1>4 DEF GenThrow, Throw, genVars, GenTypeOK, Stages
  <1>5. ASSUME NEW u, UndeclaredUse(u)
        PROVE  GenTypeOK' /\ MainOK
    BY <1>4, <1>5 DEF UndeclaredUse, ErrCode
  <1>6. Bodies(body)
    BY DEF Bodies, GenTypeOK
  <1>7. ASSUME Bodies(body'), cpc' \in Nat \ {0},
               UNCHANGED <<cfn, cvars, ins, frames, loopStack, mainVars>>
        PROVE  GenTypeOK' /\ MainOK
    BY <1>2, <1>7 DEF Bodies, GenTypeOK
  <1>8. ASSUME Ahead PROVE cpc' \in Nat \ {0}
    BY <1>8 DEF Ahead, GenTypeOK
  <1>9. ASSUME NEW bd, Bodies(bd), NEW b, NEW u \in Operand \cup {None},
               NEW code \in Seq(Instr), cpc \in Nat
        PROVE  Bodies(Emit(GenExpr(bd, b, u), b, code))
    <2>1. Bodies(GenExpr(bd, b, u))
      BY <1>9, GenExprType
    <2> QED BY <2>1, EmitType
  <1>10. CASE SkipRest
    <2>1. cpc' \in Nat \ {0}
      BY <1>3, <1>10 DEF SkipRest, ListEnds
    <2>2. GenTypeOK' /\ MainOK
      BY <1>2, <1>10, <2>1 DEF SkipRest, GenTypeOK
    <2> QED BY <1>1, <2>2 DEF ParserTypeOK
  <1>11. CASE GenFunction
    <2>1. Here \in AnyNode /\ cpc \in Nat
      BY <1>3, <1>11 DEF GenFunction
    <2>2. /\ DOMAIN cvars' \subseteq Vars
          /\ \A v \in DOMAIN cvars' : cvars'[v] \in VarInfo
      BY <1>11, <2>1, ParamEnvType DEF GenFunction
    <2>3. ins' \in Block /\ ins' = <<cpc, "entry">>
      BY <1>11, <2>1 DEF GenFunction, Block, Roles
    <2>4. Bodies(Create(body, {ins'}))
      BY <1>6, <2>3, CreateType
    <2>5. CASE Here.v = None
      BY <1>1, <1>2, <1>8, <1>11, <2>1, <2>2, <2>3, <2>4, <2>5
         DEF GenFunction, GenTypeOK, ParserTypeOK, Bodies
    <2>6. CASE Here.v # None
      <3>1. Here.v \in Vars
        BY <1>3, <1>11, <2>6 DEF GenFunction
      <3>2. <<Alloca(Here.v), Store(Here.v, "arg")>> \in Seq(Instr)
        BY <2>1, <3>1, StoreType
      <3>3. Bodies(Emit(Create(body, {ins'}), ins', <<Alloca(Here.v), Store(Here.v, "arg")>>))
        BY <2>4, <3>2, EmitType
      <3> QED BY <1>1, <1>2, <1>8, <1>11, <2>1, <2>2, <2>3, <2>6, <3>3
              DEF GenFunction, GenTypeOK, ParserTypeOK, Bodies
    <2> QED BY <2>5, <2>6
  <1>12. CASE GenVarDecl
    <2>1. /\ Here \in AnyNode /\ cpc \in Nat /\ Here.v \in Vars
          /\ Here.u \in Operand \cup {None}
      BY <1>3, <1>12 DEF GenVarDecl, AtStatement, Generating
    <2>2. ASSUME NEW code \in {"VariableRedeclared", "VoidVariable"}, GenThrow(code)
          PROVE  GenTypeOK' /\ MainOK
      BY <1>4, <2>2 DEF ErrCode
    <2>3. ASSUME body' = Emit(GenExpr(AddSlot(body, Here.v), ins, Here.u),
                              ins, <<Store(Here.v, Here.u)>>),
                 cvars' = Bind(cvars, Here.v, [t |-> Here.t, m |-> Here.m]),
                 Ahead, UNCHANGED <<cfn, ins, frames, loopStack, mainVars>>
          PROVE  GenTypeOK' /\ MainOK
      <3>1. <<Store(Here.v, Here.u)>> \in Seq(Instr)
        BY <2>1, StoreType
      <3>2. Bodies(AddSlot(body, Here.v))
        BY <1>6, <2>1, AddSlotType
      <3>3. Bodies(body')
        BY <1>9, <2>1, <2>3, <3>1, <3>2
      <3>4. [t |-> Here.t, m |-> Here.m] \in VarInfo
        BY <2>1 DEF AnyNode, VarInfo
      <3>5. /\ DOMAIN cvars' \subseteq Vars
            /\ \A v \in DOMAIN cvars' : cvars'[v] \in VarInfo
        BY <2>1, <2>3, <3>4, BindType DEF GenTypeOK
      <3> QED BY <1>2, <1>8, <2>3, <3>3, <3>5 DEF GenTypeOK, Bodies
    <2>4. GenTypeOK' /\ MainOK
      BY <1>5, <1>12, <2>2, <2>3 DEF GenVarDecl
    <2> QED BY <1>1, <2>4 DEF ParserTypeOK
  <1>13. CASE GenAssign
    <2>1. cpc \in Nat /\ Here.v \in Vars /\ Here.u \in Operand \cup {None}
      BY <1>3, <1>13 DEF GenAssign, AtStatement, Generating
    <2>2. Bodies(Emit(GenExpr(body, ins, Here.u), ins, <<Store(Here.v, Here.u)>>))
      BY <1>6, <1>9, <2>1, StoreType
    <2>3. ASSUME GenThrow("ImmutableAssign") PROVE GenTypeOK' /\ MainOK
      BY <1>4, <2>3 DEF ErrCode
    <2>4. GenTypeOK' /\ MainOK
      BY <1>5, <1>7, <1>8, <1>13, <2>2, <2>3 DEF GenAssign
    <2> QED BY <1>1, <2>4 DEF ParserTypeOK
  <1>14. CASE GenPartAssign
    <2>1. cpc \in Nat /\ Here.v \in Vars /\ Here.u \in Operand \cup {None}
      BY <1>3, <1>14 DEF GenPartAssign, AtStatement, Generating
    <2>2. Bodies(Emit(GenExpr(body, ins, Here.u), ins, <<StorePart(Here.v, Here.u)>>))
      BY <1>6, <1>9, <2>1, StoreType
    <2>3. ASSUME GenThrow("NotAnAggregate") PROVE GenTypeOK' /\ MainOK
      BY <1>4, <2>3 DEF ErrCode
    <2>4. GenTypeOK' /\ MainOK
      BY <1>5, <1>7, <1>8, <1>14, <2>2, <2>3 DEF GenPartAssign
    <2> QED BY <1>1, <2>4 DEF ParserTypeOK
  <1>15. CASE GenExprStmt
    <2>1. cpc \in Nat /\ Here.u \in Operand \cup {None}
      BY <1>3, <1>15 DEF GenExprStmt, AtStatement
    <2>2. Bodies(GenExpr(body, ins, Here.u))
      BY <1>6, <2>1, GenExprType
    <2>3. GenTypeOK' /\ MainOK
      BY <1>5, <1>7, <1>8, <1>15, <2>2 DEF GenExprStmt
    <2> QED BY <1>1, <2>3 DEF ParserTypeOK
  <1>16. CASE GenReturn
    <2>1. cpc \in Nat /\ Here.u \in Operand \cup {None}
      BY <1>3, <1>16 DEF GenReturn, AtStatement
    <2>2. Bodies(Emit(GenExpr(body, ins, Here.u), ins, <<Ret(Here.u)>>))
      BY <1>6, <1>9, <2>1, TerminatorType
    <2>3. GenTypeOK' /\ MainOK
      BY <1>5, <1>7, <1>8, <1>16, <2>2 DEF GenReturn
    <2> QED BY <1>1, <2>3 DEF ParserTypeOK
  <1>17. ASSUME NEW k, NEW target \in {"breakBB", "continueBB"}, NEW code \in ErrCode,
                Leave(k, target, code)
         PROVE  TypeOK'
    <2>1. cpc \in Nat
      BY <1>3, <1>17 DEF Leave, AtStatement
    <2>2. ASSUME loopStack # <<>>
          PROVE  Bodies(Emit(body, ins, <<Br(Last(loopStack)[target])>>))
      <3>1. Last(loopStack)[target] \in Block
        <4>1. Last(loopStack) \in [continueBB : Block, breakBB : Block]
          BY <2>2, FrontFacts DEF GenTypeOK
        <4>2. CASE target = "breakBB"
          BY <4>1, <4>2
        <4>3. CASE target = "continueBB"
          BY <4>1, <4>3
        <4> QED BY <1>17, <4>2, <4>3
      <3> QED BY <1>6, <2>1, <3>1, EmitType, TerminatorType
    <2>3. GenTypeOK' /\ MainOK
      BY <1>4, <1>7, <1>8, <1>17, <2>2 DEF Leave
    <2> QED BY <1>1, <2>3 DEF ParserTypeOK
  <1>18. CASE GenBreak
    BY <1>17, <1>18 DEF GenBreak, ErrCode
  <1>19. CASE GenContinue
    BY <1>17, <1>19 DEF GenContinue, ErrCode
  <1>20. CASE GenIf
    <2>1. cpc \in Nat /\ Here.u \in Operand \cup {None}
      BY <1>3, <1>20 DEF GenIf, AtStatement
    <2> DEFINE thenBB == <<cpc, "then">>
               elseBB == <<cpc, "else">>
               mergeBB == <<cpc, "merge">>
               bd == Create(GenExpr(body, ins, Here.u), {thenBB, elseBB, mergeBB})
    <2>2. thenBB \in Block /\ elseBB \in Block /\ mergeBB \in Block
      BY <2>1, BlockNames DEF Roles
    <2>3. Bodies(GenExpr(body, ins, Here.u))
      BY <1>6, <2>1, GenExprType
    <2>4. Bodies(bd)
      BY <2>2, <2>3, CreateType
    <2>5. <<CondBr(Here.u, thenBB, elseBB)>> \in Seq(Instr)
      BY <2>1, <2>2, TerminatorType
    <2>6. Bodies(Emit(bd, ins, <<CondBr(Here.u, thenBB, elseBB)>>))
      BY <2>4, <2>5, EmitType
    <2>7. Append(frames, [k |-> "then", at |-> cpc]) \in Seq(Frame)
      BY <2>1 DEF GenTypeOK, Frame
    <2>8. CASE UndeclaredUse(Here.u)
      BY <1>1, <1>5, <2>8 DEF ParserTypeOK
    <2>9. CASE ~UndeclaredUse(Here.u)
      <3>1. /\ body' = Emit(bd, ins, <<CondBr(Here.u, thenBB, elseBB)>>)
            /\ ins' = thenBB /\ Push("then") /\ Ahead
            /\ UNCHANGED <<cfn, cvars, loopStack, mainVars>>
        BY <1>20, <2>9 DEF GenIf
      <3> QED BY <1>1, <1>2, <1>8, <2>2, <2>6, <2>7, <3>1
              DEF Push, GenTypeOK, ParserTypeOK, Bodies
    <2> QED BY <2>8, <2>9
  <1>21. CASE GenLoop
    <2>1. cpc \in Nat /\ Here.u \in Operand \cup {None}
      BY <1>3, <1>21 DEF GenLoop, AtStatement
    <2> DEFINE condBB == <<cpc, "cond">>
               bodyBB == <<cpc, "body">>
               afterBB == <<cpc, "after">>
               bd == Emit(Create(body, {condBB, bodyBB, afterBB}), ins, <<Br(condBB)>>)
               test == <<CondBr(Here.u, bodyBB, afterBB)>>
               inner == [continueBB |-> condBB, breakBB |-> afterBB]
    <2>2. condBB \in Block /\ bodyBB \in Block /\ afterBB \in Block
      BY <2>1, BlockNames DEF Roles
    <2>3. Bodies(Create(body, {condBB, bodyBB, afterBB}))
      BY <1>6, <2>2, CreateType
    <2>4. Bodies(bd)
      BY <2>1, <2>2, <2>3, EmitType, TerminatorType
    <2>5. test \in Seq(Instr)
      BY <2>1, <2>2, TerminatorType
    <2>6. Bodies(Emit(GenExpr(bd, condBB, Here.u), condBB, test))
      BY <1>9, <2>1, <2>4, <2>5
    <2>7. Append(frames, [k |-> "loop", at |-> cpc]) \in Seq(Frame)
      BY <2>1 DEF GenTypeOK, Frame
    <2>8. Append(loopStack, inner) \in Seq([continueBB : Block, breakBB : Block])
      BY <2>2 DEF GenTypeOK
    <2>9. CASE UndeclaredUse(Here.u)
      BY <1>1, <1>5, <2>9 DEF ParserTypeOK
    <2>10. CASE ~UndeclaredUse(Here.u)
      <3>1. /\ body' = Emit(GenExpr(bd, condBB, Here.u), condBB, test)
            /\ ins' = bodyBB /\ loopStack' = Append(loopStack, inner)
            /\ Push("loop") /\ Ahead
            /\ UNCHANGED <<cfn, cvars, mainVars>>
        BY <1>21, <2>10 DEF GenLoop
      <3> QED BY <1>1, <1>2, <1>8, <2>2, <2>6, <2>7, <2>8, <3>1
              DEF Push, GenTypeOK, ParserTypeOK, Bodies
    <2> QED BY <2>9, <2>10
  <1>22. ASSUME NEW b \in Block, cpc \in Nat
         PROVE  Bodies(FallTo(b))
    <2>1. Bodies(Emit(body, ins, <<Br(b)>>))
      BY <1>6, <1>22, EmitType, TerminatorType
    <2> QED BY <1>6, <2>1 DEF FallTo
  <1>23. ASSUME NEW end, NEW k, ListEnd(end, k)
         PROVE  /\ cpc \in Nat /\ Last(frames).at \in Nat
                /\ \A r \in Roles : <<Last(frames).at, r>> \in Block
                /\ Front(frames) \in Seq(Frame)
    <2>1. cpc \in Nat /\ frames # <<>> /\ frames \in Seq(Frame)
      BY <1>3, <1>23 DEF ListEnd, GenTypeOK
    <2>2. Last(frames) \in Frame /\ Front(frames) \in Seq(Frame)
      BY <2>1, FrontFacts
    <2>3. Last(frames).at \in Nat
      BY <2>2 DEF Frame
    <2> QED BY <2>1, <2>2, <2>3, BlockNames
  <1>24. CASE GenElse
    <2> DEFINE at == Last(frames).at
    <2>1. /\ at \in Nat /\ <<at, "merge">> \in Block /\ <<at, "else">> \in Block
          /\ cpc \in Nat /\ Front(frames) \in Seq(Frame)
      BY <1>23, <1>24 DEF GenElse, Roles
    <2>2. Bodies(FallTo(<<at, "merge">>))
      BY <1>22, <2>1
    <2>3. Append(Front(frames), [k |-> "else", at |-> at]) \in Seq(Frame)
      BY <2>1 DEF Frame
    <2> HIDE DEF at
    <2>4. /\ body' = FallTo(<<at, "merge">>) /\ ins' = <<at, "else">>
          /\ frames' = Append(Front(frames), [k |-> "else", at |-> at])
          /\ Ahead /\ UNCHANGED <<cfn, cvars, loopStack, mainVars>>
      BY <1>24 DEF GenElse, at
    <2> QED BY <1>1, <1>2, <1>8, <2>1, <2>2, <2>3, <2>4 DEF GenTypeOK, ParserTypeOK, Bodies
  <1>25. CASE GenEndIf
    <2> DEFINE merge == <<Last(frames).at, "merge">>
    <2>1. merge \in Block /\ cpc \in Nat /\ Front(frames) \in Seq(Frame)
      BY <1>23, <1>25 DEF GenEndIf, Roles
    <2>2. Bodies(FallTo(merge))
      BY <1>22, <2>1
    <2> HIDE DEF merge
    <2>3. /\ body' = FallTo(merge) /\ ins' = merge /\ frames' = Front(frames)
          /\ Ahead /\ UNCHANGED <<cfn, cvars, loopStack, mainVars>>
      BY <1>25 DEF GenEndIf, merge
    <2> QED BY <1>1, <1>2, <1>8, <2>1, <2>2, <2>3 DEF GenTypeOK, ParserTypeOK, Bodies
  <1>26. CASE GenEndLoop
    <2> DEFINE cond == <<Last(frames).at, "cond">>
               after == <<Last(frames).at, "after">>
    <2>1. cond \in Block /\ after \in Block /\ cpc \in Nat /\ Front(frames) \in Seq(Frame)
      BY <1>23, <1>26 DEF GenEndLoop, Roles
    <2>2. Bodies(FallTo(cond))
      BY <1>22, <2>1
    <2>3. Front(loopStack) \in Seq([continueBB : Block, breakBB : Block])
      <3>1. CASE loopStack = <<>>
        <4>1. Len(loopStack) = 0
          BY <3>1, EmptySeq
        <4>2. SubSeq(loopStack, 1, Len(loopStack) - 1) = <<>>
          BY <4>1, SubSeqEmpty
        <4>3. Front(loopStack) = <<>>
          BY <4>2 DEF Front
        <4> QED BY <4>3, EmptySeq
      <3>2. CASE loopStack # <<>>
        BY <3>2, FrontFacts DEF GenTypeOK
      <3> QED BY <3>1, <3>2
    <2> HIDE DEF cond, after
    <2>4. /\ body' = FallTo(cond) /\ ins' = after /\ frames' = Front(frames)
          /\ loopStack' = Front(loopStack) /\ Ahead /\ UNCHANGED <<cfn, cvars, mainVars>>
      BY <1>26 DEF GenEndLoop, cond, after
    <2> QED BY <1>1, <1>2, <1>8, <2>1, <2>2, <2>3, <2>4 DEF GenTypeOK, ParserTypeOK, Bodies
  <1>27. CASE GenEndFunction
    <2>1. cpc \in Nat
      BY <1>3, <1>27 DEF GenEndFunction
    <2> DEFINE default == <<Ret(IF prog[cfn].t = "void" THEN None ELSE "zero")>>
    <2>2. default \in Seq(Instr)
      BY <2>1, TerminatorType
    <2>3. Bodies(DefaultReturn)
      BY <1>6, <2>2, EmitType DEF DefaultReturn
    <2>4. ASSUME GenThrow("CodegenFailure") PROVE GenTypeOK' /\ MainOK
      BY <1>4, <2>4 DEF ErrCode
    <2>5. GenTypeOK' /\ MainOK
      BY <1>7, <1>8, <1>27, <2>3, <2>4 DEF GenEndFunction
    <2> QED BY <1>1, <2>5 DEF ParserTypeOK
  <1>28. CASE GenDone
    BY <1>1, <1>28 DEF GenDone, genVars, GenTypeOK, ParserTypeOK
  <1> QED BY <1>10, <1>11, <1>12, <1>13, <1>14, <1>15, <1>16, <1>18, <1>19, <1>20,
             <1>21, <1>24, <1>25, <1>26, <1>27, <1>28 DEF Generate, GenNext

(* The compiler starts with every variable of its type.                     *)
LEMMA InitType == Init => TypeOK
  <1> SUFFICES ASSUME Init PROVE TypeOK
    OBVIOUS
  <1>1. ParserTypeOK
    BY DEF Init, ParserInit, NoError, ParserTypeOK, Stages, ErrCode
  <1>2. CheckerTypeOK
    BY DEF Init, CheckerInit, NoVars, CheckerTypeOK
  <1>3. GenTypeOK
    BY DEF Init, GenInit, NoVars, NoBlock, Block, Roles, GenTypeOK
  <1> QED BY <1>1, <1>2, <1>3 DEF TypeOK

(* Every step of the three stages keeps the types.                          *)
LEMMA NextType == TypeOK /\ [Next]_vars => TypeOK'
  <1> SUFFICES ASSUME TypeOK, [Next]_vars PROVE TypeOK'
    OBVIOUS
  <1>1. ASSUME UNCHANGED vars PROVE TypeOK'
    BY <1>1 DEF vars, TypeOK, ParserTypeOK, CheckerTypeOK, GenTypeOK
  <1> QED BY <1>1, ParseType, CheckType, GenType DEF Next, Finished

(* Every variable of the compiler keeps its type: in particular vars_ of    *)
(* both passes only ever binds names of the source to types, and every      *)
(* block is a list of well-formed instructions.                             *)
THEOREM TypeCorrect == Spec => []TypeOK
  BY InitType, NextType, PTL DEF Spec
=============================================================================
