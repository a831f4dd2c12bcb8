------------------------------ MODULE BranchProofs ------------------------------
(***************************************************************************)
(* Every branch the generator emits goes where the source says: to a block *)
(* of the same function, other than its entry, and for stop and cont to    *)
(* the exit and the test of the innermost loop, for every program.         *)
(*                                                                         *)
(* The argument needs that the blocks an activation of genIf or genLoop    *)
(* and an entry of loopStack_ speak of exist and belong to the function    *)
(* being generated (PlaceOK), and a summary of what one step of the        *)
(* generator adds to the blocks (GenerateCode), which the proofs about     *)
(* slots and stores use as well.                                           *)
(***************************************************************************)
EXTENDS ControlFlowProofs

-----------------------------------------------------------------------------
(* What an operation of the builder adds *)

\* instruction x is in block b
Holds(bd, b, x) == b \in DOMAIN bd /\ \E i \in 1..Len(bd[b]) : bd[b][i] = x

\* bd2 has the instructions of bd, and those of the pairs <<block, instruction>>
\* in new
Adds(bd, bd2, new) == \A b, x : Holds(bd2, b, x) <=> Holds(bd, b, x) \/ <<b, x>> \in new

(* Nothing is added where nothing changes.                                  *)
LEMMA AddsNothing ==
  ASSUME NEW bd
  PROVE  Adds(bd, bd, {})
  BY DEF Adds

(* Two additions in a row.                                                  *)
LEMMA AddsBoth ==
  ASSUME NEW bd, NEW bd2, NEW bd3, NEW m, NEW n, Adds(bd, bd2, m), Adds(bd2, bd3, n)
  PROVE  Adds(bd, bd3, m \cup n)
  BY DEF Adds

\* x is an element of the sequence s
Occurs(s, x) == \E i \in 1..Len(s) : s[i] = x

(* The elements of a concatenation.                                         *)
LEMMA ConcatElements ==
  ASSUME NEW T, NEW s \in Seq(T), NEW t \in Seq(T), NEW x
  PROVE  Occurs(s \o t, x) <=> Occurs(s, x) \/ Occurs(t, x)
  <1>1. PICK u : u = s \o t
    OBVIOUS
  <1>2. PICK m \in Nat : m = Len(s)
    BY LenProperties
  <1>3. PICK n \in Nat : n = Len(t)
    BY LenProperties
  <1>4. Len(u) = m + n /\ \A i \in 1..(m + n) : u[i] = IF i <= m THEN s[i] ELSE t[i - m]
    BY <1>1, <1>2, <1>3, ConcatProperties
  <1>5. ASSUME NEW i \in 1..(m + n), u[i] = x
        PROVE  (\E j \in 1..m : s[j] = x) \/ (\E j \in 1..n : t[j] = x)
    <2>1. CASE i <= m
      <3>1. i \in 1..m /\ s[i] = x
        BY <1>4, <1>5, <2>1
      <3> QED BY <3>1
    <2>2. CASE i > m
      <3>1. i - m \in 1..n /\ t[i - m] = x
        BY <1>4, <1>5, <2>2
      <3> QED BY <3>1
    <2> QED BY <2>1, <2>2
  <1>6. ASSUME NEW j \in 1..m, s[j] = x PROVE \E i \in 1..(m + n) : u[i] = x
    <2>1. j \in 1..(m + n) /\ u[j] = x
      BY <1>4, <1>6
    <2> QED BY <2>1
  <1>7. ASSUME NEW j \in 1..n, t[j] = x PROVE \E i \in 1..(m + n) : u[i] = x
    <2>1. m + j \in 1..(m + n) /\ ~(m + j <= m) /\ m + j - m = j
      OBVIOUS
    <2>2. u[m + j] = x
      BY <1>4, <1>7, <2>1
    <2> QED BY <2>1, <2>2
  <1>8. (\E i \in 1..Len(u) : u[i] = x) <=> Occurs(s, x) \/ Occurs(t, x)
    BY <1>2, <1>3, <1>4, <1>5, <1>6, <1>7 DEF Occurs
  <1> QED BY <1>1, <1>8 DEF Occurs

(* Appending one instruction to a block that exists.                        *)
LEMMA EmitAdds ==
  ASSUME NEW bd, Bodies(bd), NEW b \in DOMAIN bd, NEW x \in Instr
  PROVE  Adds(bd, Emit(bd, b, <<x>>), {<<b, x>>})
  <1> DEFINE e == Emit(bd, b, <<x>>)
  <1>1. /\ DOMAIN e = DOMAIN bd /\ e[b] = bd[b] \o <<x>>
        /\ \A c \in DOMAIN bd : c # b => e[c] = bd[c]
    BY DEF Emit
  <1> HIDE DEF e
  <1>2. bd[b] \in Seq(Instr) /\ <<x>> \in Seq(Instr)
    BY DEF Bodies
  <1>3. ASSUME NEW y
        PROVE  Holds(e, b, y) <=> Holds(bd, b, y) \/ y = x
    <2>1. Occurs(<<x>>, y) <=> y = x
      BY DEF Occurs
    <2>2. PICK s \in Seq(Instr), t \in Seq(Instr) : s = bd[b] /\ t = <<x>>
      BY <1>2
    <2>3. Occurs(s \o t, y) <=> Occurs(s, y) \/ Occurs(t, y)
      BY ConcatElements
    <2>4. Occurs(e[b], y) <=> Occurs(bd[b], y) \/ y = x
      BY <1>1, <2>1, <2>2, <2>3, Zenon
    <2> QED BY <1>1, <2>4 DEF Holds, Occurs
  <1>4. ASSUME NEW c, c # b, NEW y
        PROVE  Holds(e, c, y) <=> Holds(bd, c, y)
    BY <1>1, <1>4 DEF Holds
  <1>5. Adds(bd, e, {<<b, x>>})
    BY <1>3, <1>4 DEF Adds
  <1> QED BY <1>5 DEF e

(* createAlloca adds the slot to the entry block.                           *)
LEMMA AddSlotAdds ==
  ASSUME NEW bd, Bodies(bd), Entry \in DOMAIN bd, cpc \in Nat, NEW v \in Vars \cup {None}
  PROVE  Adds(bd, AddSlot(bd, v), {<<Entry, Alloca(v)>>})
  <1> DEFINE e == AddSlot(bd, v)
             b == Entry
             x == Alloca(v)
  <1>1. /\ DOMAIN e = DOMAIN bd /\ e[b] = <<x>> \o bd[b]
        /\ \A c \in DOMAIN bd : c # b => e[c] = bd[c]
    BY DEF AddSlot
  <1>2. bd[b] \in Seq(Instr) /\ <<x>> \in Seq(Instr)
    <2>1. bd[Entry] \in Seq(Instr)
      BY DEF Bodies
    <2>2. <<Alloca(v)>> \in Seq(Instr)
      BY DEF Alloca, I, Instr, InstrKind
    <2> QED BY <2>1, <2>2
  <1> HIDE DEF e, b, x
  <1>3. ASSUME NEW y
        PROVE  Holds(e, b, y) <=> Holds(bd, b, y) \/ y = x
    <2>1. Occurs(<<x>>, y) <=> y = x
      BY DEF Occurs
    <2>2. PICK s \in Seq(Instr), t \in Seq(Instr) : s = bd[b] /\ t = <<x>>
      BY <1>2
    <2>3. Occurs(t \o s, y) <=> Occurs(t, y) \/ Occurs(s, y)
      BY ConcatElements
    <2>4. Occurs(e[b], y) <=> Occurs(<<x>>, y) \/ Occurs(bd[b], y)
      BY <1>1, <2>2, <2>3, Zenon
    <2>5. b \in DOMAIN bd
      BY DEF b
    <2> QED BY <1>1, <2>1, <2>4, <2>5 DEF Holds, Occurs
  <1>4. ASSUME NEW c, c # b, NEW y
        PROVE  Holds(e, c, y) <=> Holds(bd, c, y)
    BY <1>1, <1>4 DEF Holds
  <1>5. Adds(bd, e, {<<b, x>>})
    BY <1>3, <1>4 DEF Adds
  <1> QED BY <1>5 DEF e, b, x

(* Blocks that did not exist start out empty.                               *)
LEMMA CreateAdds ==
  ASSUME NEW bd, NEW new, new \cap DOMAIN bd = {}
  PROVE  Adds(bd, Create(bd, new), {})
  <1>1. /\ DOMAIN Create(bd, new) = DOMAIN bd \cup new
        /\ \A b \in new : Create(bd, new)[b] = <<>>
        /\ \A b \in DOMAIN bd : Create(bd, new)[b] = bd[b]
    BY DEF Create
  <1>2. ASSUME NEW b, NEW x PROVE Holds(Create(bd, new), b, x) <=> Holds(bd, b, x)
    <2>1. CASE b \in new
      BY <1>1, <2>1 DEF Holds
    <2>2. CASE b \notin new
      BY <1>1, <2>2 DEF Holds
    <2> QED BY <2>1, <2>2
  <1> QED BY <1>2 DEF Adds

\* the instructions that evaluate operand u in block b
ExprCode(b, u) ==
  {<<b, Load(u)>> : w \in {u} \cap Vars}
  \cup {<<b, Call(u)>> : w \in {u} \cap {"void", "agg", "input"}}
  \cup {<<Entry, Alloca(None)>> : w \in {u} \cap {"agg", "input"}}

(* genExpr adds those and no others.                                        *)
LEMMA GenExprAdds ==
  ASSUME NEW bd, Bodies(bd), Entry \in DOMAIN bd, NEW b \in DOMAIN bd, cpc \in Nat,
         NEW u \in Operand \cup {None}
  PROVE  Adds(bd, GenExpr(bd, b, u), ExprCode(b, u))
  <1>1. u \in Vars => u \notin {"void", "agg", "input", "lit", None}
    BY ProgramAssumption DEF Literals
  <1>2. CASE u \in Vars
    <2>1. Load(u) \in Instr
      BY <1>2 DEF Load, I, Instr, InstrKind
    <2>2. GenExpr(bd, b, u) = Emit(bd, b, <<Load(u)>>)
      BY <1>1, <1>2 DEF GenExpr
    <2>3. ExprCode(b, u) = {<<b, Load(u)>>}
      BY <1>1, <1>2 DEF ExprCode
    <2> QED BY <2>1, <2>2, <2>3, EmitAdds
  <1>3. u \in {"void", "agg", "input"} => Call(u) \in Instr
    BY DEF Call, I, Instr, InstrKind, Operand, Literals
  <1>4. CASE u = "void"
    <2>1. GenExpr(bd, b, u) = Emit(bd, b, <<Call(u)>>)
      BY <1>4, ProgramAssumption DEF GenExpr, Literals
    <2>2. ExprCode(b, u) = {<<b, Call(u)>>}
      BY <1>1, <1>4 DEF ExprCode
    <2> QED BY <1>3, <1>4, <2>1, <2>2, EmitAdds
  <1>5. CASE u \in {"agg", "input"}
    <2>1. GenExpr(bd, b, u) = Emit(AddSlot(bd, None), b, <<Call(u)>>)
      BY <1>5, ProgramAssumption DEF GenExpr, Literals
    <2>2. ExprCode(b, u) = {<<Entry, Alloca(None)>>} \cup {<<b, Call(u)>>}
      BY <1>1, <1>5 DEF ExprCode
    <2>3. Adds(bd, AddSlot(bd, None), {<<Entry, Alloca(None)>>})
      BY AddSlotAdds
    <2>4. Bodies(AddSlot(bd, None)) /\ DOMAIN AddSlot(bd, None) = DOMAIN bd
      BY AddSlotType
    <2>5. Adds(AddSlot(bd, None), Emit(AddSlot(bd, None), b, <<Call(u)>>), {<<b, Call(u)>>})
      BY <1>3, <1>5, <2>4, EmitAdds
    <2> QED BY <2>1, <2>2, <2>3, <2>5, AddsBoth
  <1>6. CASE u \in {"lit", None}
    <2>1. GenExpr(bd, b, u) = bd
      BY <1>1, <1>6, ProgramAssumption DEF GenExpr, Literals
    <2>2. ExprCode(b, u) = {}
      BY <1>1, <1>6, ProgramAssumption DEF ExprCode, Literals
    <2> QED BY <2>1, <2>2, AddsNothing
  <1> QED BY <1>2, <1>4, <1>5, <1>6 DEF Operand, Literals

(* The statements that evaluate an operand and append one instruction.      *)
LEMMA EvalEmitAdds ==
  ASSUME NEW bd, Bodies(bd), Entry \in DOMAIN bd, NEW b \in DOMAIN bd, cpc \in Nat,
         NEW u \in Operand \cup {None}, NEW x \in Instr
  PROVE  /\ Adds(bd, Emit(GenExpr(bd, b, u), b, <<x>>), ExprCode(b, u) \cup {<<b, x>>})
         /\ DOMAIN Emit(GenExpr(bd, b, u), b, <<x>>) = DOMAIN bd
  <1> DEFINE e == GenExpr(bd, b, u)
  <1>1. Bodies(e) /\ DOMAIN e = DOMAIN bd /\ Adds(bd, e, ExprCode(b, u))
    BY GenExprType, GenExprAdds
  <1> HIDE DEF e
  <1>2. Adds(e, Emit(e, b, <<x>>), {<<b, x>>}) /\ <<x>> \in Seq(Instr)
    BY <1>1, EmitAdds
  <1>3. DOMAIN Emit(e, b, <<x>>) = DOMAIN e
    BY DEF Emit
  <1>4. Adds(bd, Emit(e, b, <<x>>), ExprCode(b, u) \cup {<<b, x>>})
    BY <1>1, <1>2, AddsBoth
  <1> QED BY <1>1, <1>3, <1>4 DEF e

-----------------------------------------------------------------------------
(* Where the generator stands *)

\* the blocks the activation f may still branch to or enter
Enters(f) == Pending(f) \cup (IF f.k = "loop" THEN {<<f.at, "cond">>} ELSE {})

\* inside a function: it starts at cfn, and the blocks the walk has in hand
\* are blocks of it
InsideOK ==
  /\ cfn \in 1..(cpc - 1) /\ prog[cfn].k = "fn"
  /\ \A k \in (cfn + 1)..cpc : prog[k].k # "fn"
  /\ Entry \in DOMAIN body /\ ins \in DOMAIN body /\ ins[1] >= cfn
  /\ \A i \in 1..Len(frames) : frames[i].at >= cfn /\ Enters(frames[i]) \subseteq DOMAIN body
  /\ \A a \in OpenLoops(prog, cpc) :
       a >= cfn /\ {<<a, "cond">>, <<a, "after">>} \subseteq DOMAIN body

PlaceOK ==
  /\ phase \in {"parse", "check"} => frames = <<>>
  /\ phase = "gen" => \A b \in DOMAIN body : b[1] < cpc
  /\ phase = "gen" /\ cpc \in Nodes => IF Here.k = "fn" THEN frames = <<>> ELSE InsideOK

PlaceInv == NestInv /\ PlaceOK

-----------------------------------------------------------------------------
(* What a step of the generator adds to the module *)

\* genStmtList leaves the rest of the list
Skipping == Here.k \in Statements /\ Terminated(body, ins)

HeadCode == IF Here.v = None THEN {}
            ELSE {<< <<cpc, "entry">>, Alloca(Here.v)>>, << <<cpc, "entry">>, Store(Here.v, "arg")>>}

LeaveCode == {<<ins, Br(Last(loopStack)[IF Here.k = "stop" THEN "breakBB" ELSE "continueBB"])>>}

IfCode == ExprCode(ins, Here.u)
            \cup {<<ins, CondBr(Here.u, <<cpc, "then">>, <<cpc, "else">>)>>}

LoopCode == {<<ins, Br(<<cpc, "cond">>)>>}
              \cup (ExprCode(<<cpc, "cond">>, Here.u)
                      \cup {<< <<cpc, "cond">>, CondBr(Here.u, <<cpc, "body">>, <<cpc, "after">>)>>})

\* the branch or return that ends a list, unless its block already ended
EndCode(x) == IF Terminated(body, ins) THEN {} ELSE {<<ins, x>>}

NewCode ==
  IF Skipping THEN {} ELSE
  CASE Here.k = "fn"     -> HeadCode
    [] Here.k = "decl"   -> {<<Entry, Alloca(Here.v)>>}
                              \cup (ExprCode(ins, Here.u) \cup {<<ins, Store(Here.v, Here.u)>>})
    [] Here.k = "assign" -> ExprCode(ins, Here.u) \cup {<<ins, Store(Here.v, Here.u)>>}
    [] Here.k = "part"   -> ExprCode(ins, Here.u) \cup {<<ins, StorePart(Here.v, Here.u)>>}
    [] Here.k = "expr"   -> ExprCode(ins, Here.u)
    [] Here.k = "ret"    -> ExprCode(ins, Here.u) \cup {<<ins, Ret(Here.u)>>}
    [] Here.k \in {"stop", "cont"}  -> LeaveCode
    [] Here.k = "if"     -> IfCode
    [] Here.k = "loop"   -> LoopCode
    [] Here.k \in {"else", "endif"} -> EndCode(Br(<<Last(frames).at, "merge">>))
    [] Here.k = "endloop" -> EndCode(Br(<<Last(frames).at, "cond">>))
    [] Here.k = "endfn"  -> EndCode(Ret(IF prog[cfn].t = "void" THEN None ELSE "zero"))

NewBlocks ==
  IF Skipping THEN {} ELSE
  CASE Here.k = "fn"   -> {<<cpc, "entry">>}
    [] Here.k = "if"   -> {<<cpc, "then">>, <<cpc, "else">>, <<cpc, "merge">>}
    [] Here.k = "loop" -> {<<cpc, "cond">>, <<cpc, "body">>, <<cpc, "after">>}
    [] Here.k \notin {"fn", "if", "loop"} -> {}

\* a step adds just that
Grows == Adds(body, body', NewCode) /\ DOMAIN body' = DOMAIN body \cup NewBlocks

(* What is known at any node the generator reaches.                         *)
LEMMA GenPlace ==
  ASSUME PlaceInv, NEW kinds, Generating(kinds)
  PROVE  /\ cpc \in Nodes /\ cpc \in 1..Len(prog) /\ cpc \in Nat /\ phase = "gen"
         /\ Here \in AnyNode /\ Here.k \in kinds /\ Here.d \in Nat
         /\ Here.v \in Vars \cup {None} /\ Here.u \in Operand \cup {None}
         /\ Here.k \in {"decl", "assign", "part"} => Here.v \in Vars
         /\ Bodies(body) /\ FlowInv /\ TypeOK /\ TreeOK /\ MatchOK
         /\ \A r \in Roles : <<cpc, r>> \in Block /\ <<cpc, r>> \notin DOMAIN body
         /\ "fn" \notin kinds => InsideOK /\ Entry \in DOMAIN body /\ ins \in DOMAIN body
  <1>1. /\ cpc \in Nodes /\ cpc \in 1..Len(prog) /\ Here.k \in kinds /\ phase = "gen"
        /\ FlowInv /\ TypeOK /\ TreeOK /\ MatchOK /\ PlaceOK
    BY DEF Generating, PlaceInv, NestInv, FlowInv, Nodes
  <1>2. Here \in AnyNode /\ cpc \in Nat
    BY <1>1, NodeDepths DEF Here
  <1>3. Bodies(body)
    BY <1>1 DEF TypeOK, GenTypeOK, Bodies
  <1>4. ASSUME NEW r \in Roles PROVE <<cpc, r>> \in Block /\ <<cpc, r>> \notin DOMAIN body
    <2>1. <<cpc, r>>[1] = cpc /\ ~(cpc < cpc)
      BY <1>2
    <2> QED BY <1>1, <1>2, <2>1 DEF PlaceOK, Block
  <1>5. Here.k \in {"decl", "assign", "part"} => Here.v \in Vars
    BY <1>1 DEF TypeOK, ParserTypeOK, Here
  <1>6. "fn" \notin kinds => InsideOK /\ Entry \in DOMAIN body /\ ins \in DOMAIN body
    BY <1>1 DEF PlaceOK, InsideOK
  <1> QED BY <1>1, <1>2, <1>3, <1>4, <1>5, <1>6 DEF AnyNode

(* The statements without a list of their own.                              *)
LEMMA SimpleCode ==
  ASSUME PlaceInv, phase' # "failed",
         \/ GenVarDecl \/ GenAssign \/ GenPartAssign \/ GenExprStmt \/ GenReturn
         \/ GenBreak \/ GenContinue
  PROVE  Grows
  <1>1. ASSUME NEW kinds, AtStatement(kinds), "fn" \notin kinds
        PROVE  /\ Bodies(body) /\ cpc \in Nat /\ Entry \in DOMAIN body /\ ins \in DOMAIN body
               /\ Here.k \in kinds /\ ~Skipping /\ Here.u \in Operand \cup {None}
               /\ Here.v \in Vars \cup {None}
               /\ Here.k \in {"decl", "assign", "part"} => Here.v \in Vars
    <2>1. Generating(kinds) /\ ~Terminated(body, ins)
      BY <1>1 DEF AtStatement
    <2> QED BY <1>1, <2>1, GenPlace DEF Skipping
  <1>2. ASSUME NEW code, GenThrow(code) PROVE FALSE
    BY <1>2 DEF GenThrow, Throw
  <1>3. ASSUME Here.k \notin {"fn", "if", "loop"} PROVE NewBlocks = {}
    BY <1>3 DEF NewBlocks
  <1>4. CASE GenVarDecl
    <2>1. /\ AtStatement({"decl"})
          /\ body' = Emit(GenExpr(AddSlot(body, Here.v), ins, Here.u),
                          ins, <<Store(Here.v, Here.u)>>)
      BY <1>2, <1>4 DEF GenVarDecl, UndeclaredUse
    <2>2. /\ Bodies(body) /\ cpc \in Nat /\ Entry \in DOMAIN body /\ ins \in DOMAIN body
          /\ Here.k = "decl" /\ ~Skipping /\ Here.u \in Operand \cup {None} /\ Here.v \in Vars
      BY <1>1, <2>1
    <2>3. Store(Here.v, Here.u) \in Instr
      BY <2>2 DEF Store, I, Instr, InstrKind
    <2>4. /\ Bodies(AddSlot(body, Here.v)) /\ DOMAIN AddSlot(body, Here.v) = DOMAIN body
          /\ Adds(body, AddSlot(body, Here.v), {<<Entry, Alloca(Here.v)>>})
      BY <2>2, AddSlotType, AddSlotAdds
    <2> DEFINE bd == AddSlot(body, Here.v)
    <2> HIDE DEF bd
    <2>5. /\ Adds(bd, Emit(GenExpr(bd, ins, Here.u), ins, <<Store(Here.v, Here.u)>>),
                  ExprCode(ins, Here.u) \cup {<<ins, Store(Here.v, Here.u)>>})
          /\ DOMAIN Emit(GenExpr(bd, ins, Here.u), ins, <<Store(Here.v, Here.u)>>) = DOMAIN bd
      BY <2>2, <2>3, <2>4, EvalEmitAdds DEF bd
    <2>6. Adds(body, body', {<<Entry, Alloca(Here.v)>>}
                    \cup (ExprCode(ins, Here.u) \cup {<<ins, Store(Here.v, Here.u)>>}))
      BY <2>1, <2>4, <2>5, AddsBoth DEF bd
    <2>7. NewCode = {<<Entry, Alloca(Here.v)>>}
                    \cup (ExprCode(ins, Here.u) \cup {<<ins, Store(Here.v, Here.u)>>})
      BY <2>2 DEF NewCode
    <2>8. DOMAIN body' = DOMAIN body /\ NewBlocks = {}
      BY <1>3, <2>1, <2>2, <2>4, <2>5 DEF bd
    <2> QED BY <2>6, <2>7, <2>8 DEF Grows
  <1>5. ASSUME NEW kinds, AtStatement(kinds), "fn" \notin kinds, NEW x \in Instr,
               body' = Emit(GenExpr(body, ins, Here.u), ins, <<x>>),
               NewBlocks = {}, NewCode = ExprCode(ins, Here.u) \cup {<<ins, x>>}
        PROVE  Grows
    <2>1. /\ Bodies(body) /\ cpc \in Nat /\ Entry \in DOMAIN body /\ ins \in DOMAIN body
          /\ Here.u \in Operand \cup {None}
      BY <1>1, <1>5
    <2>2. /\ Adds(body, body', ExprCode(ins, Here.u) \cup {<<ins, x>>})
          /\ DOMAIN body' = DOMAIN body
      BY <1>5, <2>1, EvalEmitAdds
    <2> QED BY <1>5, <2>2 DEF Grows
  <1>6. CASE GenAssign
    <2>1. /\ AtStatement({"assign"})
          /\ body' = Emit(GenExpr(body, ins, Here.u), ins, <<Store(Here.v, Here.u)>>)
      BY <1>2, <1>6 DEF GenAssign, UndeclaredUse
    <2>2. Here.k = "assign" /\ ~Skipping /\ Here.u \in Operand \cup {None} /\ Here.v \in Vars
          /\ cpc \in Nat
      BY <1>1, <2>1
    <2>3. Store(Here.v, Here.u) \in Instr
      BY <2>2 DEF Store, I, Instr, InstrKind
    <2>4. NewCode = ExprCode(ins, Here.u) \cup {<<ins, Store(Here.v, Here.u)>>}
      BY <2>2 DEF NewCode
    <2> QED BY <1>3, <1>5, <2>1, <2>2, <2>3, <2>4
  <1>7. CASE GenPartAssign
    <2>1. /\ AtStatement({"part"})
          /\ body' = Emit(GenExpr(body, ins, Here.u), ins, <<StorePart(Here.v, Here.u)>>)
      BY <1>2, <1>7 DEF GenPartAssign, UndeclaredUse
    <2>2. Here.k = "part" /\ ~Skipping /\ Here.u \in Operand \cup {None} /\ Here.v \in Vars
          /\ cpc \in Nat
      BY <1>1, <2>1
    <2>3. StorePart(Here.v, Here.u) \in Instr
      BY <2>2 DEF StorePart, I, Instr, InstrKind
    <2>4. NewCode = ExprCode(ins, Here.u) \cup {<<ins, StorePart(Here.v, Here.u)>>}
      BY <2>2 DEF NewCode
    <2> QED BY <1>3, <1>5, <2>1, <2>2, <2>3, <2>4
  <1>8. CASE GenReturn
    <2>1. /\ AtStatement({"ret"})
          /\ body' = Emit(GenExpr(body, ins, Here.u), ins, <<Ret(Here.u)>>)
      BY <1>2, <1>8 DEF GenReturn, UndeclaredUse
    <2>2. Here.k = "ret" /\ ~Skipping /\ Here.u \in Operand \cup {None} /\ cpc \in Nat
      BY <1>1, <2>1
    <2>3. Ret(Here.u) \in Instr
      BY <2>2 DEF Ret, I, Instr, InstrKind
    <2>4. NewCode = ExprCode(ins, Here.u) \cup {<<ins, Ret(Here.u)>>}
      BY <2>2 DEF NewCode
    <2> QED BY <1>3, <1>5, <2>1, <2>2, <2>3, <2>4
  <1>9. CASE GenExprStmt
    <2>1. AtStatement({"expr"}) /\ body' = GenExpr(body, ins, Here.u)
      BY <1>2, <1>9 DEF GenExprStmt, UndeclaredUse
    <2>2. /\ Bodies(body) /\ cpc \in Nat /\ Entry \in DOMAIN body /\ ins \in DOMAIN body
          /\ Here.k = "expr" /\ ~Skipping /\ Here.u \in Operand \cup {None}
      BY <1>1, <2>1
    <2>3. Adds(body, body', ExprCode(ins, Here.u)) /\ DOMAIN body' = DOMAIN body
      BY <2>1, <2>2, GenExprType, GenExprAdds
    <2>4. NewCode = ExprCode(ins, Here.u)
      BY <2>2 DEF NewCode
    <2> QED BY <1>3, <2>2, <2>3, <2>4 DEF Grows
  <1>10. ASSUME NEW kind \in {"stop", "cont"}, NEW target \in {"breakBB", "continueBB"},
                NEW code, Leave(kind, target, code),
                target = IF kind = "stop" THEN "breakBB" ELSE "continueBB"
         PROVE  Grows
    <2>1. /\ AtStatement({kind}) /\ loopStack # <<>>
          /\ body' = Emit(body, ins, <<Br(Last(loopStack)[target])>>)
      BY <1>2, <1>10 DEF Leave
    <2>2. /\ Bodies(body) /\ cpc \in Nat /\ ins \in DOMAIN body /\ Here.k = kind /\ ~Skipping
      BY <1>1, <2>1
    <2>3. Br(Last(loopStack)[target]) \in Instr
      <3>1. Last(loopStack) \in [continueBB : Block, breakBB : Block]
        BY <2>1, FrontFacts DEF PlaceInv, NestInv, FlowInv, TypeOK, GenTypeOK
      <3>2. Last(loopStack)[target] \in Block
        BY <3>1
      <3> QED BY <2>2, <3>2 DEF Br, I, Instr, InstrKind
    <2>4. /\ Adds(body, body', {<<ins, Br(Last(loopStack)[target])>>})
          /\ DOMAIN body' = DOMAIN body
      BY <2>1, <2>2, <2>3, EmitAdds DEF Emit
    <2>5. NewCode = {<<ins, Br(Last(loopStack)[target])>>}
      BY <1>10, <2>2 DEF NewCode, LeaveCode
    <2> QED BY <1>3, <2>2, <2>4, <2>5 DEF Grows
  <1> QED BY <1>4, <1>6, <1>7, <1>8, <1>9, <1>10 DEF GenBreak, GenContinue

(* genIf: its blocks start out empty, the branch goes to the block before.  *)
LEMMA IfAdds ==
  ASSUME PlaceInv, phase' # "failed", GenIf
  PROVE  Grows
  <1> DEFINE new == {<<cpc, "then">>, <<cpc, "else">>, <<cpc, "merge">>}
             x == CondBr(Here.u, <<cpc, "then">>, <<cpc, "else">>)
             e == GenExpr(body, ins, Here.u)
  <1>1. /\ AtStatement({"if"})
        /\ body' = Emit(Create(e, new), ins, <<x>>)
    BY DEF GenIf, UndeclaredUse, GenThrow, Throw
  <1>2. Generating({"if"}) /\ ~Terminated(body, ins)
    BY <1>1 DEF AtStatement
  <1>3. /\ Bodies(body) /\ cpc \in Nat /\ Entry \in DOMAIN body /\ ins \in DOMAIN body
        /\ Here.k = "if" /\ ~Skipping /\ Here.u \in Operand \cup {None}
        /\ \A r \in Roles : <<cpc, r>> \in Block /\ <<cpc, r>> \notin DOMAIN body
    BY <1>2, GenPlace DEF Skipping
  <1>4. x \in Instr
    BY <1>3 DEF CondBr, I, Instr, InstrKind, Roles
  <1>5. NewCode = ExprCode(ins, Here.u) \cup {<<ins, x>>} /\ NewBlocks = new
    BY <1>3 DEF NewCode, IfCode, NewBlocks
  <1>6. new \subseteq Block /\ new \cap DOMAIN body = {}
    BY <1>3 DEF Roles
  <1> HIDE DEF new, x, e
  <1>7. Bodies(e) /\ DOMAIN e = DOMAIN body /\ Adds(body, e, ExprCode(ins, Here.u))
    BY <1>3, GenExprType, GenExprAdds DEF e
  <1> DEFINE c == Create(e, new)
  <1>8. Bodies(c) /\ DOMAIN c = DOMAIN body \cup new /\ Adds(e, c, {})
    BY <1>6, <1>7, CreateType, CreateAdds
  <1> HIDE DEF c
  <1>9. Adds(c, Emit(c, ins, <<x>>), {<<ins, x>>}) /\ DOMAIN Emit(c, ins, <<x>>) = DOMAIN c
    BY <1>3, <1>4, <1>8, EmitAdds DEF Emit
  <1>10. Adds(body, c, ExprCode(ins, Here.u) \cup {})
    BY <1>7, <1>8, AddsBoth
  <1>11. Adds(body, Emit(c, ins, <<x>>), ExprCode(ins, Here.u) \cup {<<ins, x>>})
    <2>1. ExprCode(ins, Here.u) \cup {} = ExprCode(ins, Here.u)
      OBVIOUS
    <2> QED BY <1>9, <1>10, <2>1, AddsBoth
  <1> QED BY <1>1, <1>5, <1>8, <1>9, <1>11 DEF Grows, c

(* genLoop: the branch to the test, and the test in a block of its own.     *)
LEMMA LoopAdds ==
  ASSUME PlaceInv, phase' # "failed", GenLoop
  PROVE  Grows
  <1> DEFINE cond == <<cpc, "cond">>
             new == {cond, <<cpc, "body">>, <<cpc, "after">>}
             y == Br(cond)
             x == CondBr(Here.u, <<cpc, "body">>, <<cpc, "after">>)
             e == Create(body, new)
  <1>1. /\ AtStatement({"loop"})
        /\ body' = Emit(GenExpr(Emit(e, ins, <<y>>), cond, Here.u), cond, <<x>>)
    BY DEF GenLoop, UndeclaredUse, GenThrow, Throw
  <1>2. Generating({"loop"}) /\ ~Terminated(body, ins)
    BY <1>1 DEF AtStatement
  <1>3. /\ Bodies(body) /\ cpc \in Nat /\ Entry \in DOMAIN body /\ ins \in DOMAIN body
        /\ Here.k = "loop" /\ ~Skipping /\ Here.u \in Operand \cup {None}
        /\ \A r \in Roles : <<cpc, r>> \in Block /\ <<cpc, r>> \notin DOMAIN body
    BY <1>2, GenPlace DEF Skipping
  <1>4. x \in Instr /\ y \in Instr
    BY <1>3 DEF CondBr, Br, I, Instr, InstrKind, Roles
  <1>5. NewCode = {<<ins, y>>} \cup (ExprCode(cond, Here.u) \cup {<<cond, x>>}) /\ NewBlocks = new
    BY <1>3 DEF NewCode, LoopCode, NewBlocks
  <1>6. new \subseteq Block /\ new \cap DOMAIN body = {} /\ cond \in new
    BY <1>3 DEF Roles
  <1> HIDE DEF new, x, y, e, cond
  <1>7. Bodies(e) /\ DOMAIN e = DOMAIN body \cup new /\ Adds(body, e, {})
    BY <1>3, <1>6, CreateType, CreateAdds DEF e
  <1> DEFINE c == Emit(e, ins, <<y>>)
  <1>8. Bodies(c) /\ DOMAIN c = DOMAIN e /\ Adds(e, c, {<<ins, y>>})
    <2>1. <<y>> \in Seq(Instr) /\ ins \in DOMAIN e
      BY <1>3, <1>4, <1>7
    <2> QED BY <1>4, <1>7, <2>1, EmitType, EmitAdds
  <1> HIDE DEF c
  <1>9. /\ Adds(c, Emit(GenExpr(c, cond, Here.u), cond, <<x>>), ExprCode(cond, Here.u) \cup {<<cond, x>>})
        /\ DOMAIN Emit(GenExpr(c, cond, Here.u), cond, <<x>>) = DOMAIN c
    <2>1. Entry \in DOMAIN c /\ cond \in DOMAIN c
      BY <1>3, <1>6, <1>7, <1>8
    <2> QED BY <1>3, <1>4, <1>8, <2>1, EvalEmitAdds
  <1>10. Adds(body, c, {<<ins, y>>})
    <2>1. {} \cup {<<ins, y>>} = {<<ins, y>>}
      OBVIOUS
    <2>2. Adds(body, c, {} \cup {<<ins, y>>})
      BY <1>7, <1>8, AddsBoth
    <2> QED BY <2>1, <2>2
  <1>11. Adds(body, body', {<<ins, y>>} \cup (ExprCode(cond, Here.u) \cup {<<cond, x>>}))
    BY <1>1, <1>9, <1>10, AddsBoth DEF c
  <1>12. DOMAIN body' = DOMAIN body \cup new
    BY <1>1, <1>7, <1>8, <1>9 DEF c
  <1> QED BY <1>5, <1>11, <1>12 DEF Grows

(* The end of a list adds at most the one instruction that ends its block.  *)
LEMMA ListEndAdds ==
  ASSUME PlaceInv, phase' # "failed",
         GenElse \/ GenEndIf \/ GenEndLoop \/ GenEndFunction
  PROVE  Grows
  <1>1. ASSUME NEW end \in {"else", "endif", "endloop", "endfn"}, Generating({end}), NEW x \in Instr,
               body' = IF Terminated(body, ins) THEN body ELSE Emit(body, ins, <<x>>),
               NewCode = EndCode(x)
        PROVE  Grows
    <2>1. Bodies(body) /\ ins \in DOMAIN body /\ Here.k = end
      BY <1>1, GenPlace
    <2>2. NewBlocks = {}
      BY <2>1 DEF NewBlocks
    <2>3. CASE Terminated(body, ins)
      <3>1. body' = body /\ NewCode = {}
        BY <1>1, <2>3 DEF EndCode
      <3> QED BY <2>2, <3>1, AddsNothing DEF Grows
    <2>4. CASE ~Terminated(body, ins)
      <3>1. body' = Emit(body, ins, <<x>>) /\ NewCode = {<<ins, x>>}
        BY <1>1, <2>4 DEF EndCode
      <3>2. Adds(body, Emit(body, ins, <<x>>), {<<ins, x>>})
        BY <2>1, EmitAdds
      <3>3. DOMAIN Emit(body, ins, <<x>>) = DOMAIN body
        BY DEF Emit
      <3> QED BY <2>2, <3>1, <3>2, <3>3 DEF Grows
    <2> QED BY <2>3, <2>4
  <1>2. ASSUME NEW end, Generating({end}), end \notin Statements
        PROVE  Here.k = end /\ ~Skipping /\ cpc \in Nat
    BY <1>2, GenPlace DEF Skipping
  <1>3. ASSUME frames # <<>> PROVE \A r \in Roles : <<Last(frames).at, r>> \in Block
    <2>1. Last(frames) \in Frame
      BY <1>3, FrontFacts DEF PlaceInv, NestInv, FlowInv, TypeOK, GenTypeOK
    <2> QED BY <2>1 DEF Frame, Block
  <1>4. ASSUME NEW b \in Block, cpc \in Nat PROVE Br(b) \in Instr
    BY <1>4 DEF Br, I, Instr, InstrKind
  <1>5. \A end \in {"else", "endif", "endloop", "endfn"} : end \notin Statements
    BY DEF Statements, Simple
  <1>6. "merge" \in Roles /\ "cond" \in Roles
    BY DEF Roles
  <1>7. CASE GenElse
    <2>1. Generating({"else"}) /\ frames # <<>> /\ body' = FallTo(<<Last(frames).at, "merge">>)
      BY <1>7 DEF GenElse, ListEnd
    <2>2. Here.k = "else" /\ ~Skipping /\ Br(<<Last(frames).at, "merge">>) \in Instr
      BY <1>2, <1>3, <1>4, <1>5, <1>6, <2>1
    <2>3. NewCode = EndCode(Br(<<Last(frames).at, "merge">>))
      BY <2>2 DEF NewCode
    <2> QED BY <1>1, <2>1, <2>2, <2>3 DEF FallTo
  <1>8. CASE GenEndIf
    <2>1. Generating({"endif"}) /\ frames # <<>> /\ body' = FallTo(<<Last(frames).at, "merge">>)
      BY <1>8 DEF GenEndIf, ListEnd
    <2>2. Here.k = "endif" /\ ~Skipping /\ Br(<<Last(frames).at, "merge">>) \in Instr
      BY <1>2, <1>3, <1>4, <1>5, <1>6, <2>1
    <2>3. NewCode = EndCode(Br(<<Last(frames).at, "merge">>))
      BY <2>2 DEF NewCode
    <2> QED BY <1>1, <2>1, <2>2, <2>3 DEF FallTo
  <1>9. CASE GenEndLoop
    <2>1. Generating({"endloop"}) /\ frames # <<>> /\ body' = FallTo(<<Last(frames).at, "cond">>)
      BY <1>9 DEF GenEndLoop, ListEnd
    <2>2. Here.k = "endloop" /\ ~Skipping /\ Br(<<Last(frames).at, "cond">>) \in Instr
      BY <1>2, <1>3, <1>4, <1>5, <1>6, <2>1
    <2>3. NewCode = EndCode(Br(<<Last(frames).at, "cond">>))
      BY <2>2 DEF NewCode
    <2> QED BY <1>1, <2>1, <2>2, <2>3 DEF FallTo
  <1>10. CASE GenEndFunction
    <2> DEFINE x == Ret(IF prog[cfn].t = "void" THEN None ELSE "zero")
    <2>1. Generating({"endfn"}) /\ body' = DefaultReturn
      BY <1>10 DEF GenEndFunction, GenThrow, Throw
    <2>2. Here.k = "endfn" /\ ~Skipping /\ cpc \in Nat
      BY <1>2, <1>5, <2>1
    <2>3. x \in Instr
      BY <2>2 DEF Ret, I, Instr, InstrKind
    <2>4. NewCode = EndCode(x)
      BY <2>2 DEF NewCode
    <2> HIDE DEF x
    <2>5. body' = IF Terminated(body, ins) THEN body ELSE Emit(body, ins, <<x>>)
      BY <2>1 DEF DefaultReturn, x
    <2> QED BY <1>1, <2>1, <2>3, <2>4, <2>5
  <1> QED BY <1>7, <1>8, <1>9, <1>10

(* defineFn: the entry block, and the slot and the store of the parameter.  *)
LEMMA FunctionAdds ==
  ASSUME PlaceInv, phase' # "failed", GenFunction
  PROVE  Grows
  <1> DEFINE b == <<cpc, "entry">>
             e == Create(body, {b})
             x == Alloca(Here.v)
             y == Store(Here.v, "arg")
  <1>1. /\ Generating({"fn"})
        /\ body' = IF Here.v = None THEN e ELSE Emit(e, b, <<x, y>>)
    BY DEF GenFunction
  <1>2. /\ Bodies(body) /\ cpc \in Nat /\ Here.k = "fn" /\ Here.v \in Vars \cup {None}
        /\ \A r \in Roles : <<cpc, r>> \in Block /\ <<cpc, r>> \notin DOMAIN body
    BY <1>1, GenPlace
  <1>3. {b} \subseteq Block /\ {b} \cap DOMAIN body = {}
    BY <1>2 DEF Roles
  <1>4. ~Skipping
    BY <1>2 DEF Skipping, Statements, Simple
  <1>5. NewBlocks = {b} /\ NewCode = IF Here.v = None THEN {} ELSE {<<b, x>>, <<b, y>>}
    BY <1>2, <1>4 DEF NewBlocks, NewCode, HeadCode
  <1>6. Here.v # None => x \in Instr /\ y \in Instr
    BY <1>2 DEF Alloca, Store, I, Instr, InstrKind
  <1> HIDE DEF b, e, x, y
  <1>7. Bodies(e) /\ DOMAIN e = DOMAIN body \cup {b} /\ Adds(body, e, {})
    BY <1>2, <1>3, CreateType, CreateAdds DEF e
  <1>8. CASE Here.v = None
    BY <1>1, <1>5, <1>7, <1>8 DEF Grows
  <1>9. CASE Here.v # None
    <2>1. <<x>> \in Seq(Instr) /\ <<x, y>> \in Seq(Instr) /\ b \in DOMAIN e
      BY <1>6, <1>7, <1>9
    <2> DEFINE c == Emit(e, b, <<x, y>>)
    <2>2. /\ DOMAIN c = DOMAIN e /\ c[b] = e[b] \o <<x, y>>
          /\ \A d \in DOMAIN e : d # b => c[d] = e[d]
      BY <2>1 DEF Emit
    <2> HIDE DEF c
    <2>3. ASSUME NEW z PROVE Holds(c, b, z) <=> Holds(e, b, z) \/ z = x \/ z = y
      <3>1. Occurs(<<x, y>>, z) <=> z = x \/ z = y
        <4>1. Len(<<x, y>>) = 2 /\ <<x, y>>[1] = x /\ <<x, y>>[2] = y /\ 1..2 = {1, 2}
          OBVIOUS
        <4> QED BY <4>1 DEF Occurs
      <3>2. e[b] \in Seq(Instr)
        BY <1>7, <2>1 DEF Bodies
      <3>3. PICK s \in Seq(Instr), t \in Seq(Instr) : s = e[b] /\ t = <<x, y>>
        BY <2>1, <3>2
      <3>4. Occurs(s \o t, z) <=> Occurs(s, z) \/ Occurs(t, z)
        BY ConcatElements
      <3>5. Occurs(c[b], z) <=> Occurs(e[b], z) \/ Occurs(<<x, y>>, z)
        BY <2>2, <3>3, <3>4, Zenon
      <3> QED BY <2>1, <2>2, <3>1, <3>5 DEF Holds, Occurs
    <2>4. ASSUME NEW d, d # b, NEW z PROVE Holds(c, d, z) <=> Holds(e, d, z)
      BY <2>2, <2>4 DEF Holds
    <2>5. Adds(e, c, {<<b, x>>, <<b, y>>})
      BY <2>3, <2>4 DEF Adds
    <2>6. Adds(body, c, {<<b, x>>, <<b, y>>})
      BY <1>7, <2>5 DEF Adds
    <2>7. body' = c
      BY <1>1, <1>9 DEF c
    <2> QED BY <1>5, <1>7, <1>9, <2>2, <2>6, <2>7 DEF Grows
  <1> QED BY <1>8, <1>9

(* Every action of the generator that goes on adds what the node it is at   *)
(* calls for, and nothing else.                                             *)
LEMMA GenerateCode ==
  ASSUME PlaceInv, GenNext, phase' = "gen"
  PROVE  Grows /\ cpc \in Nodes /\ phase = "gen"
  <1>1. CASE SkipRest
    <2>1. Generating(Statements) /\ Terminated(body, ins) /\ body' = body
      BY <1>1 DEF SkipRest
    <2>2. Here.k \in Statements /\ cpc \in Nodes /\ phase = "gen"
      BY <2>1, GenPlace
    <2>3. Skipping
      BY <2>1, <2>2 DEF Skipping
    <2>4. NewCode = {} /\ NewBlocks = {}
      BY <2>3 DEF NewCode, NewBlocks
    <2> QED BY <2>1, <2>2, <2>4, AddsNothing DEF Grows
  <1>2. ~GenDone
    BY DEF GenDone
  <1>3. ASSUME ~SkipRest PROVE \E kinds : Generating(kinds)
    BY <1>2, <1>3 DEF GenNext, GenFunction, GenVarDecl, GenAssign, GenPartAssign, GenExprStmt,
       GenReturn, GenBreak, GenContinue, Leave, GenIf, GenElse, GenEndIf, GenLoop, GenEndLoop,
       GenEndFunction, AtStatement, ListEnd
  <1> QED BY <1>1, <1>2, <1>3, GenPlace, SimpleCode, IfAdds, LoopAdds, ListEndAdds, FunctionAdds
          DEF GenNext

-----------------------------------------------------------------------------
(* The generator keeps to its function *)

(* Going on inside a function: the blocks in hand are old ones or those of  *)
(* the node just passed.                                                    *)
LEMMA PlaceMoves ==
  ASSUME PlaceInv, phase = "gen", phase' = "gen", cpc \in Nodes, Here.k # "fn",
         UNCHANGED <<prog, cfn>>, NEW j \in (cpc + 1)..Len(prog), cpc' = j,
         \A k \in (cpc + 1)..j : prog[k].k # "fn",
         DOMAIN body' = DOMAIN body \cup NewBlocks,
         ins' \in DOMAIN body', ins'[1] >= cfn,
         \A i \in 1..Len(frames') : /\ frames'[i].at >= cfn
                                    /\ Enters(frames'[i]) \subseteq DOMAIN body',
         \A a \in OpenLoops(prog, j) :
           \/ a \in OpenLoops(prog, cpc)
           \/ a = cpc /\ {<<a, "cond">>, <<a, "after">>} \subseteq DOMAIN body'
  PROVE  PlaceOK'
  <1>1. /\ cpc \in 1..Len(prog) /\ Len(prog) \in Nat /\ InsideOK /\ cfn \in 1..(cpc - 1)
        /\ DOMAIN body \subseteq Block
    BY NodeDepths DEF PlaceInv, NestInv, FlowInv, PlaceOK, InsideOK, TypeOK, GenTypeOK, Nodes
  <1>2. cpc \in Nat /\ j \in Nat /\ cfn \in Nat /\ cpc < j /\ cfn <= cpc /\ j \in 1..Len(prog)
    BY <1>1
  <1>3. ASSUME NEW b \in NewBlocks PROVE b[1] = cpc
    BY <1>3 DEF NewBlocks
  <1>4. ASSUME NEW b \in DOMAIN body' PROVE b[1] < j
    <2>1. CASE b \in DOMAIN body
      <3>1. b[1] < cpc /\ b[1] \in Nat
        BY <1>1, <2>1 DEF PlaceInv, PlaceOK, Block
      <3> QED BY <1>2, <3>1
    <2>2. CASE b \in NewBlocks
      BY <1>2, <1>3, <2>2
    <2> QED BY <2>1, <2>2
  <1>5. /\ cfn \in 1..(j - 1) /\ prog[cfn].k = "fn"
        /\ \A k \in (cfn + 1)..j : prog[k].k # "fn"
    <2>1. cfn \in 1..(j - 1)
      BY <1>1, <1>2
    <2>2. ASSUME NEW k \in (cfn + 1)..j PROVE prog[k].k # "fn"
      <3>1. k \in (cfn + 1)..cpc \/ k \in (cpc + 1)..j
        BY <1>2
      <3> QED BY <1>1, <3>1 DEF InsideOK
    <2> QED BY <1>1, <2>1, <2>2 DEF InsideOK
  <1>6. ASSUME NEW a \in OpenLoops(prog, j)
        PROVE  a >= cfn /\ {<<a, "cond">>, <<a, "after">>} \subseteq DOMAIN body'
    <2>1. CASE a \in OpenLoops(prog, cpc)
      BY <1>1, <2>1 DEF InsideOK
    <2>2. CASE a = cpc /\ {<<a, "cond">>, <<a, "after">>} \subseteq DOMAIN body'
      BY <1>2, <2>2
    <2> QED BY <2>1, <2>2
  <1>7. Entry' \in DOMAIN body'
    BY <1>1 DEF InsideOK, Entry
  <1>8. prog'[cpc'].k # "fn"
    BY <1>2
  <1>9. InsideOK'
    BY <1>5, <1>6, <1>7 DEF InsideOK
  <1> QED BY <1>4, <1>8, <1>9 DEF PlaceOK, Here

(* Behind a node that is not the end of a function comes one of the same.   *)
LEMMA AheadInside ==
  ASSUME PlaceInv, phase = "gen", cpc \in Nodes, Here.k # "endfn"
  PROVE  /\ cpc + 1 \in (cpc + 1)..Len(prog) /\ cpc + 1 \in Nodes
         /\ \A k \in (cpc + 1)..(cpc + 1) : prog[k].k # "fn"
  <1>1. TypeOK /\ TreeOK
    BY DEF PlaceInv, NestInv, FlowInv
  <1>2. cpc + 1 \in Nodes /\ prog[cpc + 1].k # "fn"
    BY <1>1, OpenList, NextInside
  <1>3. cpc \in Nat /\ Len(prog) \in Nat
    BY <1>1, NodeDepths DEF Nodes
  <1> QED BY <1>2, <1>3 DEF Nodes

(* The statements that stay in their block, and a dead rest of a list.      *)
LEMMA SimplePlace ==
  ASSUME PlaceInv, GenNext, phase' = "gen", UNCHANGED prog,
         \/ GenVarDecl \/ GenAssign \/ GenPartAssign \/ GenExprStmt \/ GenReturn
         \/ GenBreak \/ GenContinue \/ SkipRest
  PROVE  PlaceOK'
  <1>1. Grows /\ cpc \in Nodes /\ phase = "gen" /\ cpc \in 1..Len(prog)
    BY GenerateCode DEF Nodes
  <1>2. Here.k \in Statements \ {"if", "loop"} \/ (SkipRest /\ Here.k \in Statements)
    BY DEF GenVarDecl, GenAssign, GenPartAssign, GenExprStmt, GenReturn, GenBreak, GenContinue,
           Leave, SkipRest, AtStatement, Generating, Statements, Simple
  <1>3. Here.k \notin {"fn", "endfn", "endloop"} /\ InsideOK
    BY <1>1, <1>2 DEF Statements, Simple, PlaceInv, PlaceOK
  <1>4. ASSUME NEW code, GenThrow(code) PROVE FALSE
    BY <1>4 DEF GenThrow, Throw
  <1>5. UNCHANGED <<cfn, ins, frames>> /\ (SkipRest \/ Ahead)
    BY <1>4 DEF GenVarDecl, GenAssign, GenPartAssign, GenExprStmt, GenReturn, GenBreak,
                GenContinue, Leave, SkipRest, UndeclaredUse
  <1>6. /\ DOMAIN body' = DOMAIN body \cup NewBlocks
        /\ ins' \in DOMAIN body' /\ ins'[1] >= cfn
        /\ \A i \in 1..Len(frames') : /\ frames'[i].at >= cfn
                                      /\ Enters(frames'[i]) \subseteq DOMAIN body'
    BY <1>1, <1>3, <1>5 DEF Grows, InsideOK
  <1>7. CASE SkipRest
    <2>1. PICK j \in ListEnds(cpc) : cpc' = j
      BY <1>7 DEF SkipRest
    <2>2. OpenLoops(prog, j) = OpenLoops(prog, cpc)
      BY <1>1, <1>2, SkipSameLoops DEF PlaceInv, NestInv, FlowInv, Here, Statements
    <2>3. j \in (cpc + 1)..Len(prog) /\ prog[j].k # "fn"
          /\ \A k \in cpc..(j - 1) : prog[k].d >= prog[cpc].d
      BY <1>1, <1>2, ListEndInside DEF PlaceInv, NestInv, FlowInv, ListEnds
    <2>4. cpc \in Nat /\ \A k \in 1..Len(prog) : prog[k].d \in Nat
      BY <1>1, NodeDepths DEF PlaceInv, NestInv, FlowInv
    <2>5. Here.d >= 1
      <3>1. Level(Here) # 0 /\ Here.k \notin Closers
        BY <1>1, <1>2, <1>3 DEF PlaceInv, NestInv, FlowInv, TreeOK, Here, Statements, Simple, Closers
      <3> QED BY <1>1, <2>4, <3>1 DEF Level, Here
    <2>6. ASSUME NEW k \in (cpc + 1)..j PROVE prog[k].k # "fn"
      <3>1. CASE k = j
        BY <2>3, <3>1
      <3>2. CASE k \in cpc..(j - 1)
        <4>1. k \in 1..Len(prog) /\ prog[k].d >= 1
          BY <1>1, <2>3, <2>4, <2>5, <3>2 DEF Here
        <4>2. Level(prog[k]) # 0
          BY <2>4, <4>1 DEF Level
        <4> QED BY <4>1, <4>2 DEF PlaceInv, NestInv, FlowInv, TreeOK, Nodes
      <3> QED BY <2>3, <2>4, <3>1, <3>2
    <2> QED BY <1>1, <1>3, <1>5, <1>6, <2>1, <2>2, <2>3, <2>6, PlaceMoves
  <1>8. CASE Here.k \in Statements \ {"if", "loop"} /\ Ahead
    <2>1. OpenLoops(prog, cpc + 1) = OpenLoops(prog, cpc)
      BY <1>1, <1>3, <1>8, PassNode DEF PlaceInv, NestInv, FlowInv, Here
    <2>2. cpc' = cpc + 1
      BY <1>8 DEF Ahead
    <2> QED BY <1>1, <1>3, <1>5, <1>6, <2>1, <2>2, AheadInside, PlaceMoves
  <1> QED BY <1>2, <1>5, <1>7, <1>8

(* A new activation of genIf or genLoop enters blocks of its own.           *)
LEMMA PushPlace ==
  ASSUME PlaceInv, GenNext, phase' = "gen", UNCHANGED prog, GenIf \/ GenLoop
  PROVE  PlaceOK'
  <1>1. Grows /\ cpc \in Nodes /\ phase = "gen" /\ cpc \in 1..Len(prog)
    BY GenerateCode DEF Nodes
  <1>2. /\ Here.k \in {"if", "loop"} /\ ~Skipping
        /\ Here.k = "if" <=> GenIf
        /\ Here.k = "loop" <=> GenLoop
    BY DEF GenIf, GenLoop, AtStatement, Generating, Skipping
  <1>3. InsideOK /\ cpc \in Nat /\ cfn \in 1..(cpc - 1) /\ frames \in Seq(Frame)
    BY <1>1, <1>2, NodeDepths DEF PlaceInv, NestInv, FlowInv, PlaceOK, InsideOK, TypeOK, GenTypeOK
  <1>4. ASSUME NEW code, GenThrow(code) PROVE FALSE
    BY <1>4 DEF GenThrow, Throw
  <1>5. /\ UNCHANGED cfn /\ cpc' = cpc + 1
        /\ GenIf => ins' = <<cpc, "then">> /\ Push("then")
        /\ GenLoop => ins' = <<cpc, "body">> /\ Push("loop")
    BY <1>4 DEF GenIf, GenLoop, UndeclaredUse, Ahead
  <1>6. /\ DOMAIN body' = DOMAIN body \cup NewBlocks
        /\ GenIf => NewBlocks = {<<cpc, "then">>, <<cpc, "else">>, <<cpc, "merge">>}
        /\ GenLoop => NewBlocks = {<<cpc, "cond">>, <<cpc, "body">>, <<cpc, "after">>}
    <2>1. DOMAIN body' = DOMAIN body \cup NewBlocks
      BY <1>1 DEF Grows
    <2>2. CASE Here.k = "if"
      BY <1>2, <2>1, <2>2 DEF NewBlocks
    <2>3. CASE Here.k = "loop"
      BY <1>2, <2>1, <2>3 DEF NewBlocks
    <2> QED BY <1>2, <2>2, <2>3
  <1>7. ins' \in DOMAIN body' /\ ins'[1] >= cfn
    BY <1>2, <1>3, <1>5, <1>6
  <1>8. ASSUME NEW k \in {"then", "loop"}, Push(k), k = IF GenIf THEN "then" ELSE "loop"
        PROVE  \A i \in 1..Len(frames') : /\ frames'[i].at >= cfn
                                          /\ Enters(frames'[i]) \subseteq DOMAIN body'
    <2> DEFINE f == [k |-> k, at |-> cpc]
    <2>1. f \in Frame /\ frames' = Append(frames, f)
      BY <1>3, <1>8 DEF Push, Frame
    <2>2. f.at >= cfn /\ Enters(f) \subseteq DOMAIN body'
      <3>1. CASE GenIf
        <4>1. Enters(f) = {<<cpc, "else">>, <<cpc, "merge">>}
          BY <1>8, <3>1 DEF Enters, Pending
        <4> QED BY <1>3, <1>6, <3>1, <4>1
      <3>2. CASE GenLoop /\ ~GenIf
        <4>1. Enters(f) = {<<cpc, "after">>, <<cpc, "cond">>}
          BY <1>8, <3>2 DEF Enters, Pending
        <4> QED BY <1>3, <1>6, <3>2, <4>1
      <3> QED BY <3>1, <3>2
    <2> HIDE DEF f
    <2>3. PICK n \in Nat : n = Len(frames)
      BY <1>3, LenProperties
    <2>4. /\ Len(frames') = n + 1 /\ frames'[n + 1] = f
          /\ \A i \in 1..n : frames'[i] = frames[i]
      BY <1>3, <2>1, <2>3, AppendProperties
    <2>5. ASSUME NEW i \in 1..(n + 1)
          PROVE  frames'[i].at >= cfn /\ Enters(frames'[i]) \subseteq DOMAIN body'
      <3>1. CASE i \in 1..n
        <4>1. frames[i].at >= cfn /\ Enters(frames[i]) \subseteq DOMAIN body
          BY <1>3, <2>3, <3>1 DEF InsideOK
        <4> QED BY <1>6, <2>4, <3>1, <4>1
      <3>2. CASE i = n + 1
        BY <2>2, <2>4, <3>2
      <3> QED BY <3>1, <3>2
    <2> QED BY <2>4, <2>5
  <1>9. \A i \in 1..Len(frames') : /\ frames'[i].at >= cfn
                                   /\ Enters(frames'[i]) \subseteq DOMAIN body'
    BY <1>2, <1>5, <1>8
  <1>10. \A a \in OpenLoops(prog, cpc + 1) :
           \/ a \in OpenLoops(prog, cpc)
           \/ a = cpc /\ {<<a, "cond">>, <<a, "after">>} \subseteq DOMAIN body'
    <2>1. TypeOK /\ TreeOK /\ MatchOK /\ prog[cpc].k = Here.k
      BY DEF PlaceInv, NestInv, FlowInv, Here
    <2>2. CASE Here.k = "if"
      <3>1. OpenLoops(prog, cpc + 1) = OpenLoops(prog, cpc)
        BY <1>1, <2>1, <2>2, PassNode
      <3> QED BY <3>1
    <2>3. CASE Here.k = "loop"
      <3>1. OpenLoops(prog, cpc + 1) = OpenLoops(prog, cpc) \cup {cpc}
        BY <1>1, <2>1, <2>3, PassLoop
      <3>2. {<<cpc, "cond">>, <<cpc, "after">>} \subseteq DOMAIN body'
        BY <1>2, <1>6, <2>3
      <3> QED BY <3>1, <3>2
    <2> QED BY <1>2, <2>2, <2>3
  <1>11. Here.k # "fn" /\ Here.k # "endfn"
    BY <1>2
  <1> QED BY <1>1, <1>5, <1>6, <1>7, <1>9, <1>10, <1>11, AheadInside, PlaceMoves

(* The end of a list enters a block that its activation spoke of.           *)
LEMMA PopPlace ==
  ASSUME PlaceInv, GenNext, phase' = "gen", UNCHANGED prog, GenElse \/ GenEndIf \/ GenEndLoop
  PROVE  PlaceOK'
  <1>1. Grows /\ cpc \in Nodes /\ phase = "gen" /\ cpc \in 1..Len(prog)
    BY GenerateCode DEF Nodes
  <1>2. Here.k \in {"else", "endif", "endloop"} /\ frames # <<>>
    BY DEF GenElse, GenEndIf, GenEndLoop, ListEnd, Generating
  <1>3. InsideOK /\ cpc \in Nat /\ cfn \in 1..(cpc - 1) /\ frames \in Seq(Frame)
    BY <1>1, <1>2, NodeDepths DEF PlaceInv, NestInv, FlowInv, PlaceOK, InsideOK, TypeOK, GenTypeOK
  <1>4. PICK n \in Nat : n = Len(frames)
    BY <1>3, LenProperties
  <1>5. /\ n >= 1 /\ Last(frames) = frames[n] /\ Last(frames) \in Frame
        /\ Front(frames) \in Seq(Frame) /\ Len(Front(frames)) = n - 1
        /\ \A i \in 1..(n - 1) : Front(frames)[i] = frames[i]
    BY <1>2, <1>3, <1>4, FrontFacts DEF Last
  <1>6. PICK f \in Frame : f = Last(frames) /\ f.at >= cfn /\ Enters(f) \subseteq DOMAIN body
    BY <1>3, <1>4, <1>5 DEF InsideOK
  <1>7. DOMAIN body \subseteq DOMAIN body' /\ DOMAIN body' = DOMAIN body \cup NewBlocks
    BY <1>1 DEF Grows
  <1>8. \A i \in 1..(n - 1) : /\ Front(frames)[i].at >= cfn
                              /\ Enters(Front(frames)[i]) \subseteq DOMAIN body'
    <2>1. \A i \in 1..(n - 1) : i \in 1..Len(frames)
      BY <1>4
    <2> QED BY <1>3, <1>5, <1>7, <2>1 DEF InsideOK
  <1>9. cpc' = cpc + 1 /\ UNCHANGED cfn
    BY DEF GenElse, GenEndIf, GenEndLoop, Ahead
  <1>10. /\ ins' \in DOMAIN body' /\ ins'[1] >= cfn
         /\ \A i \in 1..Len(frames') : /\ frames'[i].at >= cfn
                                       /\ Enters(frames'[i]) \subseteq DOMAIN body'
    <2>1. CASE GenElse
      <3> DEFINE g == [k |-> "else", at |-> f.at]
      <3>1. f.k = "then" /\ ins' = <<f.at, "else">> /\ frames' = Append(Front(frames), g)
        BY <1>6, <2>1 DEF GenElse, ListEnd
      <3>2. Enters(f) = {<<f.at, "else">>, <<f.at, "merge">>}
        BY <3>1 DEF Enters, Pending
      <3>3. g \in Frame /\ g.at = f.at /\ Enters(g) = {<<f.at, "merge">>}
        BY DEF Frame, Enters, Pending
      <3> HIDE DEF g
      <3>4. /\ Len(frames') = n - 1 + 1 /\ frames'[n - 1 + 1] = g
            /\ \A i \in 1..(n - 1) : frames'[i] = Front(frames)[i]
        BY <1>5, <3>1, <3>3, AppendProperties
      <3>5. ASSUME NEW i \in 1..Len(frames')
            PROVE  frames'[i].at >= cfn /\ Enters(frames'[i]) \subseteq DOMAIN body'
        <4>1. CASE i \in 1..(n - 1)
          BY <1>8, <3>4, <4>1
        <4>2. CASE i = n - 1 + 1
          BY <1>6, <1>7, <3>2, <3>3, <3>4, <4>2
        <4> QED BY <1>4, <3>4, <4>1, <4>2
      <3>6. ins' \in DOMAIN body' /\ ins'[1] >= cfn
        BY <1>6, <1>7, <3>1, <3>2
      <3> QED BY <3>5, <3>6
    <2>2. CASE GenEndIf
      <3>1. f.k = "else" /\ ins' = <<f.at, "merge">> /\ frames' = Front(frames)
        BY <1>6, <2>2 DEF GenEndIf, ListEnd
      <3>2. Enters(f) = {<<f.at, "merge">>}
        BY <3>1 DEF Enters, Pending
      <3> QED BY <1>5, <1>6, <1>7, <1>8, <3>1, <3>2
    <2>3. CASE GenEndLoop
      <3>1. f.k = "loop" /\ ins' = <<f.at, "after">> /\ frames' = Front(frames)
        BY <1>6, <2>3 DEF GenEndLoop, ListEnd
      <3>2. <<f.at, "after">> \in Enters(f)
        BY <3>1 DEF Enters, Pending
      <3> QED BY <1>5, <1>6, <1>7, <1>8, <3>1, <3>2
    <2> QED BY <2>1, <2>2, <2>3
  <1>11. OpenLoops(prog, cpc + 1) \subseteq OpenLoops(prog, cpc)
    <2>1. TypeOK /\ TreeOK /\ MatchOK /\ prog[cpc].k = Here.k
      BY DEF PlaceInv, NestInv, FlowInv, Here
    <2>2. CASE Here.k # "endloop"
      BY <1>1, <1>2, <2>1, <2>2, PassNode
    <2>3. CASE Here.k = "endloop"
      BY <1>1, <2>1, <2>3, PassEndLoop
    <2> QED BY <2>2, <2>3
  <1>12. Here.k # "fn" /\ Here.k # "endfn"
    BY <1>2
  <1> QED BY <1>1, <1>7, <1>9, <1>10, <1>11, <1>12, AheadInside, PlaceMoves

(* No loop is open where a function starts or has ended.                    *)
LEMMA NoLoopOutside ==
  ASSUME TypeOK, TreeOK, NEW i \in 1..Len(prog), prog[i].k = "fn"
  PROVE  OpenLoops(prog, i) = {}
  <1>1. Level(prog[i]) = 0
    BY DEF TreeOK, Nodes
  <1>2. ASSUME NEW a \in OpenLoops(prog, i) PROVE FALSE
    <2>1. Opens(prog, a, i) /\ a \in 1..Len(prog)
      BY DEF OpenLoops
    <2>2. Level(prog[i]) >= prog[a].d + 1 /\ prog[a].d \in Nat
      BY <2>1, OpensBelow, NodeDepths
    <2> QED BY <1>1, <2>2
  <1> QED BY <1>2

(* defineFn puts the generator into a function of its own, with nothing     *)
(* left of the one before, and leaves it at its end.                        *)
LEMMA FunctionPlace ==
  ASSUME PlaceInv, GenNext, phase' = "gen", UNCHANGED prog, GenFunction \/ GenEndFunction
  PROVE  PlaceOK'
  <1>1. Grows /\ cpc \in Nodes /\ phase = "gen" /\ cpc \in 1..Len(prog)
    BY GenerateCode DEF Nodes
  <1>2. /\ TypeOK /\ TreeOK /\ MatchOK /\ PlaceOK /\ cpc \in Nat /\ Len(prog) \in Nat
        /\ DOMAIN body \subseteq Block
    BY <1>1, NodeDepths DEF PlaceInv, NestInv, FlowInv, TypeOK, GenTypeOK
  <1>3. DOMAIN body' = DOMAIN body \cup NewBlocks
    BY <1>1 DEF Grows
  <1>4. cpc' = cpc + 1
    BY DEF GenFunction, GenEndFunction, GenThrow, Throw, Ahead
  <1>5. ASSUME NEW b \in DOMAIN body' PROVE b[1] < cpc'
    <2>1. CASE b \in DOMAIN body
      <3>1. b[1] < cpc /\ b[1] \in Nat
        BY <1>1, <1>2, <2>1 DEF PlaceOK, Block
      <3> QED BY <1>2, <1>4, <3>1
    <2>2. CASE b \in NewBlocks
      <3>1. b[1] = cpc
        BY <2>2 DEF NewBlocks
      <3> QED BY <1>2, <1>4, <3>1
    <2> QED BY <1>3, <2>1, <2>2
  <1>6. CASE GenFunction
    <2>1. /\ Here.k = "fn" /\ cfn' = cpc /\ ins' = <<cpc, "entry">> /\ UNCHANGED frames
          /\ prog[cpc].k = "fn"
      BY <1>6 DEF GenFunction, Generating, Here
    <2>2. frames = <<>>
      BY <1>1, <1>2, <2>1 DEF PlaceOK
    <2>3. NewBlocks = {<<cpc, "entry">>}
      BY <2>1 DEF NewBlocks, Skipping, Statements, Simple
    <2>4. OpenLoops(prog, cpc + 1) = {}
      BY <1>1, <1>2, <2>1, PassNode, NoLoopOutside
    <2>5. prog[cpc + 1].k # "fn"
      BY <1>1, <2>1, <1>2, AheadInside
    <2>6. cfn' \in 1..(cpc' - 1) /\ \A k \in (cfn' + 1)..cpc' : prog[k].k # "fn"
      BY <1>1, <1>2, <1>4, <2>1, <2>5
    <2>7. ins' \in DOMAIN body' /\ ins'[1] >= cfn' /\ Entry' \in DOMAIN body'
      BY <1>2, <1>3, <2>1, <2>3 DEF Entry
    <2>8. Len(frames') = 0
      BY <2>1, <2>2
    <2>9. InsideOK'
      BY <1>4, <2>1, <2>4, <2>6, <2>7, <2>8 DEF InsideOK
    <2>10. prog'[cpc'].k # "fn"
      BY <1>4, <2>5
    <2> QED BY <1>5, <2>9, <2>10 DEF PlaceOK, Here
  <1>7. CASE GenEndFunction
    <2>1. Here.k = "endfn" /\ frames = <<>> /\ UNCHANGED frames
      BY <1>7 DEF GenEndFunction, Generating, GenThrow, Throw
    <2>2. ASSUME cpc + 1 \in 1..Len(prog) PROVE prog[cpc + 1].k = "fn"
      <3>1. Level(prog[cpc + 1]) = Inner(prog[cpc + 1 - 1])
        <4>1. cpc + 1 # 1
          BY <1>1, <1>2
        <4> QED BY <1>2, <2>2, <4>1 DEF TreeOK, Nodes
      <3>2. prog[cpc + 1 - 1] = Here /\ Here.d = 0
        BY <1>1, <1>2, <2>1 DEF TreeOK, Here, Closers
      <3>3. Inner(Here) = 0
        BY <2>1, <3>2 DEF Inner, Openers
      <3> QED BY <2>2, <3>1, <3>2, <3>3, <1>2 DEF TreeOK, Nodes
    <2>3. phase' = "gen" /\ cpc' \in Nodes' => Here'.k = "fn" /\ frames' = <<>>
      BY <1>4, <2>1, <2>2 DEF Nodes, Here
    <2> QED BY <1>5, <2>3 DEF PlaceOK
  <1> QED BY <1>6, <1>7

(* Every action of the generator keeps to its function.                     *)
LEMMA GeneratePlace ==
  ASSUME PlaceInv, GenNext, UNCHANGED prog, phase' \in {"gen", "done", "failed"}
  PROVE  PlaceOK'
  <1>1. CASE phase' # "gen"
    BY <1>1 DEF PlaceOK
  <1>2. CASE phase' = "gen"
    <2>1. ~GenDone
      BY <1>2 DEF GenDone
    <2> QED BY <1>2, <2>1, SimplePlace, PushPlace, PopPlace, FunctionPlace DEF GenNext
  <1> QED BY <1>1, <1>2

(* The invariant holds before anything is parsed.                           *)
LEMMA PlaceInit == Init => PlaceInv
  <1> SUFFICES ASSUME Init PROVE PlaceInv
    OBVIOUS
  <1>1. NestInv
    BY NestInit
  <1>2. PlaceOK
    BY DEF Init, GenInit, PlaceOK
  <1> QED BY <1>1, <1>2 DEF PlaceInv

(* Every step of the compiler keeps it.                                     *)
LEMMA PlaceStep == PlaceInv /\ [Next]_vars => PlaceInv'
  <1> SUFFICES ASSUME PlaceInv, [Next]_vars PROVE PlaceInv'
    OBVIOUS
  <1>1. NestInv /\ NestInv' /\ TypeOK /\ TreeOK /\ Len(prog) \in Nat
    BY NestStep, NodeDepths DEF PlaceInv, NestInv, FlowInv
  <1>2. CASE Parse
    <2>1. phase = "parse" /\ phase' \in {"parse", "check", "failed"} /\ frames' = frames
      BY <1>2, Stage DEF genVars
    <2> QED BY <1>1, <2>1 DEF PlaceInv, PlaceOK
  <1>3. CASE Check
    <2>1. /\ phase = "check" /\ phase' \in {"check", "gen", "failed"}
          /\ UNCHANGED <<prog, cpc, frames, body>>
      BY <1>3, Stage DEF genVars, parserVars
    <2>2. cpc = 1 /\ DOMAIN body = {} /\ frames = <<>>
      BY <1>1, <2>1 DEF PlaceInv, PlaceOK, NestInv, StackOK, FlowInv, WalkOK
    <2>3. 1 \in Nodes => prog[1].k = "fn"
      BY <1>1 DEF TreeOK, Nodes
    <2>4. PlaceOK'
      BY <2>1, <2>2, <2>3 DEF PlaceOK, Nodes, Here
    <2> QED BY <1>1, <2>4 DEF PlaceInv
  <1>4. CASE Generate
    <2>1. GenNext /\ phase' \in {"gen", "done", "failed"} /\ UNCHANGED prog
      BY <1>4, Stage DEF Generate, parserVars
    <2> QED BY <1>1, <2>1, GeneratePlace DEF PlaceInv
  <1>5. CASE UNCHANGED vars
    <2>1. PlaceOK'
      BY <1>5 DEF PlaceInv, PlaceOK, InsideOK, Entry, Here, Nodes, vars
    <2> QED BY <1>1, <2>1 DEF PlaceInv
  <1> QED BY <1>2, <1>3, <1>4, <1>5 DEF Next, Finished

(* The inductive invariant holds throughout a compilation.                  *)
THEOREM PlaceCorrect == Spec => []PlaceInv
  BY PlaceInit, PlaceStep, PTL DEF Spec

-----------------------------------------------------------------------------
(* Where the new branches go *)

(* What a branch may branch to ...                                          *)
LEMMA BranchTargets ==
  ASSUME NEW u, NEW b, NEW c
  PROVE  Targets(Br(b)) = {b} /\ Targets(CondBr(u, b, c)) = {b, c}
  <1>1. ASSUME NEW x, x.to = <<b>> PROVE Targets(x) = {b}
    BY <1>1 DEF Targets
  <1>2. ASSUME NEW x, x.to = <<b, c>> PROVE Targets(x) = {b, c}
    <2>1. Len(x.to) = 2 /\ x.to[1] = b /\ x.to[2] = c /\ 1..2 = {1, 2}
      BY <1>2
    <2> QED BY <2>1 DEF Targets
  <1>3. Br(b).to = <<b>> /\ CondBr(u, b, c).to = <<b, c>>
    BY DEF Br, CondBr, I
  <1> QED BY <1>1, <1>2, <1>3

(* ... and the other instructions, nothing.                                 *)
LEMMA TargetsOf ==
  ASSUME NEW v, NEW u
  PROVE  /\ Targets(Alloca(v)) = {} /\ Targets(Load(v)) = {} /\ Targets(Store(v, u)) = {}
         /\ Targets(StorePart(v, u)) = {} /\ Targets(Call(u)) = {} /\ Targets(Ret(u)) = {}
  <1>1. ASSUME NEW x, x.to = <<>> PROVE Targets(x) = {}
    BY <1>1 DEF Targets
  <1>2. /\ Alloca(v).to = <<>> /\ Load(v).to = <<>> /\ Store(v, u).to = <<>>
        /\ StorePart(v, u).to = <<>> /\ Call(u).to = <<>> /\ Ret(u).to = <<>>
    BY DEF Alloca, Load, Store, StorePart, Call, Ret, I
  <1> QED BY <1>1, <1>2

(* Every node from the header of a function to where the walk is inside it  *)
(* belongs to that function.                                                *)
LEMMA FunctionOfInside ==
  ASSUME NEW f \in Nat, f # 0, prog[f].k = "fn", NEW n \in Nat, \A k \in (f + 1)..n : prog[k].k # "fn",
         NEW i \in f..n
  PROVE  FunctionOf(i) = f
  <1> DEFINE P(g) == prog[g].k = "fn" /\ \A k \in (g + 1)..i : prog[k].k # "fn"
  <1>1. f \in 1..i /\ P(f)
    OBVIOUS
  <1>2. ASSUME NEW g \in 1..i, P(g) PROVE g = f
    <2>1. CASE g < f
      <3>1. f \in (g + 1)..i
        BY <2>1
      <3> QED BY <1>2, <3>1
    <2>2. CASE g > f
      <3>1. g \in (f + 1)..n
        BY <2>2
      <3> QED BY <1>2, <3>1
    <2> QED BY <2>1, <2>2
  <1>3. FunctionOf(i) = CHOOSE g \in 1..i : P(g)
    BY DEF FunctionOf
  <1> HIDE DEF P
  <1> QED BY <1>1, <1>2, <1>3

(* The top of a stack of loops is the innermost of them.                    *)
LEMMA StackTop ==
  ASSUME NEW T, NEW ls \in Seq(T), NEW S, Stacked(ls, S), S \subseteq Nat, ls # <<>>
  PROVE  \E a \in S : Last(ls) = LoopInfo(a) /\ \A c \in S : c <= a
  <1>1. PICK n \in Nat : n = Len(ls) /\ n # 0
    BY LenProperties, EmptySeq
  <1>2. PICK a \in S : ls[n] = LoopInfo(a)
    BY <1>1 DEF Stacked
  <1>3. \A c \in S : LoopInfo(c).breakBB[1] = c
    BY DEF LoopInfo
  <1>4. ASSUME NEW c \in S PROVE c <= a
    <2>1. PICK j \in 1..n : ls[j] = LoopInfo(c)
      BY <1>1 DEF Stacked
    <2>2. CASE j = n
      <3>1. LoopInfo(c).breakBB[1] = LoopInfo(a).breakBB[1]
        BY <1>2, <2>1, <2>2
      <3> QED BY <1>3, <3>1
    <2>3. CASE j < n
      <3>1. n \in 1..n /\ j \in 1..n
        BY <1>1
      <3>2. ls[j].breakBB[1] < ls[n].breakBB[1]
        BY <1>1, <2>3, <3>1 DEF Stacked
      <3>3. c < a
        BY <1>2, <1>3, <2>1, <3>2
      <3> QED BY <3>3
    <2> QED BY <1>1, <2>2, <2>3
  <1> QED BY <1>1, <1>2, <1>4 DEF Last

(* Which activation a list end resumes, and that stop and cont have a loop. *)
LEMMA ActionAt ==
  ASSUME GenNext, phase' = "gen"
  PROVE  /\ Here.k = "else" => frames # <<>> /\ Last(frames).k = "then"
         /\ Here.k = "endif" => frames # <<>> /\ Last(frames).k = "else"
         /\ Here.k = "endloop" => frames # <<>> /\ Last(frames).k = "loop"
         /\ Here.k \in {"stop", "cont"} /\ ~Skipping => loopStack # <<>>
  <1>1. ASSUME NEW code, GenThrow(code) PROVE FALSE
    BY <1>1 DEF GenThrow, Throw
  <1>2. ~GenDone
    BY DEF GenDone
  <1>3. /\ SkipRest => Here.k \in Statements /\ Skipping
        /\ GenFunction => Here.k = "fn"
        /\ GenVarDecl => Here.k = "decl"
        /\ GenAssign => Here.k = "assign"
        /\ GenPartAssign => Here.k = "part"
        /\ GenExprStmt => Here.k = "expr"
        /\ GenReturn => Here.k = "ret"
        /\ GenIf => Here.k = "if"
        /\ GenLoop => Here.k = "loop"
        /\ GenEndFunction => Here.k = "endfn"
    BY DEF SkipRest, GenFunction, GenVarDecl, GenAssign, GenPartAssign, GenExprStmt, GenReturn,
           GenIf, GenLoop, GenEndFunction, AtStatement, Generating, Skipping
  <1>4. /\ GenBreak => Here.k = "stop" /\ loopStack # <<>>
        /\ GenContinue => Here.k = "cont" /\ loopStack # <<>>
    BY <1>1 DEF GenBreak, GenContinue, Leave, AtStatement, Generating
  <1>5. /\ GenElse => Here.k = "else" /\ frames # <<>> /\ Last(frames).k = "then"
        /\ GenEndIf => Here.k = "endif" /\ frames # <<>> /\ Last(frames).k = "else"
        /\ GenEndLoop => Here.k = "endloop" /\ frames # <<>> /\ Last(frames).k = "loop"
    BY DEF GenElse, GenEndIf, GenEndLoop, ListEnd, Generating
  <1> QED BY <1>2, <1>3, <1>4, <1>5 DEF GenNext, Statements, Simple

(* What a node adds it adds to blocks of the function it is in, and it      *)
(* branches to blocks of the same function.                                 *)
LEMMA NewCodeLocal ==
  ASSUME PlaceInv, GenNext, phase' = "gen", Here.k # "fn", NEW b, NEW x, <<b, x>> \in NewCode
  PROVE  /\ b \in {ins, Entry, <<cpc, "cond">>} /\ b[1] \in cfn..cpc /\ x.at = cpc
         /\ \A t \in Targets(x) : /\ t \in DOMAIN body \cup NewBlocks /\ t[2] # "entry"
                                  /\ t[1] \in cfn..cpc
  <1>1. Grows /\ cpc \in Nodes /\ phase = "gen" /\ cpc \in 1..Len(prog)
    BY GenerateCode DEF Nodes
  <1>2. /\ InsideOK /\ cpc \in Nat /\ cfn \in 1..(cpc - 1) /\ frames \in Seq(Frame)
        /\ cfn \in Nat /\ cfn <= cpc /\ TypeOK
    BY <1>1, NodeDepths DEF PlaceInv, NestInv, FlowInv, PlaceOK, InsideOK, TypeOK, GenTypeOK
  <1>3. ins[1] \in cfn..cpc /\ Entry[1] \in cfn..cpc /\ cpc \in cfn..cpc
    <2>1. ins[1] \in Nat /\ ins[1] < cpc /\ ins[1] >= cfn
      BY <1>2 DEF PlaceInv, NestInv, FlowInv, WalkOK, TypeOK, GenTypeOK, Block, InsideOK
    <2> QED BY <1>2, <2>1 DEF Entry
  <1> DEFINE Good(c, y) ==
        /\ c \in {ins, Entry, <<cpc, "cond">>} /\ c[1] \in cfn..cpc /\ y.at = cpc
        /\ \A t \in Targets(y) : t \in DOMAIN body \cup NewBlocks /\ t[2] # "entry" /\ t[1] \in cfn..cpc
  <1>4. ~Skipping
    BY DEF NewCode
  <1>t. \A u, c, d : Targets(CondBr(u, c, d)) = {c, d} /\ Targets(Br(c)) = {c}
    BY BranchTargets
  <1>5. \A v, u, c, d : /\ Alloca(v).at = cpc /\ Load(v).at = cpc /\ Store(v, u).at = cpc
                        /\ StorePart(v, u).at = cpc /\ Call(u).at = cpc /\ Br(c).at = cpc
                        /\ CondBr(u, c, d).at = cpc /\ Ret(u).at = cpc
    BY DEF Alloca, Load, Store, StorePart, Call, Br, CondBr, Ret, I
  <1>6. ASSUME NEW c \in {ins, Entry, <<cpc, "cond">>}, NEW y, y.at = cpc, Targets(y) = {}
        PROVE  Good(c, y)
    BY <1>3, <1>6
  <1>7. ASSUME NEW c \in {ins, <<cpc, "cond">>}, NEW u, <<b, x>> \in ExprCode(c, u)
        PROVE  Good(b, x)
    <2>1. \/ b = c /\ (x = Load(u) \/ x = Call(u))
          \/ b = Entry /\ x = Alloca(None)
      BY <1>7 DEF ExprCode
    <2>2. Targets(x) = {} /\ x.at = cpc
      BY <1>5, <2>1, TargetsOf
    <2> QED BY <1>6, <1>7, <2>1, <2>2
  <1>8. CASE Here.k \in {"decl", "assign", "part", "expr", "ret"}
    <2>1. \/ <<b, x>> \in ExprCode(ins, Here.u)
          \/ b = Entry /\ x = Alloca(Here.v)
          \/ b = ins /\ \/ x = Store(Here.v, Here.u)
                        \/ x = StorePart(Here.v, Here.u)
                        \/ x = Ret(Here.u)
      <3>1. CASE Here.k = "decl"
        BY <1>4, <3>1 DEF NewCode
      <3>2. CASE Here.k = "assign"
        BY <1>4, <3>2 DEF NewCode
      <3>3. CASE Here.k = "part"
        BY <1>4, <3>3 DEF NewCode
      <3>4. CASE Here.k = "expr"
        BY <1>4, <3>4 DEF NewCode
      <3>5. CASE Here.k = "ret"
        BY <1>4, <3>5 DEF NewCode
      <3> QED BY <1>8, <3>1, <3>2, <3>3, <3>4, <3>5
    <2> QED BY <1>5, <1>6, <1>7, <2>1, TargetsOf
  <1>9. CASE Here.k \in {"stop", "cont"}
    <2> DEFINE t == Last(loopStack)[IF Here.k = "stop" THEN "breakBB" ELSE "continueBB"]
    <2>1. b = ins /\ x = Br(t)
      BY <1>4, <1>9 DEF NewCode, LeaveCode
    <2>2. loopStack # <<>>
      BY <1>4, <1>9, ActionAt
    <2>3. PICK a \in OpenLoops(prog, cpc) : Last(loopStack) = LoopInfo(a)
      <3>1. /\ loopStack \in Seq([continueBB : Block, breakBB : Block])
            /\ Stacked(loopStack, OpenLoops(prog, cpc)) /\ OpenLoops(prog, cpc) \subseteq Nat
        BY <1>1, <1>2, OpenLoopsFinite DEF PlaceInv, NestInv, StackOK, TypeOK, GenTypeOK
      <3> QED BY <2>2, <3>1, StackTop
    <2>4. t \in {<<a, "cond">>, <<a, "after">>}
      BY <2>3 DEF LoopInfo
    <2> HIDE DEF t
    <2>5. a \in cfn..cpc /\ {<<a, "cond">>, <<a, "after">>} \subseteq DOMAIN body
      BY <1>2, <2>3, OpenLoopsFinite DEF InsideOK
    <2>6. t \in DOMAIN body /\ t[2] # "entry" /\ t[1] \in cfn..cpc
      BY <2>4, <2>5
    <2>7. Targets(x) = {t}
      BY <1>t, <2>1
    <2> QED BY <1>3, <1>5, <2>1, <2>6, <2>7
  <1>10. CASE Here.k = "if"
    <2>1. \/ <<b, x>> \in ExprCode(ins, Here.u)
          \/ b = ins /\ x = CondBr(Here.u, <<cpc, "then">>, <<cpc, "else">>)
      BY <1>4, <1>10 DEF NewCode, IfCode
    <2>2. {<<cpc, "then">>, <<cpc, "else">>} \subseteq NewBlocks
      BY <1>4, <1>10 DEF NewBlocks
    <2>3. Targets(CondBr(Here.u, <<cpc, "then">>, <<cpc, "else">>)) = {<<cpc, "then">>, <<cpc, "else">>}
      BY <1>t
    <2> QED BY <1>3, <1>5, <1>7, <2>1, <2>2, <2>3
  <1>11. CASE Here.k = "loop"
    <2>1. \/ <<b, x>> \in ExprCode(<<cpc, "cond">>, Here.u)
          \/ b = ins /\ x = Br(<<cpc, "cond">>)
          \/ b = <<cpc, "cond">> /\ x = CondBr(Here.u, <<cpc, "body">>, <<cpc, "after">>)
      BY <1>4, <1>11 DEF NewCode, LoopCode
    <2>2. {<<cpc, "cond">>, <<cpc, "body">>, <<cpc, "after">>} \subseteq NewBlocks
      BY <1>4, <1>11 DEF NewBlocks
    <2>3. /\ Targets(CondBr(Here.u, <<cpc, "body">>, <<cpc, "after">>)) = {<<cpc, "body">>, <<cpc, "after">>}
          /\ Targets(Br(<<cpc, "cond">>)) = {<<cpc, "cond">>}
      BY <1>t
    <2> QED BY <1>3, <1>5, <1>7, <2>1, <2>2, <2>3
  <1>12. CASE Here.k \in {"else", "endif", "endloop"}
    <2> DEFINE f == Last(frames)
               t == <<f.at, IF Here.k = "endloop" THEN "cond" ELSE "merge">>
    <2>1. b = ins /\ x = Br(t)
      BY <1>4, <1>12 DEF NewCode, EndCode
    <2>2. frames # <<>> /\ f.k = CASE Here.k = "else" -> "then" [] Here.k = "endif" -> "else"
                                    [] Here.k = "endloop" -> "loop"
      BY <1>12, ActionAt
    <2>3. Len(frames) \in 1..Len(frames) /\ f = frames[Len(frames)] /\ f \in Frame
      BY <1>2, <2>2, FrontFacts DEF Last
    <2>4. f.at >= cfn /\ Enters(f) \subseteq DOMAIN body /\ f.at < cpc /\ f.at \in Nat
      BY <1>2, <2>3 DEF InsideOK, PlaceInv, NestInv, FlowInv, WalkOK, Frame
    <2>5. t \in Enters(f)
      <3>1. CASE Here.k = "else"
        BY <2>2, <3>1 DEF Enters, Pending
      <3>2. CASE Here.k = "endif"
        BY <2>2, <3>2 DEF Enters, Pending
      <3>3. CASE Here.k = "endloop"
        BY <2>2, <3>3 DEF Enters, Pending
      <3> QED BY <1>12, <3>1, <3>2, <3>3
    <2>6. t[1] = f.at /\ t[2] # "entry"
      OBVIOUS
    <2>7. Targets(x) = {t}
      BY <1>t, <2>1
    <2> HIDE DEF f, t
    <2> QED BY <1>2, <1>3, <1>5, <2>1, <2>4, <2>5, <2>6, <2>7
  <1>13. CASE Here.k = "endfn"
    <2>1. PICK u : b = ins /\ x = Ret(u)
      BY <1>4, <1>13 DEF NewCode, EndCode
    <2> QED BY <1>5, <1>6, <2>1, TargetsOf
  <1>14. Here \in AnyNode
    BY <1>1, <1>2, NodeDepths DEF Here
  <1> QED BY <1>8, <1>9, <1>10, <1>11, <1>12, <1>13, <1>14
          DEF AnyNode, NodeKind, Openers, Closers, Simple

-----------------------------------------------------------------------------
(* Every branch in the module *)

\* what instruction x of block b branches to, when the module has the blocks D
Goes(D, b, x) ==
  \A t \in Targets(x) : t \in D /\ t[2] # "entry" /\ FunctionOf(t[1]) = FunctionOf(b[1])

\* and when it is that of a stop or a cont
Exits(x) ==
  x.k = "br" /\ prog[x.at].k \in {"stop", "cont"} =>
    x.to = << <<InnermostLoop(x.at), IF prog[x.at].k = "stop" THEN "after" ELSE "cond">> >>

BranchOK == \A b, x : Holds(body, b, x) => Goes(DOMAIN body, b, x) /\ Exits(x)

BranchInv == PlaceInv /\ BranchOK

(* A tree that stays as it is has the same functions and loops.             *)
LEMMA SameTree ==
  ASSUME prog' = prog
  PROVE  /\ \A i : FunctionOf(i)' = FunctionOf(i)
         /\ \A i : InnermostLoop(i)' = InnermostLoop(i)
  <1>1. \A i : FunctionOf(i)' = FunctionOf(i)
    BY DEF FunctionOf
  <1>2. \A i : LoopsAround(i)' = LoopsAround(i)
    BY DEF LoopsAround, Encloses
  <1>3. \A i : InnermostLoop(i)' = InnermostLoop(i)
    BY <1>2 DEF InnermostLoop
  <1> QED BY <1>1, <1>3

(* What a node inside a function adds stays in it.                          *)
LEMMA NewCodeGoes ==
  ASSUME PlaceInv, GenNext, phase' = "gen", NEW b, NEW x, <<b, x>> \in NewCode
  PROVE  Goes(DOMAIN body \cup NewBlocks, b, x)
  <1>1. CASE Here.k = "fn"
    <2>1. x = Alloca(Here.v) \/ x = Store(Here.v, "arg")
      BY <1>1 DEF NewCode, HeadCode
    <2>2. Targets(x) = {}
      BY <2>1, TargetsOf
    <2> QED BY <2>2 DEF Goes
  <1>2. CASE Here.k # "fn"
    <2>1. /\ b[1] \in cfn..cpc
          /\ \A t \in Targets(x) : /\ t \in DOMAIN body \cup NewBlocks /\ t[2] # "entry"
                                   /\ t[1] \in cfn..cpc
      BY <1>2, NewCodeLocal
    <2>2. /\ cfn \in Nat /\ cfn # 0 /\ cpc \in Nat /\ prog[cfn].k = "fn"
          /\ \A k \in (cfn + 1)..cpc : prog[k].k # "fn"
      BY <1>2, GenerateCode, NodeDepths DEF PlaceInv, PlaceOK, InsideOK, Nodes, NestInv, FlowInv
    <2>3. \A i \in cfn..cpc : FunctionOf(i) = cfn
      BY <2>2, FunctionOfInside
    <2> QED BY <2>1, <2>3 DEF Goes
  <1> QED BY <1>1, <1>2

(* What a stop or a cont adds goes to the innermost loop around it.         *)
LEMMA NewCodeExits ==
  ASSUME PlaceInv, GenNext, phase' = "gen", NEW b, NEW x, <<b, x>> \in NewCode
  PROVE  Exits(x)
  <1>1. /\ cpc \in Nodes /\ phase = "gen" /\ cpc \in 1..Len(prog) /\ cpc \in Nat
        /\ TypeOK /\ TreeOK /\ MatchOK /\ StackOK /\ loopStack \in Seq([continueBB : Block, breakBB : Block])
    BY GenerateCode, NodeDepths DEF Nodes, PlaceInv, NestInv, FlowInv, TypeOK, GenTypeOK
  <1>2. CASE Here.k = "fn"
    <2>1. x = Alloca(Here.v) \/ x = Store(Here.v, "arg")
      BY <1>2 DEF NewCode, HeadCode
    <2>2. x.k # "br"
      BY <2>1 DEF Alloca, Store, I
    <2> QED BY <2>2 DEF Exits
  <1>3. CASE Here.k \in {"stop", "cont"}
    <2> DEFINE t == Last(loopStack)[IF Here.k = "stop" THEN "breakBB" ELSE "continueBB"]
    <2>0. ~Skipping
      BY DEF NewCode
    <2>1. x = Br(t)
      BY <1>3, <2>0 DEF NewCode, LeaveCode
    <2>2. loopStack # <<>>
      BY <1>3, <2>0, ActionAt
    <2>3. PICK a \in OpenLoops(prog, cpc) :
            Last(loopStack) = LoopInfo(a) /\ \A c \in OpenLoops(prog, cpc) : c <= a
      <3>1. /\ Stacked(loopStack, OpenLoops(prog, cpc)) /\ OpenLoops(prog, cpc) \subseteq Nat
        BY <1>1, OpenLoopsFinite DEF StackOK
      <3> QED BY <1>1, <2>2, <3>1, StackTop
    <2>4. t = <<a, IF Here.k = "stop" THEN "after" ELSE "cond">>
      BY <1>3, <2>3 DEF LoopInfo
    <2>5. LoopsAround(cpc) = OpenLoops(prog, cpc) /\ OpenLoops(prog, cpc) \subseteq Nat
      BY <1>1, <1>3, LoopsAreOpen, OpenLoopsFinite DEF Here
    <2>6. ASSUME NEW d \in LoopsAround(cpc), \A c \in LoopsAround(cpc) : c <= d
          PROVE  d = a
      <3>1. d <= a /\ a <= d /\ d \in Nat /\ a \in Nat
        BY <2>3, <2>5, <2>6
      <3> QED BY <3>1
    <2>7. InnermostLoop(cpc) = a
      BY <2>3, <2>5, <2>6 DEF InnermostLoop
    <2> HIDE DEF t
    <2>8. x.at = cpc /\ x.to = <<t>>
      BY <2>1 DEF Br, I
    <2> QED BY <2>4, <2>7, <2>8 DEF Exits, Here
  <1>4. CASE Here.k \notin {"fn", "stop", "cont"}
    <2>1. x.at = cpc
      BY <1>4, NewCodeLocal
    <2> QED BY <1>4, <2>1 DEF Exits, Here
  <1> QED BY <1>2, <1>3, <1>4

(* The blocks are the same after a step that does not go on.                *)
LEMMA StopsStill ==
  ASSUME GenNext, phase' # "gen"
  PROVE  UNCHANGED genVars
  <1>1. ASSUME NEW code, GenThrow(code) PROVE UNCHANGED genVars
    BY <1>1 DEF GenThrow
  <1>2. CASE GenDone
    BY <1>2 DEF GenDone
  <1>3. ASSUME phase = "gen", phase' = phase PROVE FALSE
    BY <1>3
  <1>4. CASE SkipRest \/ GenFunction
    BY <1>3, <1>4 DEF SkipRest, GenFunction, Generating, mainVars
  <1>5. CASE GenVarDecl \/ GenAssign \/ GenPartAssign \/ GenExprStmt \/ GenReturn
    BY <1>1, <1>3, <1>5 DEF GenVarDecl, GenAssign, GenPartAssign, GenExprStmt, GenReturn,
         UndeclaredUse, AtStatement, Generating, mainVars
  <1>6. CASE GenBreak \/ GenContinue \/ GenIf \/ GenLoop
    BY <1>1, <1>3, <1>6 DEF GenBreak, GenContinue, Leave, GenIf, GenLoop,
         UndeclaredUse, AtStatement, Generating, mainVars
  <1>7. CASE GenElse \/ GenEndIf \/ GenEndLoop \/ GenEndFunction
    BY <1>1, <1>3, <1>7 DEF GenElse, GenEndIf, GenEndLoop, GenEndFunction, ListEnd,
         Generating, mainVars
  <1> QED BY <1>2, <1>4, <1>5, <1>6, <1>7 DEF GenNext

(* Before the generator starts nothing is in any block.                     *)
LEMMA NoCodeYet ==
  ASSUME PlaceInv, phase \in {"parse", "check"}, NEW b, NEW x
  PROVE  ~Holds(body, b, x)
  BY DEF PlaceInv, NestInv, FlowInv, WalkOK, Holds

(* Every step of the compiler keeps the branches as they should be.         *)
LEMMA BranchStep == BranchInv /\ [Next]_vars => BranchInv'
  <1> SUFFICES ASSUME BranchInv, [Next]_vars PROVE BranchInv'
    OBVIOUS
  <1>1. PlaceInv /\ PlaceInv' /\ BranchOK
    BY PlaceStep DEF BranchInv
  <1>2. ASSUME phase \in {"parse", "check"}, body' = body PROVE BranchOK'
    <2>1. \A b, x : ~Holds(body', b, x)
      BY <1>1, <1>2, NoCodeYet
    <2> QED BY <2>1 DEF BranchOK
  <1>3. ASSUME prog' = prog, NEW x, Exits(x) PROVE Exits(x)'
    BY <1>3, SameTree DEF Exits
  <1>4. ASSUME prog' = prog, NEW D, NEW E, D \subseteq E, NEW b, NEW x, Goes(D, b, x)
        PROVE  Goes(E, b, x)'
    BY <1>4, SameTree DEF Goes, Targets
  <1>5. ASSUME prog' = prog, body' = body PROVE BranchOK'
    BY <1>1, <1>3, <1>4, <1>5 DEF BranchOK
  <1>6. CASE Parse \/ Check
    <2>1. phase \in {"parse", "check"} /\ body' = body
      BY <1>6, Stage DEF genVars
    <2> QED BY <1>1, <1>2, <2>1 DEF BranchInv
  <1>7. CASE Generate
    <2>1. GenNext /\ prog' = prog
      BY <1>7 DEF Generate, parserVars
    <2>2. CASE phase' # "gen"
      BY <1>1, <1>5, <2>1, <2>2, StopsStill DEF BranchInv, genVars
    <2>3. CASE phase' = "gen"
      <3>1. Grows
        BY <1>1, <2>1, <2>3, GenerateCode
      <3> PICK E : E = DOMAIN body'
        OBVIOUS
      <3>2. ASSUME NEW b, NEW x, Holds(body', b, x)
            PROVE  Goes(E, b, x)' /\ Exits(x)'
        <4>0. DOMAIN body \subseteq E /\ E = DOMAIN body \cup NewBlocks
          BY <3>1 DEF Grows
        <4>1. CASE Holds(body, b, x)
          <5>1. Goes(DOMAIN body, b, x) /\ Exits(x)
            BY <1>1, <4>1 DEF BranchOK
          <5> QED BY <1>3, <1>4, <2>1, <4>0, <5>1
        <4>2. CASE <<b, x>> \in NewCode
          <5>1. Goes(DOMAIN body \cup NewBlocks, b, x) /\ Exits(x)
            BY <1>1, <2>1, <2>3, <4>2, NewCodeGoes, NewCodeExits
          <5> QED BY <1>3, <1>4, <2>1, <4>0, <5>1
        <4> QED BY <3>1, <3>2, <4>1, <4>2 DEF Grows, Adds
      <3>3. BranchOK'
        BY <3>2 DEF BranchOK
      <3> QED BY <1>1, <3>3 DEF BranchInv
    <2> QED BY <2>2, <2>3
  <1>8. CASE Finished \/ UNCHANGED vars
    <2>1. prog' = prog /\ body' = body
      BY <1>8 DEF Finished, vars
    <2> QED BY <1>1, <1>5, <2>1 DEF BranchInv
  <1> QED BY <1>6, <1>7, <1>8 DEF Next

(* The inductive invariant holds throughout a compilation.                  *)
THEOREM BranchCorrect == Spec => []BranchInv
  <1>1. Init => BranchInv
    <2> SUFFICES ASSUME Init PROVE BranchInv
      OBVIOUS
    <2>1. PlaceInv /\ phase = "parse"
      BY PlaceInit DEF Init
    <2> QED BY <2>1, NoCodeYet DEF BranchInv, BranchOK
  <1> QED BY <1>1, BranchStep, PTL DEF Spec

(* A branch of the generator goes to a block of its own function, and never *)
(* back to the entry block, for every program: no list end of genIf or      *)
(* genLoop and no stop or cont names a block of another function.           *)
THEOREM BranchesStayLocalCorrect == Spec => []BranchesStayLocal
  <1>1. BranchInv => BranchesStayLocal
    BY DEF BranchInv, BranchOK, Holds, Goes, BranchesStayLocal
  <1> QED BY <1>1, BranchCorrect, PTL

(* stop goes behind, and cont to the test of, the innermost loop around it  *)
(* in the source, for every nesting and whatever dead code was left out.    *)
THEOREM ExitsInnermostLoopCorrect == Spec => []ExitsInnermostLoop
  <1>1. BranchInv => ExitsInnermostLoop
    BY DEF BranchInv, BranchOK, Holds, Exits, ExitsInnermostLoop
  <1> QED BY <1>1, BranchCorrect, PTL
=============================================================================
