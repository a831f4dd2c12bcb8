------------------------------ MODULE StorageProofs ------------------------------
(***************************************************************************)
(* Where the generator puts storage, for every program: each variable has  *)
(* one slot, in the entry block of its function, so no loop grows the      *)
(* stack; and a block that has its terminator is never touched again, but  *)
(* for slots in front of the entry block.                                  *)
(*                                                                         *)
(* Both are about the positions of instructions.  Safe is what every       *)
(* operation of the builder, and so every step of the generator, does to   *)
(* the blocks.                                                             *)
(***************************************************************************)
EXTENDS AgreementProofs

-----------------------------------------------------------------------------
(* What a step may do to the blocks *)

\* t is s with slots in front
Fronted(s, t) == \E n \in Nat : /\ Len(t) = n + Len(s)
                                /\ \A i \in 1..Len(s) : t[n + i] = s[i]
                                /\ \A i \in 1..n : t[i].k = "alloca"

\* the blocks that have ended stay as they are, but for slots in the entry
Frozen(bd, bd2) ==
  \A b \in DOMAIN bd : Ended(bd[b]) =>
    /\ b \in DOMAIN bd2 /\ Ended(bd2[b])
    /\ IF b = Entry THEN Fronted(bd[b], bd2[b]) ELSE bd2[b] = bd[b]

\* no variable has two slots in a block
OnceIn(s) == \A i, j \in 1..Len(s) :
               s[i].k = "alloca" /\ s[j].k = "alloca" /\ s[i].v = s[j].v => i = j \/ s[i].v = None

Once(bd) == \A b \in DOMAIN bd : OnceIn(bd[b])

Safe(bd, bd2) == /\ Clean(bd2) /\ DOMAIN bd \subseteq DOMAIN bd2
                 /\ Frozen(bd, bd2)
                 /\ Once(bd) => Once(bd2)

(* A block has itself behind no slots.                                      *)
LEMMA FrontedSame ==
  ASSUME NEW s \in Seq(Instr)
  PROVE  Fronted(s, s)
  <1>1. PICK n \in Nat : n = Len(s)
    BY LenProperties
  <1>2. Len(s) = 0 + Len(s) /\ (\A i \in 1..n : s[0 + i] = s[i]) /\ \A i \in 1..0 : s[i].k = "alloca"
    BY <1>1
  <1> QED BY <1>1, <1>2 DEF Fronted

(* Slots in front of slots.                                                 *)
LEMMA FrontedTwice ==
  ASSUME NEW s \in Seq(Instr), NEW t \in Seq(Instr), NEW u \in Seq(Instr), Fronted(s, t), Fronted(t, u)
  PROVE  Fronted(s, u)
  <1>1. PICK l \in Nat : l = Len(s)
    BY LenProperties
  <1>2. PICK m \in Nat : /\ Len(t) = m + l /\ \A i \in 1..l : t[m + i] = s[i]
                         /\ \A i \in 1..m : t[i].k = "alloca"
    BY <1>1 DEF Fronted
  <1>3. PICK n \in Nat : /\ Len(u) = n + (m + l) /\ \A i \in 1..(m + l) : u[n + i] = t[i]
                         /\ \A i \in 1..n : u[i].k = "alloca"
    BY <1>2 DEF Fronted
  <1>4. ASSUME NEW i \in 1..l PROVE u[(n + m) + i] = s[i]
    <2>1. m + i \in 1..(m + l) /\ n + (m + i) = (n + m) + i
      OBVIOUS
    <2> QED BY <1>2, <1>3, <2>1
  <1>5. ASSUME NEW i \in 1..(n + m) PROVE u[i].k = "alloca"
    <2>1. CASE i <= n
      <3>1. i \in 1..n
        BY <2>1
      <3> QED BY <1>3, <3>1
    <2>2. CASE ~(i <= n)
      <3>1. i - n \in 1..m /\ i - n \in 1..(m + l) /\ n + (i - n) = i
        BY <2>2
      <3> QED BY <1>2, <1>3, <3>1
    <2> QED BY <2>1, <2>2
  <1>6. n + m \in Nat /\ Len(u) = (n + m) + l
    BY <1>3
  <1> QED BY <1>1, <1>4, <1>5, <1>6 DEF Fronted

(* One safe change after the other is safe.                                 *)
LEMMA SafeTwice ==
  ASSUME NEW bd, NEW bd2, NEW bd3, Clean(bd), Safe(bd, bd2), Safe(bd2, bd3)
  PROVE  Safe(bd, bd3)
  <1>1. /\ Clean(bd3) /\ DOMAIN bd \subseteq DOMAIN bd3 /\ (Once(bd) => Once(bd3))
        /\ Frozen(bd, bd2) /\ Frozen(bd2, bd3) /\ DOMAIN bd \subseteq DOMAIN bd2
    BY DEF Safe
  <1>2. ASSUME NEW b \in DOMAIN bd, Ended(bd[b])
        PROVE  /\ b \in DOMAIN bd3 /\ Ended(bd3[b])
               /\ IF b = Entry THEN Fronted(bd[b], bd3[b]) ELSE bd3[b] = bd[b]
    <2>1. /\ b \in DOMAIN bd2 /\ Ended(bd2[b])
          /\ IF b = Entry THEN Fronted(bd[b], bd2[b]) ELSE bd2[b] = bd[b]
      BY <1>1, <1>2 DEF Frozen
    <2>2. /\ b \in DOMAIN bd3 /\ Ended(bd3[b])
          /\ IF b = Entry THEN Fronted(bd2[b], bd3[b]) ELSE bd3[b] = bd2[b]
      BY <1>1, <2>1 DEF Frozen
    <2>3. bd[b] \in Seq(Instr) /\ bd2[b] \in Seq(Instr) /\ bd3[b] \in Seq(Instr)
      BY <1>1, <2>1, <2>2 DEF Safe, Clean, Bodies
    <2> QED BY <2>1, <2>2, <2>3, FrontedTwice
  <1> QED BY <1>1, <1>2 DEF Safe, Frozen

(* So is no change at all.                                                  *)
LEMMA SafeStill ==
  ASSUME NEW bd, Clean(bd)
  PROVE  Safe(bd, bd)
  <1>1. \A b \in DOMAIN bd : Fronted(bd[b], bd[b])
    BY FrontedSame DEF Clean, Bodies
  <1> QED BY <1>1 DEF Safe, Frozen

(* An instruction that is no slot, behind the others.                       *)
LEMMA OnceBehind ==
  ASSUME NEW s \in Seq(Instr), OnceIn(s), NEW x \in Instr, x.k # "alloca"
  PROVE  OnceIn(s \o <<x>>)
  <1>1. PICK n \in Nat : n = Len(s)
    BY LenProperties
  <1>2. PICK t : t = s \o <<x>>
    OBVIOUS
  <1>3. Len(t) = n + 1 /\ \A i \in 1..(n + 1) : t[i] = IF i <= n THEN s[i] ELSE x
    <2>1. Len(<<x>>) = 1 /\ <<x>> \in Seq(Instr) /\ <<x>>[1] = x
      OBVIOUS
    <2>2. Len(t) = n + 1 /\ \A i \in 1..(n + 1) : t[i] = IF i <= n THEN s[i] ELSE <<x>>[i - n]
      BY <1>1, <1>2, <2>1, ConcatProperties
    <2> QED BY <2>1, <2>2
  <1>4. ASSUME NEW i \in 1..(n + 1), t[i].k = "alloca" PROVE i \in 1..n /\ t[i] = s[i]
    BY <1>3, <1>4
  <1> QED BY <1>1, <1>2, <1>3, <1>4 DEF OnceIn

(* A slot in front of the others.                                           *)
LEMMA OnceInFront ==
  ASSUME NEW s \in Seq(Instr), OnceIn(s), NEW x \in Instr,
         x.v = None \/ \A i \in 1..Len(s) : s[i].k = "alloca" => s[i].v # x.v
  PROVE  OnceIn(<<x>> \o s)
  <1>1. PICK n \in Nat : n = Len(s)
    BY LenProperties
  <1>2. PICK t : t = <<x>> \o s
    OBVIOUS
  <1>3. Len(t) = 1 + n /\ t[1] = x /\ \A i \in 1..(1 + n) : i # 1 => i - 1 \in 1..n /\ t[i] = s[i - 1]
    <2>1. Len(<<x>>) = 1 /\ <<x>> \in Seq(Instr) /\ <<x>>[1] = x
      OBVIOUS
    <2>2. Len(t) = 1 + n /\ \A i \in 1..(1 + n) : t[i] = IF i <= 1 THEN <<x>>[i] ELSE s[i - 1]
      BY <1>1, <1>2, <2>1, ConcatProperties
    <2> QED BY <2>1, <2>2
  <1>4. ASSUME NEW i \in 1..(1 + n), NEW j \in 1..(1 + n),
               t[i].k = "alloca", t[j].k = "alloca", t[i].v = t[j].v
        PROVE  i = j \/ t[i].v = None
    <2>1. CASE i = 1
      BY <1>1, <1>3, <1>4, <2>1
    <2>2. CASE j = 1
      BY <1>1, <1>3, <1>4, <2>2
    <2>3. CASE i # 1 /\ j # 1
      <3>1. PICK p \in 1..n : p = i - 1 /\ t[i] = s[p]
        BY <1>3, <2>3
      <3>2. PICK q \in 1..n : q = j - 1 /\ t[j] = s[q]
        BY <1>3, <2>3
      <3>3. p = q \/ s[p].v = None
        BY <1>1, <1>4, <3>1, <3>2 DEF OnceIn
      <3> QED BY <3>1, <3>2, <3>3
    <2> QED BY <2>1, <2>2, <2>3
  <1> QED BY <1>2, <1>3, <1>4 DEF OnceIn

-----------------------------------------------------------------------------
(* The operations of the builder are safe *)

(* Appending an instruction that is no slot to a block that is ready.       *)
LEMMA EmitSafe ==
  ASSUME NEW bd, Clean(bd), NEW b \in DOMAIN bd, Ready(bd, b), NEW x \in Instr, x.k # "alloca"
  PROVE  /\ Safe(bd, Emit(bd, b, <<x>>)) /\ DOMAIN Emit(bd, b, <<x>>) = DOMAIN bd
         /\ x.k \notin Terminators => Ready(Emit(bd, b, <<x>>), b)
         /\ \A c : c # b /\ Ready(bd, c) => Ready(Emit(bd, b, <<x>>), c)
  <1> DEFINE e == Emit(bd, b, <<x>>)
  <1>1. <<x>> \in Seq(Instr) /\ NoInner(<<x>>) /\ (x.k \notin Terminators => Unended(<<x>>))
    BY OneInstruction
  <1>2. /\ Clean(e) /\ DOMAIN e = DOMAIN bd
        /\ x.k \notin Terminators => Ready(e, b)
        /\ \A c \in DOMAIN bd : c # b => e[c] = bd[c]
    BY <1>1, EmitClean
  <1>3. e[b] = bd[b] \o <<x>>
    BY DEF Emit
  <1> HIDE DEF e
  <1>4. \A c \in DOMAIN bd : bd[c] \in Seq(Instr) /\ e[c] \in Seq(Instr)
    BY <1>2 DEF Clean, Bodies
  <1>5. ~Ended(bd[b])
    BY <1>4, UnendedFacts DEF Ready
  <1>6. Frozen(bd, e)
    BY <1>2, <1>4, <1>5, FrontedSame DEF Frozen
  <1>7. ASSUME Once(bd) PROVE Once(e)
    <2>1. OnceIn(e[b])
      BY <1>3, <1>4, <1>7, OnceBehind DEF Once
    <2> QED BY <1>2, <1>7, <2>1 DEF Once
  <1>8. \A c : c # b /\ Ready(bd, c) => Ready(e, c)
    BY <1>2 DEF Ready
  <1> QED BY <1>2, <1>6, <1>7, <1>8 DEF Safe, e

(* createAlloca, for a temporary or for a variable that has no slot yet.    *)
LEMMA AddSlotSafe ==
  ASSUME NEW bd, Clean(bd), Entry \in DOMAIN bd, cpc \in Nat, NEW v \in Vars \cup {None},
         v = None \/ \A x : Holds(bd, Entry, x) /\ x.k = "alloca" => x.v # v
  PROVE  /\ Safe(bd, AddSlot(bd, v)) /\ DOMAIN AddSlot(bd, v) = DOMAIN bd
         /\ \A b : Ready(bd, b) => Ready(AddSlot(bd, v), b)
  <1> DEFINE e == AddSlot(bd, v)
             x == Alloca(v)
             b == Entry
  <1>1. Clean(e) /\ DOMAIN e = DOMAIN bd /\ Keeps(bd, e) /\ \A c : Ready(bd, c) => Ready(e, c)
    BY AddSlotClean
  <1>2. e[b] = <<x>> \o bd[b] /\ \A c \in DOMAIN bd : c # b => e[c] = bd[c]
    BY DEF AddSlot
  <1>3. x \in Instr /\ x.k = "alloca" /\ x.v = v
    BY DEF Alloca, I, Instr, InstrKind
  <1>4. b = Entry /\ b \in DOMAIN bd
    OBVIOUS
  <1>5. \A i \in 1..Len(bd[b]) : x.v = None \/ (bd[b][i].k = "alloca" => bd[b][i].v # x.v)
    BY <1>3 DEF Holds
  <1> HIDE DEF e, x, b
  <1>6. \A c \in DOMAIN bd : bd[c] \in Seq(Instr) /\ e[c] \in Seq(Instr)
    BY <1>1 DEF Clean, Bodies
  <1>7. Fronted(bd[b], e[b])
    <2>1. PICK n \in Nat : n = Len(bd[b])
      BY <1>4, <1>6, LenProperties
    <2>2. Len(<<x>>) = 1 /\ <<x>> \in Seq(Instr) /\ <<x>>[1] = x
      BY <1>3
    <2>3. Len(e[b]) = 1 + n /\ \A i \in 1..(1 + n) : e[b][i] = IF i <= 1 THEN <<x>>[i] ELSE bd[b][i - 1]
      BY <1>2, <1>4, <1>6, <2>1, <2>2, ConcatProperties
    <2>4. \A i \in 1..n : e[b][1 + i] = bd[b][i]
      BY <2>3
    <2>5. \A i \in 1..1 : e[b][i].k = "alloca"
      BY <1>3, <2>2, <2>3
    <2> QED BY <2>1, <2>3, <2>4, <2>5 DEF Fronted
  <1>8. Frozen(bd, e)
    <2>1. \A c \in DOMAIN bd : Ended(bd[c]) => c \in DOMAIN e /\ Ended(e[c])
      BY <1>1 DEF Keeps
    <2> QED BY <1>2, <1>4, <1>7, <2>1 DEF Frozen
  <1>9. ASSUME Once(bd) PROVE Once(e)
    <2>1. OnceIn(bd[b])
      BY <1>4, <1>9 DEF Once
    <2>2. OnceIn(e[b])
      BY <1>2, <1>3, <1>4, <1>5, <1>6, <2>1, OnceInFront
    <2> QED BY <1>1, <1>2, <1>9, <2>2 DEF Once
  <1> QED BY <1>1, <1>8, <1>9 DEF Safe, e

(* genExpr, into a block that is ready and stays so.                        *)
LEMMA GenExprSafe ==
  ASSUME NEW bd, Clean(bd), Entry \in DOMAIN bd, NEW b \in DOMAIN bd, Ready(bd, b), cpc \in Nat,
         NEW u \in Operand \cup {None}
  PROVE  /\ Safe(bd, GenExpr(bd, b, u)) /\ DOMAIN GenExpr(bd, b, u) = DOMAIN bd
         /\ Ready(GenExpr(bd, b, u), b)
  <1>1. u \in Vars => u \notin {"void", "agg", "input", "lit", None}
    BY ProgramAssumption DEF Literals
  <1>2. Call(u) \in Instr /\ Call(u).k = "call" /\ Call(u).k \notin Terminators
    BY DEF Call, I, Instr, InstrKind, Terminators
  <1>3. CASE u \in Vars
    <2>1. Load(u) \in Instr /\ Load(u).k # "alloca" /\ Load(u).k \notin Terminators
      BY <1>3 DEF Load, I, Instr, InstrKind, Terminators
    <2>2. GenExpr(bd, b, u) = Emit(bd, b, <<Load(u)>>)
      BY <1>1, <1>3 DEF GenExpr
    <2> QED BY <2>1, <2>2, EmitSafe
  <1>4. CASE u = "void"
    <2>1. GenExpr(bd, b, u) = Emit(bd, b, <<Call(u)>>)
      BY <1>4, ProgramAssumption DEF GenExpr, Literals
    <2> QED BY <1>2, <2>1, EmitSafe
  <1>5. CASE u \in {"agg", "input"}
    <2> DEFINE e == AddSlot(bd, None)
    <2>1. GenExpr(bd, b, u) = Emit(e, b, <<Call(u)>>)
      BY <1>5, ProgramAssumption DEF GenExpr, Literals
    <2>2. Safe(bd, e) /\ DOMAIN e = DOMAIN bd /\ Ready(e, b)
      BY AddSlotSafe
    <2> HIDE DEF e
    <2>3. /\ Safe(e, Emit(e, b, <<Call(u)>>)) /\ DOMAIN Emit(e, b, <<Call(u)>>) = DOMAIN e
          /\ Ready(Emit(e, b, <<Call(u)>>), b)
      BY <1>2, <2>2, EmitSafe DEF Safe
    <2> QED BY <2>1, <2>2, <2>3, SafeTwice
  <1>6. CASE u \in {"lit", None}
    <2>1. GenExpr(bd, b, u) = bd
      BY <1>1, <1>6, ProgramAssumption DEF GenExpr, Literals
    <2> QED BY <2>1, SafeStill
  <1> QED BY <1>3, <1>4, <1>5, <1>6 DEF Operand, Literals

(* The statements that evaluate an operand and append one instruction.      *)
LEMMA EvalSafe ==
  ASSUME NEW bd, Clean(bd), Entry \in DOMAIN bd, NEW b \in DOMAIN bd, Ready(bd, b), cpc \in Nat,
         NEW u \in Operand \cup {None}, NEW x \in Instr, x.k # "alloca"
  PROVE  Safe(bd, Emit(GenExpr(bd, b, u), b, <<x>>))
  <1> DEFINE e == GenExpr(bd, b, u)
  <1>1. Safe(bd, e) /\ DOMAIN e = DOMAIN bd /\ Ready(e, b)
    BY GenExprSafe
  <1> HIDE DEF e
  <1>2. Safe(e, Emit(e, b, <<x>>))
    BY <1>1, EmitSafe DEF Safe
  <1>3. Safe(bd, Emit(e, b, <<x>>))
    BY <1>1, <1>2, SafeTwice
  <1> QED BY <1>3 DEF e

(* New blocks.                                                              *)
LEMMA CreateSafe ==
  ASSUME NEW bd, Clean(bd), NEW new, new \subseteq Block, new \cap DOMAIN bd = {}
  PROVE  /\ Safe(bd, Create(bd, new)) /\ DOMAIN Create(bd, new) = DOMAIN bd \cup new
         /\ \A b \in new : Ready(Create(bd, new), b) /\ Create(bd, new)[b] = <<>>
         /\ \A b : Ready(bd, b) => Ready(Create(bd, new), b)
  <1> DEFINE e == Create(bd, new)
  <1>1. /\ Clean(e) /\ DOMAIN e = DOMAIN bd \cup new
        /\ \A b \in new : Ready(e, b)
        /\ \A b : Ready(bd, b) => Ready(e, b)
        /\ \A b \in DOMAIN bd : e[b] = bd[b]
    BY CreateClean
  <1>2. \A b \in new : e[b] = <<>>
    BY DEF Create
  <1> HIDE DEF e
  <1>3. Frozen(bd, e)
    BY <1>1, FrontedSame DEF Frozen, Clean, Bodies
  <1>4. \A b \in new : OnceIn(e[b])
    BY <1>2 DEF OnceIn
  <1>5. Once(bd) => Once(e)
    BY <1>1, <1>4 DEF Once
  <1> QED BY <1>1, <1>2, <1>3, <1>5 DEF Safe, e

-----------------------------------------------------------------------------
(* Every step of the generator is safe *)

(* A block that has not ended can take more.                                *)
LEMMA NotEndedReady ==
  ASSUME NEW bd, Clean(bd), NEW b \in DOMAIN bd, ~Terminated(bd, b)
  PROVE  Ready(bd, b)
  <1>1. bd[b] \in Seq(Instr) /\ NoInner(bd[b]) /\ ~Ended(bd[b])
    BY DEF Clean, Bodies, Terminated, Ended
  <1>2. Unended(bd[b])
    BY <1>1, EndedFacts
  <1> QED BY <1>2 DEF Ready

(* What is known where a statement is lowered.                              *)
LEMMA StatementFacts ==
  ASSUME PlaceInv, NEW kinds, AtStatement(kinds), "fn" \notin kinds
  PROVE  /\ Clean(body) /\ cpc \in Nat /\ Entry \in DOMAIN body /\ ins \in DOMAIN body
         /\ Ready(body, ins) /\ Here.k \in kinds /\ Here.u \in Operand \cup {None}
         /\ Here.k \in {"decl", "assign", "part"} => Here.v \in Vars
         /\ \A r \in Roles : <<cpc, r>> \in Block /\ <<cpc, r>> \notin DOMAIN body
         /\ Walking
  <1>1. Generating(kinds) /\ ~Terminated(body, ins)
    BY DEF AtStatement
  <1>2. Clean(body)
    BY <1>1, GenPlace, FlowClean
  <1> QED BY <1>1, <1>2, GenPlace, NotEndedReady DEF Walking

(* The statements without a list of their own.                              *)
LEMMA SimpleSafe ==
  ASSUME PlaceInv, Walking => SlotsOK, phase' # "failed",
         \/ GenVarDecl \/ GenAssign \/ GenPartAssign \/ GenExprStmt \/ GenReturn
         \/ GenBreak \/ GenContinue
  PROVE  Safe(body, body')
  <1>1. ASSUME NEW code, GenThrow(code) PROVE FALSE
    BY <1>1 DEF GenThrow, Throw
  <1>2. CASE GenVarDecl
    <2>1. /\ AtStatement({"decl"}) /\ Here.v \notin DOMAIN cvars
          /\ body' = Emit(GenExpr(AddSlot(body, Here.v), ins, Here.u),
                          ins, <<Store(Here.v, Here.u)>>)
      BY <1>1, <1>2 DEF GenVarDecl, UndeclaredUse
    <2>2. /\ Clean(body) /\ cpc \in Nat /\ Entry \in DOMAIN body /\ ins \in DOMAIN body
          /\ Ready(body, ins) /\ Here.u \in Operand \cup {None} /\ Here.v \in Vars /\ Walking
      BY <2>1, StatementFacts
    <2>3. Store(Here.v, Here.u) \in Instr /\ Store(Here.v, Here.u).k # "alloca"
      BY <2>2 DEF Store, I, Instr, InstrKind
    <2>4. ASSUME NEW x, Holds(body, Entry, x), x.v = Here.v PROVE FALSE
      <3>1. cfn \in Nat /\ Entry[1] >= cfn
        BY DEF Entry, PlaceInv, NestInv, FlowInv, TypeOK, GenTypeOK
      <3>2. x.v # None
        BY <2>2, <2>4, ProgramAssumption
      <3>3. x.v \in DOMAIN cvars
        BY <2>2, <2>4, <3>1, <3>2 DEF SlotsOK
      <3> QED BY <2>1, <2>4, <3>3
    <2> DEFINE e == AddSlot(body, Here.v)
    <2>5. Safe(body, e) /\ DOMAIN e = DOMAIN body /\ Ready(e, ins)
      BY <2>2, <2>4, AddSlotSafe
    <2> HIDE DEF e
    <2>6. Safe(e, Emit(GenExpr(e, ins, Here.u), ins, <<Store(Here.v, Here.u)>>))
      BY <2>2, <2>3, <2>5, EvalSafe DEF Safe
    <2> QED BY <2>1, <2>2, <2>5, <2>6, SafeTwice DEF e
  <1>3. ASSUME NEW kinds, AtStatement(kinds), "fn" \notin kinds, NEW x \in Instr, x.k # "alloca",
               body' = Emit(GenExpr(body, ins, Here.u), ins, <<x>>)
        PROVE  Safe(body, body')
    BY <1>3, StatementFacts, EvalSafe
  <1>4. CASE GenAssign
    <2>1. /\ AtStatement({"assign"})
          /\ body' = Emit(GenExpr(body, ins, Here.u), ins, <<Store(Here.v, Here.u)>>)
      BY <1>1, <1>4 DEF GenAssign, UndeclaredUse
    <2>2. Here.u \in Operand \cup {None} /\ Here.v \in Vars /\ cpc \in Nat
      BY <2>1, StatementFacts
    <2>3. Store(Here.v, Here.u) \in Instr /\ Store(Here.v, Here.u).k # "alloca"
      BY <2>2 DEF Store, I, Instr, InstrKind
    <2> QED BY <1>3, <2>1, <2>3
  <1>5. CASE GenPartAssign
    <2>1. /\ AtStatement({"part"})
          /\ body' = Emit(GenExpr(body, ins, Here.u), ins, <<StorePart(Here.v, Here.u)>>)
      BY <1>1, <1>5 DEF GenPartAssign, UndeclaredUse
    <2>2. Here.u \in Operand \cup {None} /\ Here.v \in Vars /\ cpc \in Nat
      BY <2>1, StatementFacts
    <2>3. StorePart(Here.v, Here.u) \in Instr /\ StorePart(Here.v, Here.u).k # "alloca"
      BY <2>2 DEF StorePart, I, Instr, InstrKind
    <2> QED BY <1>3, <2>1, <2>3
  <1>6. CASE GenReturn
    <2>1. /\ AtStatement({"ret"})
          /\ body' = Emit(GenExpr(body, ins, Here.u), ins, <<Ret(Here.u)>>)
      BY <1>1, <1>6 DEF GenReturn, UndeclaredUse
    <2>2. Here.u \in Operand \cup {None} /\ cpc \in Nat
      BY <2>1, StatementFacts
    <2>3. Ret(Here.u) \in Instr /\ Ret(Here.u).k # "alloca"
      BY <2>2 DEF Ret, I, Instr, InstrKind
    <2> QED BY <1>3, <2>1, <2>3
  <1>7. CASE GenExprStmt
    <2>1. AtStatement({"expr"}) /\ body' = GenExpr(body, ins, Here.u)
      BY <1>1, <1>7 DEF GenExprStmt, UndeclaredUse
    <2> QED BY <2>1, StatementFacts, GenExprSafe
  <1>8. ASSUME NEW kind \in {"stop", "cont"}, NEW target \in {"breakBB", "continueBB"},
               NEW code, Leave(kind, target, code)
        PROVE  Safe(body, body')
    <2>1. /\ AtStatement({kind}) /\ loopStack # <<>>
          /\ body' = Emit(body, ins, <<Br(Last(loopStack)[target])>>)
      BY <1>1, <1>8 DEF Leave
    <2>2. /\ Clean(body) /\ cpc \in Nat /\ ins \in DOMAIN body /\ Ready(body, ins)
      BY <2>1, StatementFacts
    <2>3. Last(loopStack) \in [continueBB : Block, breakBB : Block]
      BY <2>1, FrontFacts DEF PlaceInv, NestInv, FlowInv, TypeOK, GenTypeOK
    <2>4. Last(loopStack)[target] \in Block
      BY <2>3
    <2>5. Br(Last(loopStack)[target]) \in Instr /\ Br(Last(loopStack)[target]).k # "alloca"
      BY <2>2, <2>4 DEF Br, I, Instr, InstrKind
    <2> QED BY <2>1, <2>2, <2>5, EmitSafe
  <1> QED BY <1>2, <1>4, <1>5, <1>6, <1>7, <1>8 DEF GenBreak, GenContinue

(* genIf.                                                                   *)
LEMMA IfSafe ==
  ASSUME PlaceInv, phase' # "failed", GenIf
  PROVE  Safe(body, body')
  <1> DEFINE new == {<<cpc, "then">>, <<cpc, "else">>, <<cpc, "merge">>}
             x == CondBr(Here.u, <<cpc, "then">>, <<cpc, "else">>)
             e == GenExpr(body, ins, Here.u)
  <1>1. AtStatement({"if"}) /\ body' = Emit(Create(e, new), ins, <<x>>)
    BY DEF GenIf, UndeclaredUse, GenThrow, Throw
  <1>2. /\ Clean(body) /\ cpc \in Nat /\ Entry \in DOMAIN body /\ ins \in DOMAIN body
        /\ Ready(body, ins) /\ Here.u \in Operand \cup {None}
        /\ \A r \in Roles : <<cpc, r>> \in Block /\ <<cpc, r>> \notin DOMAIN body
    BY <1>1, StatementFacts
  <1>3. x \in Instr /\ x.k # "alloca"
    BY <1>2 DEF CondBr, I, Instr, InstrKind, Roles
  <1>4. new \subseteq Block /\ new \cap DOMAIN body = {}
    BY <1>2 DEF Roles
  <1> HIDE DEF new, x, e
  <1>5. Safe(body, e) /\ DOMAIN e = DOMAIN body /\ Ready(e, ins) /\ Clean(e)
    BY <1>2, GenExprSafe DEF e, Safe
  <1> DEFINE c == Create(e, new)
  <1>6. Safe(e, c) /\ DOMAIN c = DOMAIN e \cup new /\ Ready(c, ins) /\ Clean(c)
    BY <1>4, <1>5, CreateSafe DEF Safe
  <1> HIDE DEF c
  <1>7. Safe(c, Emit(c, ins, <<x>>))
    BY <1>2, <1>3, <1>5, <1>6, EmitSafe
  <1>8. Safe(body, c)
    BY <1>2, <1>5, <1>6, SafeTwice
  <1> QED BY <1>1, <1>2, <1>7, <1>8, SafeTwice DEF c

(* genLoop.                                                                 *)
LEMMA LoopSafe ==
  ASSUME PlaceInv, phase' # "failed", GenLoop
  PROVE  Safe(body, body')
  <1> DEFINE cond == <<cpc, "cond">>
             new == {cond, <<cpc, "body">>, <<cpc, "after">>}
             y == Br(cond)
             x == CondBr(Here.u, <<cpc, "body">>, <<cpc, "after">>)
             e == Create(body, new)
  <1>1. /\ AtStatement({"loop"})
        /\ body' = Emit(GenExpr(Emit(e, ins, <<y>>), cond, Here.u), cond, <<x>>)
    BY DEF GenLoop, UndeclaredUse, GenThrow, Throw
  <1>2. /\ Clean(body) /\ cpc \in Nat /\ Entry \in DOMAIN body /\ ins \in DOMAIN body
        /\ Ready(body, ins) /\ Here.u \in Operand \cup {None}
        /\ \A r \in Roles : <<cpc, r>> \in Block /\ <<cpc, r>> \notin DOMAIN body
    BY <1>1, StatementFacts
  <1>3. x \in Instr /\ y \in Instr /\ x.k # "alloca" /\ y.k # "alloca"
    BY <1>2 DEF CondBr, Br, I, Instr, InstrKind, Roles
  <1>4. new \subseteq Block /\ new \cap DOMAIN body = {} /\ cond \in new /\ cond \notin DOMAIN body
    BY <1>2 DEF Roles
  <1> HIDE DEF new, x, y, e, cond
  <1>5. Safe(body, e) /\ DOMAIN e = DOMAIN body \cup new /\ Ready(e, ins) /\ Ready(e, cond) /\ Clean(e)
    BY <1>2, <1>4, CreateSafe DEF e, Safe
  <1> DEFINE c == Emit(e, ins, <<y>>)
  <1>6. Safe(e, c) /\ DOMAIN c = DOMAIN e /\ Ready(c, cond) /\ Clean(c)
    BY <1>2, <1>3, <1>4, <1>5, EmitSafe DEF Safe
  <1> HIDE DEF c
  <1>7. Safe(c, Emit(GenExpr(c, cond, Here.u), cond, <<x>>))
    BY <1>2, <1>3, <1>4, <1>5, <1>6, EvalSafe
  <1>8. Safe(body, c)
    BY <1>2, <1>5, <1>6, SafeTwice
  <1> QED BY <1>1, <1>2, <1>7, <1>8, SafeTwice DEF c

(* The end of a list.                                                       *)
LEMMA ListEndSafe ==
  ASSUME PlaceInv, phase' # "failed",
         GenElse \/ GenEndIf \/ GenEndLoop \/ GenEndFunction
  PROVE  Safe(body, body')
  <1>1. ASSUME NEW end \in {"else", "endif", "endloop", "endfn"}, Generating({end})
        PROVE  Clean(body) /\ ins \in DOMAIN body /\ cpc \in Nat
    BY <1>1, GenPlace, FlowClean
  <1>2. ASSUME NEW end \in {"else", "endif", "endloop", "endfn"}, Generating({end}),
               NEW x \in Instr, x.k # "alloca",
               body' = IF Terminated(body, ins) THEN body ELSE Emit(body, ins, <<x>>)
        PROVE  Safe(body, body')
    <2>1. Clean(body) /\ ins \in DOMAIN body
      BY <1>1, <1>2
    <2>2. CASE Terminated(body, ins)
      BY <1>2, <2>1, <2>2, SafeStill
    <2>3. CASE ~Terminated(body, ins)
      BY <1>2, <2>1, <2>3, NotEndedReady, EmitSafe
    <2> QED BY <2>2, <2>3
  <1>3. ASSUME NEW end \in {"else", "endif", "endloop"}, Generating({end}), frames # <<>>,
               NEW r \in {"merge", "cond"}, body' = FallTo(<<Last(frames).at, r>>)
        PROVE  Safe(body, body')
    <2>1. Last(frames) \in Frame
      BY <1>3, FrontFacts DEF PlaceInv, NestInv, FlowInv, TypeOK, GenTypeOK
    <2>2. <<Last(frames).at, r>> \in Block /\ cpc \in Nat
      BY <1>1, <1>3, <2>1 DEF Frame, Block, Roles
    <2>3. Br(<<Last(frames).at, r>>) \in Instr /\ Br(<<Last(frames).at, r>>).k # "alloca"
      BY <2>2 DEF Br, I, Instr, InstrKind
    <2> QED BY <1>2, <1>3, <2>3 DEF FallTo
  <1>4. CASE GenElse
    BY <1>3, <1>4 DEF GenElse, ListEnd
  <1>5. CASE GenEndIf
    BY <1>3, <1>5 DEF GenEndIf, ListEnd
  <1>6. CASE GenEndLoop
    BY <1>3, <1>6 DEF GenEndLoop, ListEnd
  <1>7. CASE GenEndFunction
    <2> DEFINE x == Ret(IF prog[cfn].t = "void" THEN None ELSE "zero")
    <2>1. Generating({"endfn"}) /\ body' = DefaultReturn
      BY <1>7 DEF GenEndFunction, GenThrow, Throw
    <2>2. x \in Instr /\ x.k # "alloca"
      BY <1>1, <2>1 DEF Ret, I, Instr, InstrKind
    <2> HIDE DEF x
    <2>3. body' = IF Terminated(body, ins) THEN body ELSE Emit(body, ins, <<x>>)
      BY <2>1 DEF DefaultReturn, x
    <2> QED BY <1>2, <2>1, <2>2, <2>3
  <1> QED BY <1>4, <1>5, <1>6, <1>7

(* defineFn.                                                                *)
LEMMA FunctionSafe ==
  ASSUME PlaceInv, phase' # "failed", GenFunction
  PROVE  Safe(body, body')
  <1> DEFINE b == <<cpc, "entry">>
             e == Create(body, {b})
             x == Alloca(Here.v)
             y == Store(Here.v, "arg")
  <1>1. /\ Generating({"fn"})
        /\ body' = IF Here.v = None THEN e ELSE Emit(e, b, <<x, y>>)
    BY DEF GenFunction
  <1>2. /\ Clean(body) /\ cpc \in Nat /\ Here.v \in Vars \cup {None}
        /\ \A r \in Roles : <<cpc, r>> \in Block /\ <<cpc, r>> \notin DOMAIN body
    BY <1>1, GenPlace, FlowClean
  <1>3. {b} \subseteq Block /\ {b} \cap DOMAIN body = {}
    BY <1>2 DEF Roles
  <1>4. Here.v # None => x \in Instr /\ y \in Instr
    BY <1>2 DEF Alloca, Store, I, Instr, InstrKind
  <1>5. x.k = "alloca" /\ y.k = "store"
    BY DEF Alloca, Store, I
  <1> HIDE DEF b, e, x, y
  <1>6. Safe(body, e) /\ Clean(e) /\ DOMAIN e = DOMAIN body \cup {b} /\ Ready(e, b) /\ e[b] = <<>>
    BY <1>2, <1>3, CreateSafe DEF e, Safe
  <1>7. CASE Here.v = None
    BY <1>1, <1>6, <1>7
  <1>8. CASE Here.v # None
    <2> DEFINE code == <<x, y>>
               c == Emit(e, b, code)
    <2>1. code \in Seq(Instr) /\ Len(code) = 2 /\ code[1] = x /\ code[2] = y
      BY <1>4, <1>8
    <2> HIDE DEF code
    <2>2. NoInner(code)
      <3>1. \A i \in 1..(2 - 1) : code[i].k = "alloca"
        BY <1>5, <2>1
      <3> QED BY <2>1, <3>1 DEF NoInner, Terminators
    <2>3. Clean(c) /\ DOMAIN c = DOMAIN e /\ \A d \in DOMAIN e : d # b => c[d] = e[d]
      BY <1>6, <2>1, <2>2, EmitClean
    <2>4. c[b] = e[b] \o code
      BY <1>6 DEF Emit
    <2> HIDE DEF c
    <2>5. c[b] = code
      BY <1>6, <2>1, <2>4, ConcatEmptySeq
    <2>6. Frozen(e, c)
      BY <1>6, <2>3, FrontedSame DEF Frozen, Clean, Bodies, Ended
    <2>7. OnceIn(c[b])
      <3>1. \A i \in 1..2 : code[i].k = "alloca" => i = 1
        BY <1>5, <2>1
      <3> QED BY <2>1, <2>5, <3>1 DEF OnceIn
    <2>8. Once(e) => Once(c)
      BY <2>3, <2>7 DEF Once
    <2>9. Safe(e, c)
      BY <2>3, <2>6, <2>8 DEF Safe
    <2> QED BY <1>1, <1>2, <1>6, <1>8, <2>9, SafeTwice DEF c, code
  <1> QED BY <1>7, <1>8

(* Every action that goes on.                                               *)
LEMMA GenerateSafe ==
  ASSUME PlaceInv, Walking => SlotsOK, GenNext, phase' = "gen"
  PROVE  Safe(body, body')
  <1>1. CASE SkipRest
    <2>1. Generating(Statements) /\ body' = body
      BY <1>1 DEF SkipRest
    <2>2. Clean(body)
      BY <2>1, GenPlace, FlowClean
    <2> QED BY <2>1, <2>2, SafeStill
  <1>2. ~GenDone
    BY DEF GenDone
  <1> QED BY <1>1, <1>2, SimpleSafe, IfSafe, LoopSafe, ListEndSafe, FunctionSafe DEF GenNext

-----------------------------------------------------------------------------
(* The invariant and its theorems *)

\* every slot is in an entry block
SlotsAtEntry == \A b, x : Holds(body, b, x) /\ x.k = "alloca" => b[2] = "entry"

StorageInv == AgreeInv /\ SlotsAtEntry /\ Once(body)

(* A step of the compiler is safe, whichever stage takes it.                *)
LEMMA NextSafe ==
  ASSUME AgreeInv, [Next]_vars
  PROVE  body' = body \/ (GenNext /\ phase' = "gen" /\ Safe(body, body'))
  <1>1. CASE Parse \/ Check
    BY <1>1, Stage DEF genVars
  <1>2. CASE Generate
    <2>1. GenNext /\ PlaceInv /\ (Walking => SlotsOK)
      BY <1>2 DEF Generate, AgreeInv, CheckInv, BranchInv, WalkingOK
    <2>2. CASE phase' = "gen"
      BY <2>1, <2>2, GenerateSafe
    <2>3. CASE phase' # "gen"
      BY <2>1, <2>3, StopsStill DEF genVars
    <2> QED BY <2>2, <2>3
  <1>3. CASE Finished \/ UNCHANGED vars
    BY <1>3 DEF Finished, vars
  <1> QED BY <1>1, <1>2, <1>3 DEF Next

(* Nothing is stored before anything is parsed.                             *)
LEMMA StorageInit == Init => StorageInv
  <1> SUFFICES ASSUME Init PROVE StorageInv
    OBVIOUS
  <1>1. CheckInv /\ phase = "parse" /\ err = NoError
    BY CheckInit DEF Init
  <1>2. AgreeInv
    BY <1>1 DEF AgreeInv, WalkingOK, PassedOK, OutcomeOK, Walking, NoError
  <1>3. DOMAIN body = {}
    BY DEF Init, GenInit
  <1> QED BY <1>2, <1>3 DEF StorageInv, SlotsAtEntry, Holds, Once

(* A safe step, and any other, keeps what is known of the slots.            *)
LEMMA StorageStep == StorageInv /\ [Next]_vars => StorageInv'
  <1> SUFFICES ASSUME StorageInv, [Next]_vars PROVE StorageInv'
    OBVIOUS
  <1>1. AgreeInv /\ AgreeInv'
    BY AgreeStep DEF StorageInv
  <1>2. CASE body' = body
    <2>1. SlotsAtEntry'
      BY <1>2 DEF StorageInv, SlotsAtEntry
    <2>2. Once(body)'
      BY <1>2 DEF StorageInv, Once, OnceIn
    <2> QED BY <1>1, <2>1, <2>2 DEF StorageInv
  <1>3. CASE phase' = "gen" /\ Safe(body, body')
    <2>1. SlotsAtEntry'
      BY <1>1, <1>3 DEF AgreeInv, PassedOK, StoresOK, SlotsAtEntry
    <2>2. Once(body')
      BY <1>3 DEF StorageInv, Safe
    <2>3. Once(body)'
      BY <2>2 DEF Once, OnceIn
    <2> QED BY <1>1, <2>1, <2>3 DEF StorageInv
  <1> QED BY <1>1, <1>2, <1>3, NextSafe

(* The inductive invariant holds throughout a compilation.                  *)
THEOREM StorageCorrect == Spec => []StorageInv
  BY StorageInit, StorageStep, PTL DEF Spec

(* A variable has one slot, and it is in the entry block of its function,   *)
(* however deep in loops its declaration stands: no program makes a loop    *)
(* grow the stack by a variable.                                            *)
THEOREM SlotsInEntryCorrect == Spec => []SlotsInEntry
  <1>1. ASSUME StorageInv PROVE SlotsInEntry
    <2>1. \A b \in DOMAIN body : \A i \in 1..Len(body[b]) : body[b][i].k = "alloca" => b[2] = "entry"
      BY <1>1 DEF StorageInv, SlotsAtEntry, Holds
    <2>2. \A b \in DOMAIN body : OnceIn(body[b])
      BY <1>1 DEF StorageInv, Once
    <2> QED BY <2>1, <2>2 DEF SlotsInEntry, OnceIn
  <1> QED BY <1>1, StorageCorrect, PTL

(* The end of a list that has slots in front is the list.                   *)
LEMMA FrontedEnd ==
  ASSUME NEW s \in Seq(Instr), NEW t \in Seq(Instr), Fronted(s, t)
  PROVE  LET n == Len(t) - Len(s)
         IN  SubSeq(t, n + 1, Len(t)) = s /\ \A i \in 1..n : t[i].k = "alloca"
  <1>1. PICK l \in Nat : l = Len(s)
    BY LenProperties
  <1>2. PICK n \in Nat : /\ Len(t) = n + l /\ \A i \in 1..l : t[n + i] = s[i]
                         /\ \A i \in 1..n : t[i].k = "alloca"
    BY <1>1 DEF Fronted
  <1>3. (n + l) - l = n /\ n + 1 \in Int /\ n + l \in Int
    OBVIOUS
  <1>4. \A i \in (n + 1)..(n + l) : t[i] \in Instr
    BY <1>2, LenProperties
  <1>5. PICK u : u = SubSeq(t, n + 1, n + l)
    OBVIOUS
  <1>6. /\ u \in Seq(Instr)
        /\ Len(u) = IF n + 1 <= n + l THEN (n + l) - (n + 1) + 1 ELSE 0
        /\ \A i \in 1..((n + l) - (n + 1) + 1) : u[i] = t[(n + 1) + i - 1]
    BY <1>3, <1>4, <1>5, SubSeqProperties
  <1>7. Len(u) = l
    BY <1>6
  <1>8. ASSUME NEW i \in 1..l PROVE u[i] = s[i]
    <2>1. (n + 1) + i - 1 = n + i /\ i \in 1..((n + l) - (n + 1) + 1)
      OBVIOUS
    <2> QED BY <1>2, <1>6, <2>1
  <1>9. u = s
    BY <1>1, <1>6, <1>7, <1>8, SeqEqual
  <1> QED BY <1>1, <1>2, <1>3, <1>5, <1>9

(* A block that has its terminator is never touched again, but for slots in *)
(* front of the entry block of the function at hand: whatever genIf, genLoop *)
(* and createAlloca do later, an ended block keeps its instructions, their  *)
(* order and its terminator.                                                *)
THEOREM ClosedBlocksFrozenCorrect == Spec => ClosedBlocksFrozen
  <1> DEFINE Step == \A b \in DOMAIN body : Terminated(body, b) =>
               /\ b \in DOMAIN body'
               /\ LET n == Len(body'[b]) - Len(body[b])
                  IN  /\ SubSeq(body'[b], n + 1, Len(body'[b])) = body[b]
                      /\ \A i \in 1..n : body'[b][i].k = "alloca" /\ b = Entry
  <1>1. ASSUME AgreeInv, [Next]_vars PROVE Step
    <2> SUFFICES ASSUME NEW b \in DOMAIN body, Terminated(body, b)
                 PROVE  /\ b \in DOMAIN body'
                        /\ LET n == Len(body'[b]) - Len(body[b])
                           IN  /\ SubSeq(body'[b], n + 1, Len(body'[b])) = body[b]
                               /\ \A i \in 1..n : body'[b][i].k = "alloca" /\ b = Entry
      OBVIOUS
    <2>1. AgreeInv /\ AgreeInv' /\ body[b] \in Seq(Instr)
      BY <1>1, AgreeStep DEF AgreeInv, CheckInv, BranchInv, PlaceInv, NestInv, FlowInv, TypeOK, GenTypeOK
    <2>2. /\ b \in DOMAIN body'
          /\ b = Entry => Fronted(body[b], body'[b])
          /\ b # Entry => body'[b] = body[b]
      <3>1. CASE body' = body
        BY <2>1, <3>1, FrontedSame
      <3>2. CASE Safe(body, body')
        BY <3>2 DEF Safe, Frozen, Terminated, Ended
      <3> QED BY <1>1, <2>1, <3>1, <3>2, NextSafe
    <2>3. body'[b] \in Seq(Instr)
      BY <2>1, <2>2 DEF AgreeInv, CheckInv, BranchInv, PlaceInv, NestInv, FlowInv, TypeOK, GenTypeOK
    <2>4. CASE b = Entry
      BY <2>1, <2>2, <2>3, <2>4, FrontedEnd
    <2>5. CASE b # Entry
      <3>1. body'[b] = body[b] /\ Fronted(body[b], body[b])
        BY <2>1, <2>2, <2>5, FrontedSame
      <3>2. PICK l \in Nat : l = Len(body[b])
        BY <2>1, LenProperties
      <3>3. SubSeq(body[b], (l - l) + 1, l) = body[b] /\ 1..(l - l) = {}
        BY <2>1, <3>1, <3>2, FrontedEnd
      <3> QED BY <2>2, <3>1, <3>2, <3>3
    <2> QED BY <2>4, <2>5
  <1>2. AgreeInv /\ [Next]_vars => [Step]_vars
    BY <1>1
  <1> HIDE DEF Step
  <1>3. Spec => [][Step]_vars
    BY <1>2, AgreementCorrect, PTL DEF Spec
  <1> QED BY <1>3 DEF ClosedBlocksFrozen, Step
=============================================================================
