--------------------------- MODULE ControlFlowProofs ---------------------------
(***************************************************************************)
(* The blocks the generator leaves are well formed, for every program:     *)
(* none has an instruction behind its terminator, and none is left open.   *)
(* And the two passes know where in the source they are: loopDepth_ of the *)
(* checker and loopStack_ of the generator agree with the loops the tree   *)
(* has around the node they have reached.                                  *)
(*                                                                         *)
(* The first needs the shape of the tree (TreeOK: depths and closing nodes *)
(* match, which the parser's stack of open lists guarantees, so that the   *)
(* walk never leaves a function with a list open), and that the blocks the *)
(* generator is busy with are named by nodes behind it (WalkOK).           *)
(*                                                                         *)
(* The second needs that the parser closes what it opened (MatchOK), so    *)
(* that the node at which a pass takes a loop off its count ends just the  *)
(* innermost of the loops that are open there; and that the dead rest of a *)
(* list, which the generator jumps over, opens and closes the same loops.  *)
(***************************************************************************)
EXTENDS CompilerProofs, FiniteSetTheorems

-----------------------------------------------------------------------------
(* The shape of the tree *)

\* the depth of the list a node stands in or ends, and of the one behind it
Level(n) == IF n.k \in Closers THEN n.d + 1 ELSE n.d
Inner(n) == IF n.k \in Openers THEN n.d + 1 ELSE n.d

TreeOK ==
  /\ \A i \in Nodes : Level(prog[i]) = IF i = 1 THEN 0 ELSE Inner(prog[i - 1])
  /\ \A i \in Nodes : prog[i].k = "fn" <=> Level(prog[i]) = 0
  /\ \A i \in Nodes : prog[i].k \in Closers => (prog[i].k = "endfn" <=> prog[i].d = 0)
  /\ Len(open) = IF prog = <<>> THEN 0 ELSE Inner(prog[Len(prog)])
  /\ \A j \in 1..Len(open) : open[j] = "fn" <=> j = 1
  /\ phase \notin {"parse", "failed"} => open = <<>>

(* Appending a node that stands where the last one left off, and opening or *)
(* closing its list, keeps the tree in shape.                               *)
LEMMA PlaceTree ==
  ASSUME TypeOK, TreeOK, NEW n \in AnyNode, NEW depth \in Nat, Place(n, depth),
         open' \in Seq(Openers), phase = "parse", phase' = phase,
         n.k \in Closers => depth = Len(open) - 1 /\ (n.k = "endfn" <=> depth = 0),
         n.k \notin Closers => depth = Len(open),
         n.k = "fn" <=> open = <<>>,
         n.k \in Openers => Len(open') = depth + 1,
         n.k \notin Openers => Len(open') = depth,
         \A j \in 1..Len(open') : open'[j] = "fn" <=> j = 1
  PROVE  TreeOK'
  <1> DEFINE p == [n EXCEPT !.d = depth]
  <1>1. p \in AnyNode /\ p.k = n.k /\ p.d = depth
    BY DEF AnyNode
  <1>2. prog \in Seq(AnyNode) /\ Len(prog) \in Nat /\ prog' = Append(prog, p)
    BY LenProperties DEF Place, TypeOK, ParserTypeOK
  <1> HIDE DEF p
  <1>3. /\ Len(prog') = Len(prog) + 1 /\ prog' # <<>>
        /\ \A i \in 1..Len(prog) : prog'[i] = prog[i]
        /\ prog'[Len(prog) + 1] = p
    BY <1>1, <1>2, AppendProperties
  <1>4. open \in Seq(Openers) /\ Len(open) \in Nat /\ (open = <<>> <=> Len(open) = 0)
    BY LenProperties, EmptySeq DEF TypeOK, ParserTypeOK
  <1>5. Level(p) = Len(open)
    BY <1>1, <1>4 DEF Level
  <1>6. Inner(p) = Len(open')
    BY <1>1 DEF Inner
  <1>7. prog = <<>> <=> Len(prog) = 0
    BY <1>2, EmptySeq
  <1>8. ASSUME NEW i \in 1..Len(prog')
        PROVE  /\ Level(prog'[i]) = IF i = 1 THEN 0 ELSE Inner(prog'[i - 1])
               /\ prog'[i].k = "fn" <=> Level(prog'[i]) = 0
               /\ prog'[i].k \in Closers => (prog'[i].k = "endfn" <=> prog'[i].d = 0)
    <2>1. CASE i = Len(prog) + 1
      <3>1. prog'[i] = p
        BY <1>3, <2>1
      <3>2. Level(p) = IF i = 1 THEN 0 ELSE Inner(prog'[i - 1])
        BY <1>2, <1>3, <1>5, <1>7, <2>1 DEF TreeOK
      <3>3. p.k = "fn" <=> Level(p) = 0
        BY <1>1, <1>4, <1>5
      <3> QED BY <1>1, <3>1, <3>2, <3>3
    <2>2. CASE i \in 1..Len(prog)
      <3>1. prog'[i] = prog[i] /\ (i # 1 => prog'[i - 1] = prog[i - 1])
        BY <1>2, <1>3, <2>2
      <3> QED BY <2>2, <3>1 DEF TreeOK, Nodes
    <2> QED BY <1>2, <1>3, <2>1, <2>2
  <1>9. Len(open') = Inner(prog'[Len(prog')])
    BY <1>3, <1>6
  <1>10. phase' \in {"parse", "failed"}
    OBVIOUS
  <1>11. \A i \in Nodes' : Level(prog'[i]) = IF i = 1 THEN 0 ELSE Inner(prog'[i - 1])
    BY <1>8 DEF Nodes
  <1>12. \A i \in Nodes' : prog'[i].k = "fn" <=> Level(prog'[i]) = 0
    BY <1>8 DEF Nodes
  <1>13. \A i \in Nodes' : prog'[i].k \in Closers => (prog'[i].k = "endfn" <=> prog'[i].d = 0)
    BY <1>8 DEF Nodes
  <1> QED BY <1>3, <1>9, <1>10, <1>11, <1>12, <1>13 DEF TreeOK, Level, Inner

(* Every action of the parser does so.                                      *)
LEMMA ParseTree ==
  ASSUME TypeOK, TreeOK, ParserNext
  PROVE  TreeOK'
  <1>1. open \in Seq(Openers) /\ Len(open) \in Nat /\ (open = <<>> <=> Len(open) = 0)
    BY LenProperties, EmptySeq DEF TypeOK, ParserTypeOK
  <1>2. \A j \in 1..Len(open) : open[j] = "fn" <=> j = 1
    BY DEF TreeOK
  <1>3. ASSUME NEW k \in {"if", "else", "loop"}, open # <<>>, NEW s \in Seq(Openers),
               s = open \/ (s = Front(open) /\ Len(open) > 1)
        PROVE  /\ Append(s, k) \in Seq(Openers) /\ Len(Append(s, k)) = Len(s) + 1
               /\ \A j \in 1..Len(Append(s, k)) : Append(s, k)[j] = "fn" <=> j = 1
    <2>1. k \in Openers
      BY DEF Openers
    <2>2. /\ Append(s, k) \in Seq(Openers) /\ Len(Append(s, k)) = Len(s) + 1
          /\ \A j \in 1..Len(s) : Append(s, k)[j] = s[j]
          /\ Append(s, k)[Len(s) + 1] = k
      BY <2>1, AppendProperties
    <2>3. Len(s) \in Nat \ {0} /\ \A j \in 1..Len(s) : s[j] = open[j]
      BY <1>1, <1>3, FrontFacts
    <2>4. Len(s) <= Len(open)
      BY <1>1, <1>3, FrontFacts
    <2> QED BY <1>1, <1>2, <2>2, <2>3, <2>4
  <1>4. ASSUME open # <<>>
        PROVE  /\ Front(open) \in Seq(Openers) /\ Len(Front(open)) = Len(open) - 1
               /\ Len(open) \in Nat \ {0}
               /\ \A j \in 1..Len(Front(open)) : Front(open)[j] = "fn" <=> j = 1
               /\ Last(open) = "fn" <=> Len(open) = 1
    <2>1. /\ Front(open) \in Seq(Openers) /\ Len(Front(open)) = Len(open) - 1
          /\ Len(open) \in Nat \ {0}
          /\ \A j \in 1..Len(Front(open)) : Front(open)[j] = open[j]
      BY <1>1, <1>4, FrontFacts
    <2>2. Last(open) = open[Len(open)]
      BY DEF Last
    <2> QED BY <1>2, <2>1, <2>2
  <1>5. ASSUME NEW kinds, kinds \subseteq Simple, Simply(kinds)
        PROVE  TreeOK'
    <2>1. PICK s \in Stmts : s.k \in kinds /\ Place(s, Len(open))
      BY <1>5 DEF Simply
    <2>2. s \in AnyNode /\ s.k \in Simple
      BY <1>5, <2>1, ProgramAssumption
    <2>3. s.k \notin Closers /\ s.k \notin Openers /\ s.k # "fn"
      BY <2>2 DEF Simple, Closers, Openers
    <2>4. open' = open /\ phase = "parse" /\ phase' = phase /\ open # <<>>
      BY <1>5 DEF Simply, InList, Parsing, mainVars
    <2> QED BY <1>1, <1>2, <2>1, <2>2, <2>3, <2>4, PlaceTree
  <1>6. ASSUME NEW k \in {"fn", "if", "else", "loop", "endfn", "endif", "endloop"},
               NEW c \in Operand \cup {None}
        PROVE  /\ Node(k, None, c, FALSE, "void") \in AnyNode
               /\ Node(k, None, c, FALSE, "void").k = k
    BY DEF Node, AnyNode, NodeKind, Openers, Closers, Types
  <1>7. ASSUME NEW k \in {"if", "loop"}, Opening(k)
        PROVE  TreeOK'
    <2>1. PICK c \in Conds : Place(Node(k, None, c, FALSE, "void"), Len(open))
      BY <1>7 DEF Opening
    <2> DEFINE n == Node(k, None, c, FALSE, "void")
    <2>2. n \in AnyNode /\ n.k = k
      BY <1>6, ProgramAssumption
    <2>3. n.k \notin Closers /\ n.k \in Openers /\ n.k # "fn"
      BY <2>2 DEF Closers, Openers
    <2>4. open' = Append(open, k) /\ phase = "parse" /\ phase' = phase /\ open # <<>>
      BY <1>7 DEF Opening, InList, Parsing, mainVars
    <2>5. /\ open' \in Seq(Openers) /\ Len(open') = Len(open) + 1
          /\ \A j \in 1..Len(open') : open'[j] = "fn" <=> j = 1
      BY <1>1, <1>3, <2>4
    <2> HIDE DEF n
    <2>6. Place(n, Len(open))
      BY <2>1 DEF n
    <2> QED BY <1>1, <2>2, <2>3, <2>4, <2>5, <2>6, PlaceTree
  <1>8. ASSUME NEW o \in Openers, NEW k \in {"endif", "endloop", "endfn"}, Closing(o, k),
               k = "endfn" <=> o = "fn"
        PROVE  TreeOK'
    <2> DEFINE n == Node(k, None, None, FALSE, "void")
    <2>1. n \in AnyNode /\ n.k = k
      BY <1>6
    <2>2. n.k \in Closers /\ n.k \notin Openers /\ n.k # "fn"
      BY <2>1 DEF Closers, Openers
    <2>3. /\ open' = Front(open) /\ phase = "parse" /\ phase' = phase /\ open # <<>>
          /\ Last(open) = o /\ Place(n, Len(open) - 1)
      BY <1>8 DEF Closing, InList, Parsing, mainVars
    <2> HIDE DEF n
    <2>4. Len(open) - 1 \in Nat /\ (n.k = "endfn" <=> Len(open) - 1 = 0)
      BY <1>4, <1>8, <2>1, <2>3
    <2> QED BY <1>4, <2>1, <2>2, <2>3, <2>4, PlaceTree
  <1>9. CASE ParseFunction
    <2>1. PICK h \in Heads : Place(h, 0)
      BY <1>9 DEF ParseFunction
    <2>2. h \in AnyNode /\ h.k = "fn" /\ h.k \notin Closers /\ h.k \in Openers
      BY ProgramAssumption DEF Closers, Openers
    <2>3. open' = <<"fn">> /\ phase = "parse" /\ phase' = phase /\ open = <<>>
      BY <1>9 DEF ParseFunction, Parsing, mainVars
    <2>4. /\ open' \in Seq(Openers) /\ Len(open') = 1
          /\ \A j \in 1..Len(open') : open'[j] = "fn" <=> j = 1
      BY <2>3 DEF Openers
    <2>5. Len(open) = 0
      BY <1>1, <2>3
    <2> QED BY <2>1, <2>2, <2>3, <2>4, <2>5, PlaceTree
  <1>10. CASE ParseElse
    <2> DEFINE n == Node("else", None, None, FALSE, "void")
    <2>1. n \in AnyNode /\ n.k = "else"
      BY <1>6
    <2>2. n.k \in Closers /\ n.k \in Openers /\ n.k # "fn" /\ n.k # "endfn"
      BY <2>1 DEF Closers, Openers
    <2>3. /\ open' = Append(Front(open), "else") /\ phase = "parse" /\ phase' = phase
          /\ open # <<>> /\ Last(open) = "if" /\ Place(n, Len(open) - 1)
      BY <1>10 DEF ParseElse, InList, Parsing, mainVars
    <2> HIDE DEF n
    <2>4. Len(open) > 1 /\ Len(open) - 1 \in Nat \ {0}
      BY <1>4, <2>3
    <2>5. /\ open' \in Seq(Openers) /\ Len(open') = Len(open) - 1 + 1
          /\ \A j \in 1..Len(open') : open'[j] = "fn" <=> j = 1
      BY <1>3, <1>4, <2>3, <2>4
    <2> QED BY <1>4, <2>1, <2>2, <2>3, <2>4, <2>5, PlaceTree
  <1>11. CASE ParseModule
    BY <1>11 DEF ParseModule, TreeOK, Nodes, Level, Inner
  <1>12. CASE ParseFails
    BY <1>12 DEF ParseFails, parserVars, Throw, TreeOK, Nodes, Level, Inner
  <1> QED BY <1>5, <1>7, <1>8, <1>9, <1>10, <1>11, <1>12
          DEF ParserNext, ParseVarDecl, ParseAssignOrExpr, ParseReturn, ParseBreak,
              ParseContinue, ParseIf, ParseLoop, ParseEndIf, ParseEndLoop,
              ParseEndFunction, Simple, Openers

-----------------------------------------------------------------------------
(* Instructions in a block *)

\* no terminator at all, and none but possibly the last instruction
Unended(s) == \A i \in 1..Len(s) : s[i].k \notin Terminators
NoInner(s) == \A i \in 1..(Len(s) - 1) : s[i].k \notin Terminators
Ended(s)   == s # <<>> /\ Last(s).k \in Terminators

(* Instructions of which neither the last nor any before it is a terminator *)
(* hold none.                                                               *)
LEMMA EndedFacts ==
  ASSUME NEW s \in Seq(Instr), NoInner(s), ~Ended(s)
  PROVE  Unended(s)
  <1>1. Len(s) \in Nat /\ (s = <<>> <=> Len(s) = 0)
    BY LenProperties, EmptySeq
  <1>2. ASSUME NEW i \in 1..Len(s) PROVE s[i].k \notin Terminators
    <2>1. CASE i = Len(s)
      BY <1>1, <2>1 DEF Ended, Last
    <2>2. CASE i # Len(s)
      BY <1>1, <2>2 DEF NoInner
    <2> QED BY <2>1, <2>2
  <1> QED BY <1>2 DEF Unended

(* What an append does to a block that has not ended.                       *)
LEMMA AppendCode ==
  ASSUME NEW s \in Seq(Instr), Unended(s), NEW code \in Seq(Instr)
  PROVE  /\ Unended(code) => Unended(s \o code)
         /\ NoInner(code) => NoInner(s \o code)
         /\ Ended(code) => Ended(s \o code)
  <1>1. /\ Len(s) \in Nat /\ Len(code) \in Nat
        /\ s \o code \in Seq(Instr)
        /\ Len(s \o code) = Len(s) + Len(code)
        /\ \A i \in 1..(Len(s) + Len(code)) :
             (s \o code)[i] = IF i <= Len(s) THEN s[i] ELSE code[i - Len(s)]
    BY LenProperties, ConcatProperties
  <1> DEFINE t == s \o code
  <1>2. t \in Seq(Instr) /\ Len(t) = Len(s) + Len(code)
    BY <1>1
  <1>3. ASSUME NEW i \in 1..Len(t)
        PROVE  \/ t[i].k \notin Terminators
               \/ i - Len(s) \in 1..Len(code) /\ t[i] = code[i - Len(s)]
    BY <1>1, <1>3 DEF Unended
  <1>4. Len(code) > 0 => t[Len(t)] = code[Len(code)]
    BY <1>1
  <1> HIDE DEF t
  <1>5. Unended(code) => Unended(t)
    BY <1>3 DEF Unended
  <1>6. ASSUME NoInner(code), NEW i \in 1..(Len(t) - 1) PROVE t[i].k \notin Terminators
    <2>1. i \in 1..Len(t)
      BY <1>1, <1>2
    <2>2. CASE i - Len(s) \in 1..Len(code) /\ t[i] = code[i - Len(s)]
      <3>1. i - Len(s) \in 1..(Len(code) - 1)
        BY <1>1, <1>2, <2>2
      <3> QED BY <1>6, <2>2, <3>1 DEF NoInner
    <2> QED BY <1>3, <2>1, <2>2
  <1>7. Ended(code) => Ended(t)
    <2>1. ASSUME Ended(code) PROVE Len(code) > 0
      BY <1>1, <2>1, EmptySeq DEF Ended
    <2>2. ASSUME Ended(code) PROVE t # <<>>
      BY <1>1, <1>2, <2>1, <2>2, EmptySeq
    <2> QED BY <1>4, <2>1, <2>2 DEF Ended, Last
  <1> QED BY <1>5, <1>6, <1>7 DEF NoInner, t

(* What an alloca in front of a block does to it.                           *)
LEMMA PrependSlot ==
  ASSUME NEW s \in Seq(Instr), NEW x \in Instr, x.k = "alloca"
  PROVE  /\ Unended(s) => Unended(<<x>> \o s)
         /\ NoInner(s) => NoInner(<<x>> \o s)
         /\ Ended(s) => Ended(<<x>> \o s)
  <1> DEFINE t == <<x>> \o s
  <1>1. /\ Len(s) \in Nat /\ <<x>> \in Seq(Instr) /\ Len(<<x>>) = 1
        /\ t \in Seq(Instr)
        /\ Len(t) = 1 + Len(s)
        /\ \A i \in 1..(1 + Len(s)) :
             t[i] = IF i <= 1 THEN <<x>>[i] ELSE s[i - 1]
    BY LenProperties, ConcatProperties
  <1>2. ASSUME NEW i \in 1..Len(t)
        PROVE  \/ t[i].k \notin Terminators
               \/ i - 1 \in 1..Len(s) /\ t[i] = s[i - 1]
    BY <1>1 DEF Terminators
  <1>3. Len(s) > 0 => t[Len(t)] = s[Len(s)]
    BY <1>1
  <1> HIDE DEF t
  <1>4. Unended(s) => Unended(t)
    BY <1>2 DEF Unended
  <1>5. ASSUME NoInner(s), NEW i \in 1..(Len(t) - 1) PROVE t[i].k \notin Terminators
    <2>1. i \in 1..Len(t)
      BY <1>1
    <2>2. CASE i - 1 \in 1..Len(s) /\ t[i] = s[i - 1]
      <3>1. i - 1 \in 1..(Len(s) - 1)
        BY <1>1, <2>2
      <3> QED BY <1>5, <2>2, <3>1 DEF NoInner
    <2> QED BY <1>2, <2>1, <2>2
  <1>6. Ended(s) => Ended(t)
    <2>1. ASSUME Ended(s) PROVE Len(s) > 0
      BY <1>1, <2>1, EmptySeq DEF Ended
    <2>2. t # <<>>
      BY <1>1, EmptySeq
    <2> QED BY <1>3, <2>1, <2>2 DEF Ended, Last
  <1> QED BY <1>4, <1>5, <1>6 DEF NoInner, t

(* An ended block is not one without a terminator.                          *)
LEMMA UnendedFacts ==
  ASSUME NEW s \in Seq(Instr), Unended(s)
  PROVE  ~Ended(s) /\ NoInner(s)
  <1>1. Len(s) \in Nat /\ (s = <<>> <=> Len(s) = 0)
    BY LenProperties, EmptySeq
  <1> QED BY <1>1 DEF Unended, NoInner, Ended, Last

(* A single instruction has nothing behind it.                              *)
LEMMA OneInstruction ==
  ASSUME NEW x
  PROVE  /\ NoInner(<<x>>)
         /\ x.k \in Terminators => Ended(<<x>>)
         /\ x.k \notin Terminators => Unended(<<x>>)
  BY DEF NoInner, Ended, Unended, Last

-----------------------------------------------------------------------------
(* What the builder's operations do to the blocks *)

Clean(bd) == Bodies(bd) /\ \A b \in DOMAIN bd : NoInner(bd[b])

\* code may be appended to block b
Ready(bd, b) == b \in DOMAIN bd => Unended(bd[b])

\* the blocks of bd that have ended are ended in bd2
Keeps(bd, bd2) == \A b \in DOMAIN bd : Ended(bd[b]) => b \in DOMAIN bd2 /\ Ended(bd2[b])

(* Appending to a block that is ready leaves the others alone.              *)
LEMMA EmitClean ==
  ASSUME NEW bd, Clean(bd), NEW b, Ready(bd, b), NEW code \in Seq(Instr), NoInner(code)
  PROVE  /\ Clean(Emit(bd, b, code)) /\ DOMAIN Emit(bd, b, code) = DOMAIN bd
         /\ Keeps(bd, Emit(bd, b, code))
         /\ Unended(code) => Ready(Emit(bd, b, code), b)
         /\ Ended(code) /\ b \in DOMAIN bd => Ended(Emit(bd, b, code)[b])
         /\ \A c \in DOMAIN bd : c # b => Emit(bd, b, code)[c] = bd[c]
  <1> DEFINE bd2 == Emit(bd, b, code)
  <1>1. Bodies(bd) /\ Bodies(bd2) /\ DOMAIN bd2 = DOMAIN bd
    BY EmitType DEF Clean
  <1>2. \A c \in DOMAIN bd : c # b => bd2[c] = bd[c]
    BY DEF Emit
  <1>3. b \in DOMAIN bd => bd2[b] = bd[b] \o code
    BY DEF Emit
  <1> HIDE DEF bd2
  <1>4. ASSUME b \in DOMAIN bd
        PROVE  /\ bd[b] \in Seq(Instr) /\ Unended(bd[b]) /\ ~Ended(bd[b])
               /\ NoInner(bd2[b])
               /\ Unended(code) => Unended(bd2[b])
               /\ Ended(code) => Ended(bd2[b])
    <2>1. bd[b] \in Seq(Instr) /\ Unended(bd[b])
      BY <1>1, <1>4 DEF Ready, Bodies
    <2>2. ~Ended(bd[b])
      BY <2>1, UnendedFacts
    <2> QED BY <1>3, <1>4, <2>1, <2>2, AppendCode
  <1>5. \A c \in DOMAIN bd2 : NoInner(bd2[c])
    BY <1>1, <1>2, <1>4 DEF Clean
  <1>6. Keeps(bd, bd2)
    BY <1>1, <1>2, <1>4 DEF Keeps
  <1> QED BY <1>1, <1>2, <1>4, <1>5, <1>6 DEF Clean, Ready, bd2

(* A slot in front of the entry block ends no block and opens none.         *)
LEMMA AddSlotClean ==
  ASSUME NEW bd, Clean(bd), cpc \in Nat, NEW v \in Vars \cup {None}
  PROVE  /\ Clean(AddSlot(bd, v)) /\ DOMAIN AddSlot(bd, v) = DOMAIN bd
         /\ Keeps(bd, AddSlot(bd, v))
         /\ \A b : Ready(bd, b) => Ready(AddSlot(bd, v), b)
  <1> DEFINE bd2 == AddSlot(bd, v)
  <1>1. Bodies(bd) /\ Bodies(bd2) /\ DOMAIN bd2 = DOMAIN bd
    BY AddSlotType DEF Clean
  <1>2. \A c \in DOMAIN bd : bd2[c] = bd[c] \/ bd2[c] = <<Alloca(v)>> \o bd[c]
    BY DEF AddSlot
  <1>3. Alloca(v) \in Instr /\ Alloca(v).k = "alloca"
    BY DEF Alloca, I, Instr, InstrKind
  <1> HIDE DEF bd2
  <1>4. ASSUME NEW c \in DOMAIN bd
        PROVE  /\ Unended(bd[c]) => Unended(bd2[c])
               /\ NoInner(bd[c]) => NoInner(bd2[c])
               /\ Ended(bd[c]) => Ended(bd2[c])
    <2>1. bd[c] \in Seq(Instr)
      BY <1>1 DEF Bodies
    <2>2. /\ Unended(bd[c]) => Unended(<<Alloca(v)>> \o bd[c])
          /\ NoInner(bd[c]) => NoInner(<<Alloca(v)>> \o bd[c])
          /\ Ended(bd[c]) => Ended(<<Alloca(v)>> \o bd[c])
      BY <1>3, <2>1, PrependSlot
    <2>3. bd2[c] = bd[c] \/ bd2[c] = <<Alloca(v)>> \o bd[c]
      BY <1>2
    <2>4. CASE bd2[c] = bd[c]
      BY <2>4
    <2>5. CASE bd2[c] = <<Alloca(v)>> \o bd[c]
      BY <2>2, <2>5
    <2> QED BY <2>3, <2>4, <2>5
  <1>5. Clean(bd2)
    BY <1>1, <1>4 DEF Clean
  <1>6. Keeps(bd, bd2)
    BY <1>1, <1>4 DEF Keeps
  <1>7. \A b : Ready(bd, b) => Ready(bd2, b)
    BY <1>1, <1>4 DEF Ready
  <1> QED BY <1>1, <1>5, <1>6, <1>7 DEF bd2

(* genExpr appends no terminator, so the block it works on stays ready.     *)
LEMMA GenExprClean ==
  ASSUME NEW bd, Clean(bd), cpc \in Nat, NEW b, Ready(bd, b), NEW u \in Operand \cup {None}
  PROVE  /\ Clean(GenExpr(bd, b, u)) /\ DOMAIN GenExpr(bd, b, u) = DOMAIN bd
         /\ Keeps(bd, GenExpr(bd, b, u))
         /\ Ready(GenExpr(bd, b, u), b)
  <1>1. CASE u \in Vars
    <2>1. Load(u) \in Instr /\ Load(u).k \notin Terminators
      BY <1>1 DEF Load, I, Instr, InstrKind, Terminators
    <2>2. GenExpr(bd, b, u) = Emit(bd, b, <<Load(u)>>)
      BY <1>1, ProgramAssumption DEF GenExpr, Literals
    <2>3. <<Load(u)>> \in Seq(Instr) /\ NoInner(<<Load(u)>>) /\ Unended(<<Load(u)>>)
      BY <2>1, OneInstruction
    <2>4. PICK code : code = <<Load(u)>>
      OBVIOUS
    <2>5. code \in Seq(Instr) /\ NoInner(code) /\ Unended(code)
      BY <2>3, <2>4, Zenon
    <2>6. GenExpr(bd, b, u) = Emit(bd, b, code)
      BY <2>2, <2>4, Zenon
    <2> QED BY <2>5, <2>6, EmitClean, Zenon
  <1>2. Call(u) \in Instr /\ Call(u).k \notin Terminators
    BY DEF Call, I, Instr, InstrKind, Terminators
  <1>3. <<Call(u)>> \in Seq(Instr) /\ NoInner(<<Call(u)>>) /\ Unended(<<Call(u)>>)
    BY <1>2, OneInstruction
  <1>4. CASE u = "void"
    <2>1. GenExpr(bd, b, u) = Emit(bd, b, <<Call(u)>>)
      BY <1>4, ProgramAssumption DEF GenExpr, Literals
    <2>2. PICK code : code = <<Call(u)>>
      OBVIOUS
    <2>3. code \in Seq(Instr) /\ NoInner(code) /\ Unended(code)
      BY <1>3, <2>2, Zenon
    <2>4. GenExpr(bd, b, u) = Emit(bd, b, code)
      BY <2>1, <2>2, Zenon
    <2> QED BY <2>3, <2>4, EmitClean, Zenon
  <1>5. CASE u \in {"agg", "input"}
    <2> DEFINE bd1 == AddSlot(bd, None)
               bd2 == Emit(bd1, b, <<Call(u)>>)
    <2>1. GenExpr(bd, b, u) = bd2
      BY <1>5, ProgramAssumption DEF GenExpr, Literals
    <2>2. Clean(bd1) /\ DOMAIN bd1 = DOMAIN bd /\ Keeps(bd, bd1) /\ Ready(bd1, b)
      BY AddSlotClean
    <2> HIDE DEF bd1
    <2>3. Clean(bd2) /\ DOMAIN bd2 = DOMAIN bd1 /\ Keeps(bd1, bd2) /\ Ready(bd2, b)
      BY <1>3, <2>2, EmitClean
    <2> HIDE DEF bd2
    <2>4. Keeps(bd, bd2)
      BY <2>2, <2>3 DEF Keeps
    <2> QED BY <2>1, <2>2, <2>3, <2>4
  <1>6. CASE u \in {"lit", None}
    BY <1>6, ProgramAssumption DEF GenExpr, Literals, Keeps
  <1> QED BY <1>1, <1>4, <1>5, <1>6 DEF Operand, Literals

(* Created blocks are empty and ready, the others are as they were.         *)
LEMMA CreateClean ==
  ASSUME NEW bd, Clean(bd), NEW new, new \subseteq Block
  PROVE  /\ Clean(Create(bd, new)) /\ DOMAIN Create(bd, new) = DOMAIN bd \cup new
         /\ \A b \in new : Ready(Create(bd, new), b)
         /\ \A b : Ready(bd, b) => Ready(Create(bd, new), b)
         /\ \A b \in DOMAIN bd : b \notin new => Create(bd, new)[b] = bd[b]
  <1>1. Bodies(Create(bd, new)) /\ DOMAIN Create(bd, new) = DOMAIN bd \cup new
    BY CreateType DEF Clean
  <1>2. /\ \A b \in new : Create(bd, new)[b] = <<>>
        /\ \A b \in DOMAIN bd \ new : Create(bd, new)[b] = bd[b]
    BY DEF Create
  <1>3. Unended(<<>>) /\ NoInner(<<>>)
    BY DEF Unended, NoInner
  <1> QED BY <1>1, <1>2, <1>3 DEF Clean, Ready

-----------------------------------------------------------------------------
(* The walk over the tree *)

\* the blocks in hand and the activations are of nodes behind the walk, which
\* starts with no block at all
WalkOK == /\ ins[1] < cpc
          /\ \A i \in 1..Len(frames) : frames[i].at < cpc
          /\ phase \in {"parse", "check"} => DOMAIN body = {}

FlowInv == TypeOK /\ TreeOK /\ WalkOK /\ OneTerminator /\ BlocksClosed

(* Behind a node that leaves a list open, or stands in one, comes another   *)
(* node of the same function.                                               *)
LEMMA NextInside ==
  ASSUME TypeOK, TreeOK, phase = "gen", cpc \in Nodes, Inner(Here) >= 1
  PROVE  cpc + 1 \in Nodes /\ prog[cpc + 1].k # "fn"
  <1>1. prog \in Seq(AnyNode) /\ Len(prog) \in Nat /\ (prog = <<>> <=> Len(prog) = 0)
    BY LenProperties, EmptySeq DEF TypeOK, ParserTypeOK
  <1>2. Len(open) = 0 /\ cpc \in 1..Len(prog)
    BY DEF TreeOK, Nodes
  <1>3. cpc # Len(prog)
    BY <1>1, <1>2 DEF TreeOK, Here
  <1>4. cpc + 1 \in 1..Len(prog)
    BY <1>1, <1>2, <1>3
  <1>5. Level(prog[cpc + 1]) = Inner(prog[cpc + 1 - 1])
    BY <1>2, <1>4 DEF TreeOK, Nodes
  <1> QED BY <1>2, <1>4, <1>5 DEF TreeOK, Nodes, Here

(* Every node but a header and the end of a function is of that sort.       *)
LEMMA OpenList ==
  ASSUME TypeOK, TreeOK, cpc \in Nodes, Here.k # "endfn"
  PROVE  Inner(Here) >= 1
  <1>1. Here.d \in Nat
    <2>1. prog \in Seq(AnyNode) /\ cpc \in 1..Len(prog)
      BY DEF TypeOK, ParserTypeOK, Nodes
    <2>2. Here \in AnyNode
      BY <2>1, ElementOfSeq DEF Here
    <2> QED BY <2>2 DEF AnyNode
  <1>2. /\ Here.k = "fn" <=> Level(Here) = 0
        /\ Here.k \in Closers => (Here.k = "endfn" <=> Here.d = 0)
    BY DEF TreeOK, Here
  <1>3. CASE Here.k \in Openers
    BY <1>1, <1>3 DEF Inner
  <1>4. CASE Here.k \in Closers
    BY <1>1, <1>2, <1>4 DEF Inner
  <1>5. CASE Here.k \notin Openers \cup Closers
    BY <1>1, <1>2, <1>5 DEF Inner, Level, Openers
  <1> QED BY <1>3, <1>4, <1>5

(* The end of a list, where genStmtList resumes after a block ended early,  *)
(* is a node of the same function.                                          *)
LEMMA ListEndInside ==
  ASSUME TypeOK, TreeOK, cpc \in Nodes, Here.k \in Statements, NEW j \in ListEnds(cpc)
  PROVE  j \in Nodes /\ j > cpc /\ prog[j].k # "fn"
  <1>1. /\ Len(prog) \in Nat /\ cpc \in 1..Len(prog)
        /\ \A i \in 1..Len(prog) : prog[i].d \in Nat
    <2>1. prog \in Seq(AnyNode) /\ Len(prog) \in Nat /\ cpc \in 1..Len(prog)
      BY LenProperties DEF TypeOK, ParserTypeOK, Nodes
    <2>2. \A i \in 1..Len(prog) : prog[i] \in AnyNode
      BY <2>1, ElementOfSeq
    <2> QED BY <2>1, <2>2 DEF AnyNode
  <1>2. /\ j \in (cpc + 1)..Len(prog)
        /\ \A k \in cpc..(j - 1) : prog[k].d >= prog[cpc].d
    BY DEF ListEnds
  <1>3. j \in 1..Len(prog) /\ j - 1 \in 1..Len(prog) /\ j # 1 /\ j - 1 \in cpc..(j - 1)
    BY <1>1, <1>2
  <1>4. Level(prog[j]) = Inner(prog[j - 1])
    BY <1>3 DEF TreeOK, Nodes
  <1>5. Inner(prog[j - 1]) >= prog[cpc].d
    BY <1>1, <1>2, <1>3 DEF Inner
  <1>6. prog[cpc].d >= 1
    <2>1. prog[cpc].k # "fn" /\ prog[cpc].k \notin Closers
      BY DEF Here, Statements, Simple, Closers
    <2>2. Level(prog[cpc]) # 0
      BY <2>1 DEF TreeOK
    <2> QED BY <1>1, <2>1, <2>2 DEF Level
  <1>7. Level(prog[j]) # 0
    BY <1>1, <1>3, <1>4, <1>5, <1>6 DEF Inner
  <1> QED BY <1>1, <1>2, <1>3, <1>7 DEF TreeOK, Nodes

(* A statement is generated into a block that can take more.                *)
LEMMA AtStatementReady ==
  ASSUME FlowInv, NEW kinds, AtStatement(kinds)
  PROVE  Ready(body, ins)
  <1>1. ~Ended(body[ins])
    BY DEF AtStatement, Terminated, Ended
  <1>2. ASSUME ins \in DOMAIN body PROVE Unended(body[ins])
    <2>1. body[ins] \in Seq(Instr) /\ NoInner(body[ins])
      BY <1>2 DEF FlowInv, TypeOK, GenTypeOK, OneTerminator, NoInner
    <2> QED BY <1>1, <2>1, EndedFacts
  <1> QED BY <1>2 DEF Ready

-----------------------------------------------------------------------------
(* The blocks the activations still have to enter *)

Awaited(fs) == UNION {Pending(fs[i]) : i \in 1..Len(fs)}

(* Pushing an activation adds its blocks.                                   *)
LEMMA AwaitedPush ==
  ASSUME NEW fs \in Seq(Frame), NEW f \in Frame
  PROVE  Awaited(Append(fs, f)) = Awaited(fs) \cup Pending(f)
  <1>1. /\ Len(fs) \in Nat /\ Len(Append(fs, f)) = Len(fs) + 1
        /\ \A i \in 1..Len(fs) : Append(fs, f)[i] = fs[i]
        /\ Append(fs, f)[Len(fs) + 1] = f
    BY LenProperties, AppendProperties
  <1> DEFINE t == Append(fs, f)
  <1>2. ASSUME NEW b PROVE b \in Awaited(t) <=> b \in Awaited(fs) \cup Pending(f)
    <2>1. b \in Awaited(t) <=> \E i \in 1..Len(t) : b \in Pending(t[i])
      BY DEF Awaited
    <2>2. b \in Awaited(fs) <=> \E i \in 1..Len(fs) : b \in Pending(fs[i])
      BY DEF Awaited
    <2> HIDE DEF t
    <2>3. ASSUME NEW i \in 1..Len(t), b \in Pending(t[i])
          PROVE  b \in Awaited(fs) \cup Pending(f)
      <3>1. CASE i = Len(fs) + 1
        BY <1>1, <2>3, <3>1 DEF t
      <3>2. CASE i \in 1..Len(fs)
        BY <1>1, <2>2, <2>3, <3>2 DEF t
      <3> QED BY <1>1, <3>1, <3>2 DEF t
    <2>4. ASSUME NEW i \in 1..Len(fs), b \in Pending(fs[i]) PROVE b \in Awaited(t)
      <3>1. i \in 1..Len(t) /\ t[i] = fs[i]
        BY <1>1 DEF t
      <3> QED BY <2>1, <2>4, <3>1
    <2>5. ASSUME b \in Pending(f) PROVE b \in Awaited(t)
      <3>1. Len(t) \in 1..Len(t) /\ t[Len(t)] = f
        BY <1>1 DEF t
      <3> QED BY <2>1, <2>5, <3>1
    <2> QED BY <2>1, <2>2, <2>3, <2>4, <2>5
  <1> QED BY <1>2

(* Popping one takes away no block but its own.                             *)
LEMMA AwaitedPop ==
  ASSUME NEW fs \in Seq(Frame), fs # <<>>
  PROVE  Awaited(fs) \subseteq Awaited(Front(fs)) \cup Pending(Last(fs))
  <1>1. /\ Len(fs) \in Nat \ {0} /\ Len(Front(fs)) = Len(fs) - 1
        /\ \A i \in 1..Len(Front(fs)) : Front(fs)[i] = fs[i]
        /\ Last(fs) = fs[Len(fs)]
    BY FrontFacts DEF Last
  <1>2. ASSUME NEW i \in 1..Len(fs), NEW b \in Pending(fs[i])
        PROVE  b \in Awaited(Front(fs)) \cup Pending(Last(fs))
    <2>1. CASE i = Len(fs)
      BY <1>1, <1>2, <2>1
    <2>2. CASE i # Len(fs)
      <3>1. i \in 1..Len(Front(fs)) /\ b \in Pending(Front(fs)[i])
        BY <1>1, <1>2, <2>2
      <3> QED BY <3>1 DEF Awaited
    <2> QED BY <2>1, <2>2
  <1> QED BY <1>2 DEF Awaited

-----------------------------------------------------------------------------
(* The invariant, stage by stage *)

\* the part of the invariant that speaks of the blocks, in terms of the body
BlocksOK == /\ \A b \in DOMAIN body : NoInner(body[b])
            /\ \A b \in DOMAIN body :
                 Ended(body[b]) \/ (Inside /\ (b = ins \/ b \in Awaited(frames)))

(* The two properties of the blocks, restated through Ended.                *)
LEMMA FlowParts ==
  /\ OneTerminator /\ BlocksClosed <=> BlocksOK
  BY DEF OneTerminator, BlocksClosed, BlocksOK, NoInner, Ended, Terminated, Waiting, Awaited

(* Before the generator starts there is no block, and the node it will      *)
(* start at may still change.                                               *)
LEMMA BeforeGen ==
  ASSUME FlowInv, TypeOK', TreeOK', phase \in {"parse", "check"}, UNCHANGED genVars
  PROVE  FlowInv'
  <1>1. DOMAIN body' = {} /\ WalkOK'
    BY DEF FlowInv, WalkOK, genVars
  <1>2. BlocksOK'
    BY <1>1 DEF BlocksOK
  <1> QED BY <1>1, <1>2, FlowParts, PTL DEF FlowInv

(* The invariant holds after a step if its parts do.                        *)
LEMMA FlowNext ==
  ASSUME TypeOK', TreeOK', WalkOK', BlocksOK'
  PROVE  FlowInv'
  BY FlowParts, PTL DEF FlowInv

(* A throw, and the end of generate(), leave the blocks and the walk alone. *)
LEMMA StandStill ==
  ASSUME FlowInv, TypeOK', TreeOK', UNCHANGED genVars, UNCHANGED prog,
         phase' \in {"gen", "done", "failed"}
  PROVE  FlowInv'
  <1>1. WalkOK'
    BY DEF FlowInv, WalkOK, genVars
  <1>2. BlocksOK
    BY FlowParts DEF FlowInv
  <1>3. BlocksOK'
    BY <1>2 DEF BlocksOK, Inside, Nodes, Awaited, genVars
  <1> QED BY <1>1, <1>3, FlowNext

\* a step of the generator over a node that it gets past
Passing == /\ FlowInv /\ TypeOK' /\ TreeOK' /\ phase = "gen" /\ cpc \in Nodes
           /\ UNCHANGED <<prog, phase>> /\ Ahead

(* Past any node but the end of a function the walk is inside one.          *)
LEMMA PassingInside ==
  ASSUME Passing, Here.k # "endfn"
  PROVE  Inside'
  <1>1. Inner(Here) >= 1
    BY OpenList DEF Passing, FlowInv
  <1>2. cpc + 1 \in Nodes /\ prog[cpc + 1].k # "fn"
    BY <1>1, NextInside DEF Passing, FlowInv
  <1> QED BY <1>2 DEF Passing, Ahead, Inside, Nodes

(* The activations are of nodes behind the walk.                            *)
LEMMA FramesBehind ==
  ASSUME FlowInv
  PROVE  /\ frames \in Seq(Frame) /\ cpc \in Nat /\ ins[1] \in Nat /\ ins[1] < cpc
         /\ \A i \in 1..Len(frames) : frames[i].at \in Nat /\ frames[i].at < cpc
  <1>1. frames \in Seq(Frame) /\ cpc \in Nat /\ ins \in Block
    BY DEF FlowInv, TypeOK, GenTypeOK
  <1>2. \A i \in 1..Len(frames) : frames[i] \in Frame
    BY <1>1, ElementOfSeq
  <1> QED BY <1>1, <1>2 DEF FlowInv, WalkOK, Frame, Block

(* A statement that adds to blocks without leaving the insertion block.     *)
LEMMA StraightOn ==
  ASSUME Passing, Here.k # "endfn", UNCHANGED <<ins, frames>>,
         Clean(body'), DOMAIN body' = DOMAIN body, Keeps(body, body')
  PROVE  FlowInv'
  <1>1. cpc \in Nat /\ cpc' = cpc + 1 /\ ins[1] \in Nat /\ frames \in Seq(Frame)
    BY DEF Passing, FlowInv, TypeOK, GenTypeOK, Ahead, Block
  <1>2. \A i \in 1..Len(frames) : frames[i].at \in Nat
    BY <1>1, FramesBehind DEF Passing
  <1>3. WalkOK'
    BY <1>1, <1>2 DEF Passing, FlowInv, WalkOK
  <1>4. BlocksOK /\ Inside'
    BY FlowParts, PassingInside DEF Passing, FlowInv
  <1>5. BlocksOK'
    BY <1>4 DEF BlocksOK, Clean, Keeps
  <1> QED BY <1>3, <1>5, FlowNext DEF Passing

(* The blocks are clean to begin with.                                      *)
LEMMA FlowClean ==
  ASSUME FlowInv
  PROVE  Clean(body)
  BY FlowParts DEF FlowInv, BlocksOK, Clean, Bodies, TypeOK, GenTypeOK

(* The statements that evaluate an operand and append one instruction.      *)
LEMMA EvalThenEmit ==
  ASSUME FlowInv, Ready(body, ins), NEW u \in Operand \cup {None}, NEW x \in Instr, cpc \in Nat
  PROVE  /\ Clean(Emit(GenExpr(body, ins, u), ins, <<x>>))
         /\ DOMAIN Emit(GenExpr(body, ins, u), ins, <<x>>) = DOMAIN body
         /\ Keeps(body, Emit(GenExpr(body, ins, u), ins, <<x>>))
  <1> DEFINE bd1 == GenExpr(body, ins, u)
             end == Emit(bd1, ins, <<x>>)
  <1>1. Clean(bd1) /\ DOMAIN bd1 = DOMAIN body /\ Keeps(body, bd1) /\ Ready(bd1, ins)
    BY FlowClean, GenExprClean
  <1>2. <<x>> \in Seq(Instr) /\ NoInner(<<x>>)
    BY OneInstruction
  <1> HIDE DEF bd1
  <1>3. Clean(end) /\ DOMAIN end = DOMAIN bd1 /\ Keeps(bd1, end)
    BY <1>1, <1>2, EmitClean
  <1> HIDE DEF end
  <1>4. Keeps(body, end)
    BY <1>1, <1>3 DEF Keeps
  <1> QED BY <1>1, <1>3, <1>4 DEF end, bd1

(* GenVarDecl, GenAssign, GenPartAssign, GenExprStmt, GenReturn, GenBreak   *)
(* and GenContinue keep the invariant.                                      *)
LEMMA SimpleFlow ==
  ASSUME FlowInv, TypeOK', TreeOK', UNCHANGED prog,
         \/ GenVarDecl \/ GenAssign \/ GenPartAssign \/ GenExprStmt \/ GenReturn
         \/ GenBreak \/ GenContinue
  PROVE  FlowInv'
  <1>1. ASSUME NEW code, GenThrow(code) PROVE FlowInv'
    BY <1>1, StandStill DEF GenThrow, Throw
  <1>2. ASSUME NEW u, UndeclaredUse(u) PROVE FlowInv'
    BY <1>1, <1>2 DEF UndeclaredUse
  <1>3. ASSUME NEW kinds, AtStatement(kinds), "endfn" \notin kinds
        PROVE  /\ Here \in AnyNode /\ cpc \in Nodes /\ cpc \in Nat /\ phase = "gen"
               /\ Here.k # "endfn" /\ Ready(body, ins)
               /\ Here.u \in Operand \cup {None}
               /\ Here.k \in {"decl", "assign", "part"} => Here.v \in Vars
    <2>1. cpc \in Nodes /\ cpc \in 1..Len(prog) /\ cpc \in Nat /\ phase = "gen" /\ Here.k # "endfn"
      BY <1>3 DEF AtStatement, Generating, Nodes, FlowInv, TypeOK, GenTypeOK
    <2>2. Here \in AnyNode
      BY <2>1, ElementOfSeq DEF Here, FlowInv, TypeOK, ParserTypeOK
    <2>3. Here.k \in {"decl", "assign", "part"} => Here.v \in Vars
      BY <2>1 DEF Here, FlowInv, TypeOK, ParserTypeOK
    <2> QED BY <1>3, <2>1, <2>2, <2>3, AtStatementReady DEF AnyNode
  <1>4. ASSUME NEW kinds, AtStatement(kinds), "endfn" \notin kinds,
               Ahead, UNCHANGED <<ins, frames, mainVars>>,
               Clean(body') /\ DOMAIN body' = DOMAIN body /\ Keeps(body, body')
        PROVE  FlowInv'
    <2>1. Passing /\ Here.k # "endfn"
      BY <1>3, <1>4 DEF Passing, mainVars
    <2> QED BY <1>4, <2>1, StraightOn
  <1>5. ASSUME NEW kinds, AtStatement(kinds), "endfn" \notin kinds,
               Ahead, UNCHANGED <<ins, frames, mainVars>>, NEW x \in Instr,
               body' = Emit(GenExpr(body, ins, Here.u), ins, <<x>>)
        PROVE  FlowInv'
    BY <1>3, <1>4, <1>5, EvalThenEmit
  <1>6. CASE GenVarDecl
    <2>1. AtStatement({"decl"}) /\ Here.k = "decl"
      BY <1>6 DEF GenVarDecl, AtStatement, Generating
    <2>2. /\ cpc \in Nat /\ Here.v \in Vars /\ Here.u \in Operand \cup {None}
          /\ Ready(body, ins)
      BY <1>3, <2>1
    <2> DEFINE bd1 == AddSlot(body, Here.v)
               bd2 == GenExpr(bd1, ins, Here.u)
               code == <<Store(Here.v, Here.u)>>
               end == Emit(bd2, ins, code)
    <2>3. ASSUME body' = end, Ahead, UNCHANGED <<cfn, ins, frames, loopStack, mainVars>>
          PROVE  FlowInv'
      <3>1. Clean(bd1) /\ DOMAIN bd1 = DOMAIN body /\ Keeps(body, bd1) /\ Ready(bd1, ins)
        BY <2>2, FlowClean, AddSlotClean
      <3>u. Here.u \in Operand \cup {None}
        BY <2>2
      <3> HIDE DEF bd1
      <3>2. Clean(bd2) /\ DOMAIN bd2 = DOMAIN bd1 /\ Keeps(bd1, bd2) /\ Ready(bd2, ins)
        BY <2>2, <3>u, <3>1, GenExprClean
      <3>3. Store(Here.v, Here.u) \in Instr
        BY <2>2 DEF Store, I, Instr, InstrKind
      <3>4. code \in Seq(Instr) /\ NoInner(code)
        BY <3>3, OneInstruction
      <3> HIDE DEF bd2, code
      <3>5. Clean(end) /\ DOMAIN end = DOMAIN bd2 /\ Keeps(bd2, end)
        BY <3>2, <3>4, EmitClean
      <3> HIDE DEF end
      <3>6. Keeps(body, end)
        BY <3>1, <3>2, <3>5 DEF Keeps
      <3> QED BY <1>4, <2>1, <2>3, <3>1, <3>2, <3>5, <3>6
    <2>4. FlowInv' \/ (body' = end /\ Ahead /\ UNCHANGED <<cfn, ins, frames, loopStack, mainVars>>)
      BY <1>1, <1>2, <1>6 DEF GenVarDecl
    <2> QED BY <2>3, <2>4
  <1>7. CASE GenAssign
    <2>1. AtStatement({"assign"}) /\ Here.k = "assign"
      BY <1>7 DEF GenAssign, AtStatement, Generating
    <2>2. cpc \in Nat /\ Here.v \in Vars /\ Here.u \in Operand \cup {None}
      BY <1>3, <2>1
    <2>3. Store(Here.v, Here.u) \in Instr
      BY <2>2 DEF Store, I, Instr, InstrKind
    <2>4. \/ FlowInv'
          \/ /\ body' = Emit(GenExpr(body, ins, Here.u), ins, <<Store(Here.v, Here.u)>>)
             /\ Ahead /\ UNCHANGED <<ins, frames, mainVars>>
      BY <1>1, <1>2, <1>7 DEF GenAssign
    <2> QED BY <1>5, <2>1, <2>3, <2>4
  <1>8. CASE GenPartAssign
    <2>1. AtStatement({"part"}) /\ Here.k = "part"
      BY <1>8 DEF GenPartAssign, AtStatement, Generating
    <2>2. cpc \in Nat /\ Here.v \in Vars /\ Here.u \in Operand \cup {None}
      BY <1>3, <2>1
    <2>3. StorePart(Here.v, Here.u) \in Instr
      BY <2>2 DEF StorePart, I, Instr, InstrKind
    <2>4. \/ FlowInv'
          \/ /\ body' = Emit(GenExpr(body, ins, Here.u), ins, <<StorePart(Here.v, Here.u)>>)
             /\ Ahead /\ UNCHANGED <<ins, frames, mainVars>>
      BY <1>1, <1>2, <1>8 DEF GenPartAssign
    <2> QED BY <1>5, <2>1, <2>3, <2>4
  <1>9. CASE GenExprStmt
    <2>1. AtStatement({"expr"})
      BY <1>9 DEF GenExprStmt
    <2>2. cpc \in Nat /\ Here.u \in Operand \cup {None} /\ Ready(body, ins)
      BY <1>3, <2>1
    <2>3. /\ Clean(GenExpr(body, ins, Here.u)) /\ Keeps(body, GenExpr(body, ins, Here.u))
          /\ DOMAIN GenExpr(body, ins, Here.u) = DOMAIN body
      BY <2>2, FlowClean, GenExprClean
    <2>4. \/ FlowInv'
          \/ /\ body' = GenExpr(body, ins, Here.u)
             /\ Ahead /\ UNCHANGED <<ins, frames, mainVars>>
      BY <1>2, <1>9 DEF GenExprStmt
    <2> QED BY <1>4, <2>1, <2>3, <2>4
  <1>10. CASE GenReturn
    <2>1. AtStatement({"ret"})
      BY <1>10 DEF GenReturn
    <2>2. cpc \in Nat /\ Here.u \in Operand \cup {None}
      BY <1>3, <2>1
    <2>3. Ret(Here.u) \in Instr
      BY <2>2 DEF Ret, I, Instr, InstrKind
    <2>4. \/ FlowInv'
          \/ /\ body' = Emit(GenExpr(body, ins, Here.u), ins, <<Ret(Here.u)>>)
             /\ Ahead /\ UNCHANGED <<ins, frames, mainVars>>
      BY <1>2, <1>10 DEF GenReturn
    <2> QED BY <1>5, <2>1, <2>3, <2>4
  <1>11. ASSUME NEW k \in {"stop", "cont"}, NEW target \in {"breakBB", "continueBB"},
                NEW code, Leave(k, target, code)
         PROVE  FlowInv'
    <2>1. AtStatement({k}) /\ "endfn" \notin {k}
      BY <1>11 DEF Leave
    <2> DEFINE to == Last(loopStack)[target]
    <2>2. ASSUME loopStack # <<>>, Ahead, UNCHANGED <<ins, frames, mainVars>>,
                 body' = Emit(body, ins, <<Br(to)>>)
          PROVE  FlowInv'
      <3>1. to \in Block
        <4>1. Last(loopStack) \in [continueBB : Block, breakBB : Block]
          BY <2>2, FrontFacts DEF FlowInv, TypeOK, GenTypeOK
        <4>2. CASE target = "breakBB"
          BY <4>1, <4>2
        <4>3. CASE target = "continueBB"
          BY <4>1, <4>3
        <4> QED BY <1>11, <4>2, <4>3
      <3> HIDE DEF to
      <3>2. <<Br(to)>> \in Seq(Instr) /\ NoInner(<<Br(to)>>)
        BY <1>3, <2>1, <3>1, TerminatorType, OneInstruction
      <3>3. Clean(body') /\ DOMAIN body' = DOMAIN body /\ Keeps(body, body')
        BY <1>3, <2>1, <2>2, <3>2, FlowClean, EmitClean
      <3> QED BY <1>4, <2>1, <2>2, <3>3
    <2>3. \/ FlowInv'
          \/ /\ loopStack # <<>> /\ Ahead /\ UNCHANGED <<ins, frames, mainVars>>
             /\ body' = Emit(body, ins, <<Br(to)>>)
      BY <1>1, <1>11 DEF Leave
    <2> QED BY <2>2, <2>3
  <1>12. CASE GenBreak
    BY <1>11, <1>12 DEF GenBreak
  <1>13. CASE GenContinue
    BY <1>11, <1>13 DEF GenContinue
  <1> QED BY <1>6, <1>7, <1>8, <1>9, <1>10, <1>12, <1>13

-----------------------------------------------------------------------------
(* Blocks that are entered and left *)

(* A step past a node that moves to another insertion block keeps the       *)
(* invariant if every block is ended, is the new insertion block, or is     *)
(* awaited by an activation.                                                *)
LEMMA MovesOn ==
  ASSUME Passing, Here.k # "endfn", Clean(body'), ins'[1] \in Nat, ins'[1] <= cpc,
         \A i \in 1..Len(frames') : frames'[i].at \in Nat /\ frames'[i].at <= cpc,
         \A b \in DOMAIN body' : Ended(body'[b]) \/ b = ins' \/ b \in Awaited(frames')
  PROVE  FlowInv'
  <1>1. cpc \in Nat /\ cpc' = cpc + 1 /\ phase' = "gen"
    BY DEF Passing, FlowInv, TypeOK, GenTypeOK, Ahead
  <1>2. WalkOK'
    BY <1>1 DEF WalkOK
  <1>3. Inside'
    BY PassingInside
  <1>4. BlocksOK'
    BY <1>3 DEF BlocksOK, Clean
  <1> QED BY <1>2, <1>4, FlowNext DEF Passing

(* Activations pushed and popped at a node are behind the walk.             *)
LEMMA PushedFrames ==
  ASSUME FlowInv, NEW fs \in Seq(Frame), NEW f \in Frame, f.at <= cpc,
         \A i \in 1..Len(fs) : fs[i].at \in Nat /\ fs[i].at <= cpc
  PROVE  /\ Append(fs, f) \in Seq(Frame)
         /\ \A i \in 1..Len(Append(fs, f)) :
              Append(fs, f)[i].at \in Nat /\ Append(fs, f)[i].at <= cpc
  <1>1. /\ Append(fs, f) \in Seq(Frame)
        /\ Len(fs) \in Nat /\ Len(Append(fs, f)) = Len(fs) + 1
        /\ \A i \in 1..Len(fs) : Append(fs, f)[i] = fs[i]
        /\ Append(fs, f)[Len(fs) + 1] = f
    BY LenProperties, AppendProperties
  <1>2. f.at \in Nat
    BY DEF Frame
  <1> QED BY <1>1, <1>2

(* Popping an activation leaves the others behind the walk.                 *)
LEMMA PoppedFrames ==
  ASSUME FlowInv, frames # <<>>
  PROVE  /\ Front(frames) \in Seq(Frame)
         /\ \A i \in 1..Len(Front(frames)) :
              Front(frames)[i].at \in Nat /\ Front(frames)[i].at <= cpc
         /\ Last(frames) \in Frame /\ Last(frames).at \in Nat /\ Last(frames).at < cpc
  <1>1. /\ Front(frames) \in Seq(Frame) /\ Last(frames) \in Frame
        /\ Len(frames) \in Nat \ {0} /\ Len(Front(frames)) = Len(frames) - 1
        /\ \A i \in 1..Len(Front(frames)) : Front(frames)[i] = frames[i]
        /\ Last(frames) = frames[Len(frames)]
    BY FramesBehind, FrontFacts DEF Last
  <1> QED BY <1>1, FramesBehind

(* What holds of the blocks before a step, in terms of Ended.               *)
LEMMA OpenBlocks ==
  ASSUME FlowInv, NEW b \in DOMAIN body
  PROVE  Ended(body[b]) \/ b = ins \/ b \in Awaited(frames)
  BY FlowParts DEF FlowInv, BlocksOK

(* genIf: its three blocks are the new insertion block and two that are     *)
(* awaited.                                                                 *)
LEMMA IfFlow ==
  ASSUME FlowInv, TypeOK', TreeOK', UNCHANGED prog, GenIf
  PROVE  FlowInv'
  <1>1. CASE UndeclaredUse(Here.u)
    BY <1>1, StandStill DEF UndeclaredUse, GenThrow, Throw
  <1>2. CASE ~UndeclaredUse(Here.u)
    <2> DEFINE thenBB == <<cpc, "then">>
               elseBB == <<cpc, "else">>
               mergeBB == <<cpc, "merge">>
               new == {thenBB, elseBB, mergeBB}
               f == [k |-> "then", at |-> cpc]
               bd1 == GenExpr(body, ins, Here.u)
               bd2 == Create(bd1, new)
               code == <<CondBr(Here.u, thenBB, elseBB)>>
               end == Emit(bd2, ins, code)
    <2>1. /\ body' = end /\ ins' = thenBB /\ frames' = Append(frames, f)
          /\ Ahead /\ UNCHANGED mainVars /\ AtStatement({"if"})
      BY <1>2 DEF GenIf, Push
    <2>2. /\ cpc \in Nodes /\ cpc \in Nat /\ phase = "gen" /\ Here.k = "if"
          /\ Here.u \in Operand \cup {None}
      <3>1. cpc \in 1..Len(prog) /\ cpc \in Nat /\ phase = "gen" /\ Here.k = "if"
        BY <2>1 DEF AtStatement, Generating, FlowInv, TypeOK, GenTypeOK
      <3>2. Here \in AnyNode
        BY <3>1, ElementOfSeq DEF Here, FlowInv, TypeOK, ParserTypeOK
      <3> QED BY <3>1, <3>2 DEF AnyNode, Nodes
    <2>3. thenBB \in Block /\ elseBB \in Block /\ mergeBB \in Block
      BY <2>2, BlockNames DEF Roles
    <2>4. Ready(body, ins)
      BY <2>1, AtStatementReady
    <2>5. Clean(bd1) /\ DOMAIN bd1 = DOMAIN body /\ Keeps(body, bd1) /\ Ready(bd1, ins)
      BY <2>2, <2>4, FlowClean, GenExprClean
    <2>6. code \in Seq(Instr) /\ NoInner(code) /\ Ended(code)
      <3>1. CondBr(Here.u, thenBB, elseBB).k \in Terminators
        BY DEF CondBr, I, Terminators
      <3> QED BY <2>2, <2>3, <3>1, TerminatorType, OneInstruction
    <2>f. f \in Frame /\ f.at = cpc /\ f.k = "then"
      BY <2>2 DEF Frame
    <2>p. Pending(f) = {elseBB, mergeBB}
      BY DEF Pending
    <2>i. ins'[1] = cpc
      BY <2>1
    <2>b. new \subseteq Block
      BY <2>3
    <2>n. new = {thenBB, elseBB, mergeBB}
      OBVIOUS
    <2> HIDE DEF bd1, new, code
    <2>7. /\ Clean(bd2) /\ DOMAIN bd2 = DOMAIN bd1 \cup new /\ Ready(bd2, ins)
          /\ \A b \in DOMAIN bd1 : b \notin new => bd2[b] = bd1[b]
      <3>1. /\ Clean(bd2) /\ DOMAIN bd2 = DOMAIN bd1 \cup new
            /\ \A b : Ready(bd1, b) => Ready(bd2, b)
            /\ \A b \in DOMAIN bd1 : b \notin new => bd2[b] = bd1[b]
        BY <2>5, <2>b, CreateClean
      <3> HIDE DEF bd2
      <3> QED BY <2>5, <3>1
    <2> HIDE DEF bd2
    <2>8. /\ Clean(end) /\ DOMAIN end = DOMAIN bd2 /\ Keeps(bd2, end)
          /\ ins \in DOMAIN bd2 => Ended(end[ins])
      BY <2>6, <2>7, EmitClean
    <2> HIDE DEF end, f, thenBB, elseBB, mergeBB
    <2>9. /\ Awaited(frames') = Awaited(frames) \cup {elseBB, mergeBB}
          /\ \A i \in 1..Len(frames') : frames'[i].at \in Nat /\ frames'[i].at <= cpc
      <3>1. /\ frames \in Seq(Frame) /\ cpc \in Nat
            /\ \A i \in 1..Len(frames) : frames[i].at \in Nat /\ frames[i].at <= cpc
        BY FramesBehind
      <3> QED BY <2>1, <2>f, <2>p, <3>1, AwaitedPush, PushedFrames
    <2>10. ASSUME NEW b \in DOMAIN end
           PROVE  Ended(end[b]) \/ b = ins' \/ b \in Awaited(frames')
      <3>1. CASE b \in new
        BY <2>1, <2>9, <2>n, <3>1
      <3>2. CASE b \notin new
        <4>1. b \in DOMAIN body /\ b \in DOMAIN bd1 /\ bd2[b] = bd1[b] /\ b \in DOMAIN bd2
          BY <2>5, <2>7, <2>8, <2>10, <3>2
        <4>2. CASE b = ins
          BY <2>8, <4>1, <4>2
        <4>3. CASE b \in Awaited(frames)
          BY <2>9, <4>3
        <4>4. CASE Ended(body[b])
          BY <2>5, <2>8, <4>1, <4>4 DEF Keeps
        <4> QED BY <4>1, <4>2, <4>3, <4>4, OpenBlocks
      <3> QED BY <3>1, <3>2
    <2>11. Passing
      BY <2>1, <2>2 DEF Passing, mainVars
    <2> QED BY <2>1, <2>2, <2>8, <2>9, <2>10, <2>11, <2>i, MovesOn
  <1> QED BY <1>1, <1>2

(* genLoop: its test is closed at once, its body is the insertion block and *)
(* the block behind it is awaited.                                          *)
LEMMA LoopFlow ==
  ASSUME FlowInv, TypeOK', TreeOK', UNCHANGED prog, GenLoop
  PROVE  FlowInv'
  <1>1. CASE UndeclaredUse(Here.u)
    BY <1>1, StandStill DEF UndeclaredUse, GenThrow, Throw
  <1>2. CASE ~UndeclaredUse(Here.u)
    <2> DEFINE condBB == <<cpc, "cond">>
               bodyBB == <<cpc, "body">>
               afterBB == <<cpc, "after">>
               new == {condBB, bodyBB, afterBB}
               f == [k |-> "loop", at |-> cpc]
               bd1 == Create(body, new)
               enter == <<Br(condBB)>>
               bd2 == Emit(bd1, ins, enter)
               bd3 == GenExpr(bd2, condBB, Here.u)
               code == <<CondBr(Here.u, bodyBB, afterBB)>>
               end == Emit(bd3, condBB, code)
    <2>1. /\ body' = end /\ ins' = bodyBB /\ frames' = Append(frames, f)
          /\ Ahead /\ UNCHANGED mainVars /\ AtStatement({"loop"})
      BY <1>2 DEF GenLoop, Push
    <2>2. /\ cpc \in Nodes /\ cpc \in Nat /\ phase = "gen" /\ Here.k = "loop"
          /\ Here.u \in Operand \cup {None}
      <3>1. cpc \in 1..Len(prog) /\ cpc \in Nat /\ phase = "gen" /\ Here.k = "loop"
        BY <2>1 DEF AtStatement, Generating, FlowInv, TypeOK, GenTypeOK
      <3>2. Here \in AnyNode
        BY <3>1, ElementOfSeq DEF Here, FlowInv, TypeOK, ParserTypeOK
      <3> QED BY <3>1, <3>2 DEF AnyNode, Nodes
    <2>u. Here.u \in Operand \cup {None} /\ cpc \in Nat
      BY <2>2
    <2>3. condBB \in Block /\ bodyBB \in Block /\ afterBB \in Block
      BY <2>2, BlockNames DEF Roles
    <2>4. Ready(body, ins)
      BY <2>1, AtStatementReady
    <2>5. enter \in Seq(Instr) /\ NoInner(enter) /\ Ended(enter)
      <3>1. Br(condBB).k \in Terminators
        BY DEF Br, I, Terminators
      <3> QED BY <2>2, <2>3, <3>1, TerminatorType, OneInstruction
    <2>6. code \in Seq(Instr) /\ NoInner(code) /\ Ended(code)
      <3>1. CondBr(Here.u, bodyBB, afterBB).k \in Terminators
        BY DEF CondBr, I, Terminators
      <3> QED BY <2>2, <2>3, <3>1, TerminatorType, OneInstruction
    <2>c. condBB # ins /\ condBB[1] = cpc
      BY FramesBehind
    <2>f. f \in Frame /\ f.at = cpc /\ f.k = "loop"
      BY <2>2 DEF Frame
    <2>p. Pending(f) = {afterBB}
      BY DEF Pending
    <2>i. ins'[1] = cpc
      BY <2>1
    <2>b. new \subseteq Block
      BY <2>3
    <2>n. new = {condBB, bodyBB, afterBB}
      OBVIOUS
    <2> HIDE DEF new, code, enter, condBB, bodyBB, afterBB
    <2>7. /\ Clean(bd1) /\ DOMAIN bd1 = DOMAIN body \cup new
          /\ Ready(bd1, ins) /\ Ready(bd1, condBB)
          /\ \A b \in DOMAIN body : b \notin new => bd1[b] = body[b]
      <3>1. /\ Clean(bd1) /\ DOMAIN bd1 = DOMAIN body \cup new
            /\ \A b : Ready(body, b) => Ready(bd1, b)
            /\ \A b \in new : Ready(bd1, b)
            /\ \A b \in DOMAIN body : b \notin new => bd1[b] = body[b]
        BY <2>b, FlowClean, CreateClean
      <3> HIDE DEF bd1
      <3> QED BY <2>4, <2>n, <3>1
    <2> HIDE DEF bd1
    <2>8. /\ Clean(bd2) /\ DOMAIN bd2 = DOMAIN bd1 /\ Keeps(bd1, bd2)
          /\ ins \in DOMAIN bd1 => Ended(bd2[ins])
          /\ \A b \in DOMAIN bd1 : b # ins => bd2[b] = bd1[b]
      BY <2>5, <2>7, EmitClean
    <2> HIDE DEF bd2
    <2>9. Ready(bd2, condBB)
      BY <2>7, <2>8, <2>c DEF Ready
    <2>10. Clean(bd3) /\ DOMAIN bd3 = DOMAIN bd2 /\ Keeps(bd2, bd3) /\ Ready(bd3, condBB)
      BY <2>u, <2>8, <2>9, GenExprClean
    <2> HIDE DEF bd3
    <2>11. /\ Clean(end) /\ DOMAIN end = DOMAIN bd3 /\ Keeps(bd3, end)
           /\ condBB \in DOMAIN bd3 => Ended(end[condBB])
      BY <2>6, <2>10, EmitClean
    <2> HIDE DEF end, f
    <2>12. /\ Awaited(frames') = Awaited(frames) \cup {afterBB}
           /\ \A i \in 1..Len(frames') : frames'[i].at \in Nat /\ frames'[i].at <= cpc
      <3>1. /\ frames \in Seq(Frame) /\ cpc \in Nat
            /\ \A i \in 1..Len(frames) : frames[i].at \in Nat /\ frames[i].at <= cpc
        BY FramesBehind
      <3> QED BY <2>1, <2>f, <2>p, <3>1, AwaitedPush, PushedFrames
    <2>13. ASSUME NEW b \in DOMAIN end
           PROVE  Ended(end[b]) \/ b = ins' \/ b \in Awaited(frames')
      <3>1. CASE b = condBB
        BY <2>10, <2>11, <2>13, <3>1
      <3>2. CASE b \in {bodyBB, afterBB}
        BY <2>1, <2>12, <3>2
      <3>3. CASE b \notin new
        <4>1. /\ b \in DOMAIN body /\ b \in DOMAIN bd1 /\ bd1[b] = body[b]
              /\ b \in DOMAIN bd2 /\ b \in DOMAIN bd3
          BY <2>7, <2>8, <2>10, <2>11, <2>13, <3>3
        <4>2. ASSUME Ended(bd2[b]) PROVE Ended(end[b])
          BY <2>10, <2>11, <4>1, <4>2 DEF Keeps
        <4>3. CASE b = ins
          BY <2>8, <4>1, <4>2, <4>3
        <4>4. CASE b \in Awaited(frames)
          BY <2>12, <4>4
        <4>5. CASE Ended(body[b])
          BY <2>8, <4>1, <4>2, <4>5 DEF Keeps
        <4> QED BY <4>1, <4>3, <4>4, <4>5, OpenBlocks
      <3> QED BY <2>n, <3>1, <3>2, <3>3
    <2>14. Passing
      BY <2>1, <2>2 DEF Passing, mainVars
    <2> QED BY <2>1, <2>2, <2>11, <2>12, <2>13, <2>14, <2>i, MovesOn
  <1> QED BY <1>1, <1>2

(* The branch at the end of a list ends the insertion block, whichever      *)
(* block it goes to, and no other changes.                                  *)
LEMMA FallToFlow ==
  ASSUME FlowInv, NEW to \in Block
  PROVE  /\ Clean(FallTo(to)) /\ DOMAIN FallTo(to) = DOMAIN body
         /\ \A b \in DOMAIN body : \/ Ended(FallTo(to)[b])
                                   \/ b # ins /\ b \in Awaited(frames)
  <1>1. CASE Terminated(body, ins)
    <2>1. FallTo(to) = body /\ Ended(body[ins])
      BY <1>1 DEF FallTo, Terminated, Ended
    <2>2. ASSUME NEW b \in DOMAIN body
          PROVE  Ended(body[b]) \/ (b # ins /\ b \in Awaited(frames))
      BY <2>1, OpenBlocks
    <2> QED BY <2>1, <2>2, FlowClean
  <1>2. CASE ~Terminated(body, ins)
    <2> DEFINE end == Emit(body, ins, <<Br(to)>>)
    <2>1. FallTo(to) = end
      BY <1>2 DEF FallTo
    <2>2. cpc \in Nat /\ Br(to).k \in Terminators
      BY FramesBehind DEF Br, I, Terminators
    <2>3. <<Br(to)>> \in Seq(Instr) /\ NoInner(<<Br(to)>>) /\ Ended(<<Br(to)>>)
      BY <2>2, TerminatorType, OneInstruction
    <2>4. Ready(body, ins)
      <3>1. ASSUME ins \in DOMAIN body PROVE Unended(body[ins])
        <4>1. body[ins] \in Seq(Instr) /\ NoInner(body[ins]) /\ ~Ended(body[ins])
          BY <1>2, <3>1 DEF FlowInv, TypeOK, GenTypeOK, OneTerminator, NoInner, Terminated, Ended
        <4> QED BY <4>1, EndedFacts
      <3> QED BY <3>1 DEF Ready
    <2>5. /\ Clean(end) /\ DOMAIN end = DOMAIN body /\ Keeps(body, end)
          /\ ins \in DOMAIN body => Ended(end[ins])
      BY <2>3, <2>4, FlowClean, EmitClean
    <2> HIDE DEF end
    <2>6. ASSUME NEW b \in DOMAIN body
          PROVE  Ended(end[b]) \/ (b # ins /\ b \in Awaited(frames))
      BY <2>5, OpenBlocks DEF Keeps
    <2> QED BY <2>1, <2>5, <2>6
  <1> QED BY <1>1, <1>2

(* At the end of a list of an if or a loop the walk stays in the function.  *)
LEMMA AtListEnd ==
  ASSUME FlowInv, TypeOK', TreeOK', UNCHANGED <<prog, mainVars>>, Ahead,
         NEW end \in {"else", "endif", "endloop"}, NEW k, ListEnd(end, k)
  PROVE  /\ Passing /\ Here.k # "endfn" /\ cpc \in Nat
         /\ frames \in Seq(Frame) /\ frames # <<>> /\ Last(frames).k = k
         /\ Last(frames).at \in Nat /\ Last(frames).at < cpc
         /\ \A r \in Roles : <<Last(frames).at, r>> \in Block
  <1>1. Passing /\ Here.k # "endfn"
    BY DEF Passing, mainVars, ListEnd, Generating, Nodes
  <1> QED BY <1>1, FramesBehind, PoppedFrames, BlockNames DEF ListEnd

(* The end of a then list: the else block, awaited so far, is entered.      *)
LEMMA ElseFlow ==
  ASSUME FlowInv, TypeOK', TreeOK', UNCHANGED prog, GenElse
  PROVE  FlowInv'
  <1> DEFINE at == Last(frames).at
             f == [k |-> "else", at |-> at]
             rest == Front(frames)
  <1>1. /\ body' = FallTo(<<at, "merge">>) /\ ins' = <<at, "else">>
        /\ frames' = Append(rest, f) /\ Ahead /\ UNCHANGED mainVars
        /\ ListEnd("else", "then")
    BY DEF GenElse
  <1>2. /\ Passing /\ Here.k # "endfn" /\ frames \in Seq(Frame) /\ frames # <<>>
        /\ Last(frames).k = "then" /\ at \in Nat /\ at < cpc /\ cpc \in Nat
    BY <1>1, AtListEnd
  <1>3. <<at, "merge">> \in Block
    BY <1>2, BlockNames DEF Roles
  <1>4. /\ Clean(body') /\ DOMAIN body' = DOMAIN body
        /\ \A b \in DOMAIN body : Ended(body'[b]) \/ (b # ins /\ b \in Awaited(frames))
    BY <1>1, <1>3, FallToFlow
  <1>5. f \in Frame /\ f.at <= cpc /\ f.at = at /\ f.k = "else"
    BY <1>2 DEF Frame
  <1>6. /\ rest \in Seq(Frame)
        /\ \A i \in 1..Len(rest) : rest[i].at \in Nat /\ rest[i].at <= cpc
    BY <1>2, PoppedFrames
  <1>7. Awaited(frames) \subseteq Awaited(rest) \cup {<<at, "else">>, <<at, "merge">>}
    <2>1. Pending(Last(frames)) = {<<at, "else">>, <<at, "merge">>}
      BY <1>2 DEF Pending
    <2> QED BY <1>2, <2>1, AwaitedPop
  <1>8. Pending(f) = {<<at, "merge">>}
    BY DEF Pending
  <1>9. ins'[1] \in Nat /\ ins'[1] <= cpc
    BY <1>1, <1>2
  <1> HIDE DEF f, rest, at
  <1>10. Awaited(frames') = Awaited(rest) \cup {<<at, "merge">>}
    BY <1>1, <1>5, <1>6, <1>8, AwaitedPush
  <1>11. \A i \in 1..Len(frames') : frames'[i].at \in Nat /\ frames'[i].at <= cpc
    BY <1>1, <1>5, <1>6, PushedFrames
  <1>12. \A b \in DOMAIN body' : Ended(body'[b]) \/ b = ins' \/ b \in Awaited(frames')
    BY <1>1, <1>4, <1>7, <1>10
  <1> QED BY <1>2, <1>4, <1>9, <1>11, <1>12, MovesOn

(* The end of an else list: the merge block, awaited so far, is entered.    *)
LEMMA EndIfFlow ==
  ASSUME FlowInv, TypeOK', TreeOK', UNCHANGED prog, GenEndIf
  PROVE  FlowInv'
  <1> DEFINE merge == <<Last(frames).at, "merge">>
  <1>1. /\ body' = FallTo(merge) /\ ins' = merge /\ frames' = Front(frames)
        /\ Ahead /\ UNCHANGED mainVars /\ ListEnd("endif", "else")
    BY DEF GenEndIf
  <1>2. /\ Passing /\ Here.k # "endfn" /\ frames \in Seq(Frame) /\ frames # <<>>
        /\ Last(frames).k = "else" /\ cpc \in Nat
        /\ Last(frames).at \in Nat /\ Last(frames).at < cpc
    BY <1>1, AtListEnd
  <1>3. merge \in Block /\ merge[1] \in Nat /\ merge[1] <= cpc
    <2>1. "merge" \in Roles
      BY DEF Roles
    <2>2. merge \in Block
      BY <1>1, <2>1, AtListEnd
    <2> QED BY <1>2, <2>2
  <1>4. Pending(Last(frames)) = {merge}
    BY <1>2 DEF Pending
  <1> HIDE DEF merge
  <1>5. /\ Clean(body') /\ DOMAIN body' = DOMAIN body
        /\ \A b \in DOMAIN body : Ended(body'[b]) \/ (b # ins /\ b \in Awaited(frames))
    BY <1>1, <1>3, FallToFlow
  <1>6. Awaited(frames) \subseteq Awaited(frames') \cup {merge}
    BY <1>1, <1>2, <1>4, AwaitedPop
  <1>7. \A i \in 1..Len(frames') : frames'[i].at \in Nat /\ frames'[i].at <= cpc
    BY <1>1, <1>2, PoppedFrames
  <1>8. \A b \in DOMAIN body' : Ended(body'[b]) \/ b = ins' \/ b \in Awaited(frames')
    BY <1>1, <1>5, <1>6
  <1> QED BY <1>1, <1>2, <1>3, <1>5, <1>7, <1>8, MovesOn

(* The end of a loop body: the block behind the loop is entered.            *)
LEMMA EndLoopFlow ==
  ASSUME FlowInv, TypeOK', TreeOK', UNCHANGED prog, GenEndLoop
  PROVE  FlowInv'
  <1> DEFINE cond == <<Last(frames).at, "cond">>
             after == <<Last(frames).at, "after">>
  <1>1. /\ body' = FallTo(cond) /\ ins' = after /\ frames' = Front(frames)
        /\ Ahead /\ UNCHANGED mainVars /\ ListEnd("endloop", "loop")
    BY DEF GenEndLoop
  <1>2. /\ Passing /\ Here.k # "endfn" /\ frames \in Seq(Frame) /\ frames # <<>>
        /\ Last(frames).k = "loop" /\ cpc \in Nat
        /\ Last(frames).at \in Nat /\ Last(frames).at < cpc
    BY <1>1, AtListEnd
  <1>3. cond \in Block /\ after[1] \in Nat /\ after[1] <= cpc
    <2>1. "cond" \in Roles
      BY DEF Roles
    <2>2. cond \in Block
      BY <1>1, <2>1, AtListEnd
    <2> QED BY <1>2, <2>2
  <1>4. Pending(Last(frames)) = {after}
    BY <1>2 DEF Pending
  <1> HIDE DEF cond, after
  <1>5. /\ Clean(body') /\ DOMAIN body' = DOMAIN body
        /\ \A b \in DOMAIN body : Ended(body'[b]) \/ (b # ins /\ b \in Awaited(frames))
    BY <1>1, <1>3, FallToFlow
  <1>6. Awaited(frames) \subseteq Awaited(frames') \cup {after}
    BY <1>1, <1>2, <1>4, AwaitedPop
  <1>7. \A i \in 1..Len(frames') : frames'[i].at \in Nat /\ frames'[i].at <= cpc
    BY <1>1, <1>2, PoppedFrames
  <1>8. \A b \in DOMAIN body' : Ended(body'[b]) \/ b = ins' \/ b \in Awaited(frames')
    BY <1>1, <1>5, <1>6
  <1> QED BY <1>1, <1>2, <1>3, <1>5, <1>7, <1>8, MovesOn

(* Between functions every block is closed, so a function starts with its   *)
(* entry block as the only open one.                                        *)
LEMMA FunctionFlow ==
  ASSUME FlowInv, TypeOK', TreeOK', UNCHANGED prog, GenFunction
  PROVE  FlowInv'
  <1> DEFINE entry == <<cpc, "entry">>
             bd1 == Create(body, {entry})
             code == <<Alloca(Here.v), Store(Here.v, "arg")>>
  <1>1. /\ ins' = entry /\ frames' = frames /\ Ahead /\ UNCHANGED mainVars
        /\ body' = IF Here.v = None THEN bd1 ELSE Emit(bd1, entry, code)
        /\ Generating({"fn"})
    BY DEF GenFunction
  <1>2. /\ cpc \in Nodes /\ cpc \in Nat /\ phase = "gen" /\ Here.k = "fn"
        /\ Here.v \in Vars \cup {None}
    <2>1. cpc \in 1..Len(prog) /\ cpc \in Nat /\ phase = "gen" /\ Here.k = "fn"
      BY <1>1 DEF Generating, FlowInv, TypeOK, GenTypeOK
    <2>2. Here \in AnyNode
      BY <2>1, ElementOfSeq DEF Here, FlowInv, TypeOK, ParserTypeOK
    <2> QED BY <2>1, <2>2 DEF AnyNode, Nodes
  <1>3. Passing /\ Here.k # "endfn"
    BY <1>1, <1>2 DEF Passing, mainVars
  <1>4. {entry} \subseteq Block /\ entry[1] = cpc
    BY <1>2, BlockNames DEF Roles
  <1>5. \A b \in DOMAIN body : Ended(body[b])
    <2>1. ~Inside
      BY <1>2 DEF Inside, Here
    <2> QED BY <2>1, FlowParts DEF FlowInv, BlocksOK
  <1>6. Here.v # None => code \in Seq(Instr) /\ NoInner(code)
    <2>1. ASSUME Here.v # None PROVE Here.v \in Vars
      BY <1>2, <2>1
    <2>2. Here.v # None => code \in Seq(Instr)
      BY <1>2, <2>1, StoreType
    <2>3. Alloca(Here.v).k \notin Terminators
      BY DEF Alloca, I, Terminators
    <2> QED BY <2>2, <2>3 DEF NoInner
  <1> HIDE DEF entry, code
  <1>7. /\ Clean(bd1) /\ DOMAIN bd1 = DOMAIN body \cup {entry} /\ Ready(bd1, entry)
        /\ \A b \in DOMAIN body : b # entry => bd1[b] = body[b]
    <2>1. /\ Clean(bd1) /\ DOMAIN bd1 = DOMAIN body \cup {entry}
          /\ \A b \in {entry} : Ready(bd1, b)
          /\ \A b \in DOMAIN body : b \notin {entry} => bd1[b] = body[b]
      BY <1>4, FlowClean, CreateClean
    <2> HIDE DEF bd1
    <2> QED BY <2>1
  <1> HIDE DEF bd1
  <1>8. /\ Clean(body') /\ DOMAIN body' = DOMAIN bd1
        /\ \A b \in DOMAIN bd1 : b # entry => body'[b] = bd1[b]
    <2>1. CASE Here.v = None
      BY <1>1, <1>7, <2>1
    <2>2. CASE Here.v # None
      <3>1. body' = Emit(bd1, entry, code)
        BY <1>1, <2>2
      <3> QED BY <1>6, <1>7, <2>2, <3>1, EmitClean
    <2> QED BY <2>1, <2>2
  <1>9. \A b \in DOMAIN body' : Ended(body'[b]) \/ b = ins' \/ b \in Awaited(frames')
    BY <1>1, <1>5, <1>7, <1>8
  <1>10. ins'[1] \in Nat /\ ins'[1] <= cpc
    BY <1>1, <1>2, <1>4
  <1>11. \A i \in 1..Len(frames') : frames'[i].at \in Nat /\ frames'[i].at <= cpc
    BY <1>1, FramesBehind
  <1> QED BY <1>3, <1>8, <1>9, <1>10, <1>11, MovesOn

(* A function ends with no activation left and its last block closed by the *)
(* default return, hence with every block closed.                           *)
LEMMA EndFunctionFlow ==
  ASSUME FlowInv, TypeOK', TreeOK', UNCHANGED prog, GenEndFunction
  PROVE  FlowInv'
  <1>1. CASE GenThrow("CodegenFailure")
    BY <1>1, StandStill DEF GenThrow, Throw
  <1>2. CASE ~GenThrow("CodegenFailure")
    <2> DEFINE x == Ret(IF prog[cfn].t = "void" THEN None ELSE "zero")
               end == Emit(body, ins, <<x>>)
    <2>1. /\ body' = DefaultReturn /\ Ahead /\ frames = <<>> /\ phase = "gen"
          /\ UNCHANGED <<ins, frames, mainVars>>
      BY <1>2 DEF GenEndFunction, Generating
    <2>2. cpc \in Nat /\ cpc' = cpc + 1
      BY <2>1, FramesBehind DEF Ahead
    <2>3. WalkOK'
      BY <2>1, <2>2, FramesBehind DEF WalkOK, mainVars
    <2>4. \A b \in DOMAIN body : Ended(body[b]) \/ b = ins
      <3>1. Awaited(frames) = {}
        BY <2>1 DEF Awaited
      <3> QED BY <3>1, OpenBlocks
    <2>5. Clean(body') /\ \A b \in DOMAIN body' : Ended(body'[b])
      <3>1. CASE Terminated(body, ins)
        <4>1. body' = body /\ Ended(body[ins])
          BY <2>1, <3>1 DEF DefaultReturn, Terminated, Ended
        <4> QED BY <2>4, <4>1, FlowClean
      <3>2. CASE ~Terminated(body, ins)
        <4>1. body' = end
          BY <2>1, <3>2 DEF DefaultReturn
        <4>2. <<x>> \in Seq(Instr)
          BY <2>2, TerminatorType
        <4>3. x.k \in Terminators
          BY DEF Ret, I, Terminators
        <4> HIDE DEF x
        <4>4. NoInner(<<x>>) /\ Ended(<<x>>)
          BY <4>3, OneInstruction
        <4>5. Ready(body, ins)
          <5>1. ASSUME ins \in DOMAIN body PROVE Unended(body[ins])
            <6>1. body[ins] \in Seq(Instr) /\ NoInner(body[ins]) /\ ~Ended(body[ins])
              BY <3>2, <5>1 DEF FlowInv, TypeOK, GenTypeOK, OneTerminator, NoInner,
                                Terminated, Ended
            <6> QED BY <6>1, EndedFacts
          <5> QED BY <5>1 DEF Ready
        <4>6. /\ Clean(end) /\ DOMAIN end = DOMAIN body /\ Keeps(body, end)
              /\ ins \in DOMAIN body => Ended(end[ins])
          BY <4>2, <4>4, <4>5, FlowClean, EmitClean
        <4> HIDE DEF end
        <4> QED BY <2>4, <4>1, <4>6 DEF Keeps
      <3> QED BY <3>1, <3>2
    <2>6. BlocksOK'
      BY <2>5 DEF BlocksOK, Clean
    <2> QED BY <2>3, <2>6, FlowNext
  <1> QED BY <1>1, <1>2

(* Leaving the dead rest of a list moves the walk to the end of the list.   *)
LEMMA SkipFlow ==
  ASSUME FlowInv, TypeOK', TreeOK', UNCHANGED prog, SkipRest
  PROVE  FlowInv'
  <1>1. /\ cpc \in Nodes /\ Here.k \in Statements /\ phase = "gen"
        /\ UNCHANGED <<ins, body, frames, mainVars>>
    BY DEF SkipRest, Generating, Nodes
  <1>2. PICK j \in ListEnds(cpc) : cpc' = j
    BY DEF SkipRest
  <1>3. j \in Nodes /\ j > cpc /\ prog[j].k # "fn" /\ j \in Nat
    BY <1>1, ListEndInside DEF FlowInv, Nodes
  <1>4. WalkOK'
    BY <1>1, <1>2, <1>3, FramesBehind DEF WalkOK, mainVars
  <1>5. Inside'
    BY <1>2, <1>3 DEF Inside, Nodes
  <1>6. BlocksOK'
    <2>1. BlocksOK
      BY FlowParts DEF FlowInv
    <2> QED BY <1>1, <1>5, <2>1 DEF BlocksOK
  <1> QED BY <1>4, <1>6, FlowNext

(* Every action of the generator keeps the invariant.                       *)
LEMMA GenerateFlow ==
  ASSUME FlowInv, TypeOK', TreeOK', Generate
  PROVE  FlowInv'
  <1>1. UNCHANGED prog
    BY DEF Generate, parserVars
  <1>2. CASE GenDone
    BY <1>1, <1>2, StandStill DEF GenDone
  <1> QED BY <1>1, <1>2, SimpleFlow, IfFlow, LoopFlow, ElseFlow, EndIfFlow, EndLoopFlow,
             FunctionFlow, EndFunctionFlow, SkipFlow DEF Generate, GenNext

-----------------------------------------------------------------------------

(* The invariant holds before anything is parsed.                           *)
LEMMA FlowInit == Init => FlowInv
  <1> SUFFICES ASSUME Init PROVE FlowInv
    OBVIOUS
  <1>1. TypeOK
    BY InitType
  <1>2. TreeOK
    BY DEF Init, ParserInit, TreeOK, Nodes
  <1>3. DOMAIN body = {} /\ ins = <<0, "entry">> /\ frames = <<>> /\ cpc = 1
    BY DEF Init, GenInit, NoBlock
  <1>4. WalkOK
    BY <1>3 DEF WalkOK
  <1>5. OneTerminator /\ BlocksClosed
    BY <1>3 DEF OneTerminator, BlocksClosed
  <1> QED BY <1>1, <1>2, <1>4, <1>5 DEF FlowInv

(* Every step of the compiler keeps it.                                     *)
LEMMA FlowStep == FlowInv /\ [Next]_vars => FlowInv'
  <1> SUFFICES ASSUME FlowInv, [Next]_vars PROVE FlowInv'
    OBVIOUS
  <1>1. TypeOK'
    BY NextType DEF FlowInv
  <1>2. CASE Parse
    <2>1. TreeOK'
      BY <1>2, ParseTree DEF FlowInv, Parse
    <2>2. phase = "parse" /\ UNCHANGED genVars
      BY <1>2 DEF Parse, ParserNext, ParseFunction, ParseVarDecl, ParseAssignOrExpr,
                  ParseReturn, ParseBreak, ParseContinue, ParseIf, ParseLoop, ParseElse,
                  ParseEndIf, ParseEndLoop, ParseEndFunction, ParseModule, ParseFails,
                  Simply, Opening, Closing, InList, Parsing
    <2> QED BY <1>1, <2>1, <2>2, BeforeGen
  <1>3. ASSUME UNCHANGED parserVars, phase # "parse", phase # "failed" PROVE TreeOK'
    BY <1>3 DEF FlowInv, TreeOK, parserVars, Nodes
  <1>4. CASE Check
    <2>1. phase = "check" /\ UNCHANGED genVars /\ UNCHANGED parserVars
      BY <1>4 DEF Check, CheckerNext, CheckFn, CheckVarDecl, CheckAssign, CheckPartAssign,
                  CheckExpr, CheckReturn, CheckIf, CheckLoop, CheckEndLoop, CheckBreak,
                  CheckContinue, CheckListEnd, CheckDone, Checking
    <2> QED BY <1>1, <1>3, <2>1, BeforeGen
  <1>5. CASE Generate
    <2>1. phase = "gen" /\ UNCHANGED parserVars
      BY <1>5 DEF Generate, GenNext, SkipRest, GenFunction, GenVarDecl, GenAssign,
                  GenPartAssign, GenExprStmt, GenReturn, GenBreak, GenContinue, Leave,
                  GenIf, GenElse, GenEndIf, GenLoop, GenEndLoop, GenEndFunction, GenDone,
                  AtStatement, ListEnd, Generating
    <2> QED BY <1>1, <1>3, <1>5, <2>1, GenerateFlow
  <1>6. CASE UNCHANGED vars
    <2>1. /\ TreeOK' /\ WalkOK' /\ UNCHANGED <<prog, genVars>>
      BY <1>6 DEF vars, genVars, FlowInv, TreeOK, WalkOK, Nodes
    <2>2. BlocksOK
      BY FlowParts DEF FlowInv
    <2>3. BlocksOK'
      BY <2>1, <2>2 DEF BlocksOK, Inside, Nodes, Awaited, genVars
    <2> QED BY <1>1, <2>1, <2>3, FlowNext
  <1> QED BY <1>2, <1>4, <1>5, <1>6 DEF Next, Finished

(* The inductive invariant holds throughout a compilation.                  *)
THEOREM FlowCorrect == Spec => []FlowInv
  BY FlowInit, FlowStep, PTL DEF Spec

(* No block ever has an instruction behind its terminator: what genStmtList, *)
(* genIf, genLoop and defineFn ask getTerminator before they append is      *)
(* enough, for every nesting of r/, stop, cont, if and loop.                *)
THEOREM OneTerminatorCorrect == Spec => []OneTerminator
  BY FlowCorrect, PTL DEF FlowInv

(* No block is left without a terminator: inside a function only the        *)
(* insertion block and the blocks an activation will enter lack one, and    *)
(* between functions none does.                                             *)
THEOREM BlocksClosedCorrect == Spec => []BlocksClosed
  BY FlowCorrect, PTL DEF FlowInv

-----------------------------------------------------------------------------
(* Which lists are open where *)

Matching == {<<"fn", "endfn">>, <<"if", "else">>, <<"else", "endif">>, <<"loop", "endloop">>}

\* the list that node a opens is still open in front of node i
\* of the tree t
Opens(t, a, i) == /\ a \in 1..Len(t) /\ a < i /\ t[a].k \in Openers
                  /\ \A k \in (a + 1)..(i - 1) : t[k].d > t[a].d

\* a node that closes a list closes one of its kind, at its depth, and the
\* parser's stack holds the lists that are open behind the last node
MatchOK ==
  /\ \A j \in 1..Len(open) : \E a \in Nodes :
       Opens(prog, a, Len(prog) + 1) /\ prog[a].d = j - 1 /\ prog[a].k = open[j]
  /\ \A i \in Nodes : prog[i].k \in Closers => \E a \in Nodes :
       Opens(prog, a, i) /\ prog[a].d = prog[i].d /\ <<prog[a].k, prog[i].k>> \in Matching

(* Appending a node that stands in the innermost open list, or closes it,   *)
(* keeps the lists matched.                                                 *)
LEMMA PlaceMatch ==
  ASSUME TypeOK, MatchOK, NEW n \in AnyNode, NEW depth \in Nat, Place(n, depth),
         depth <= Len(open), \A j \in 1..depth : open'[j] = open[j],
         Len(open') = IF n.k \in Openers THEN depth + 1 ELSE depth,
         n.k \in Openers => open'[depth + 1] = n.k,
         n.k \in Closers => /\ Len(open) = depth + 1
                            /\ <<open[depth + 1], n.k>> \in Matching
  PROVE  MatchOK'
  <1> DEFINE p == [n EXCEPT !.d = depth]
  <1>0. PICK N : N = Len(prog)
    OBVIOUS
  <1>1. p \in AnyNode /\ p.k = n.k /\ p.d = depth
    BY DEF AnyNode
  <1>2. prog \in Seq(AnyNode) /\ N \in Nat /\ prog' = Append(prog, p) /\ Len(open) \in Nat
    BY <1>0, LenProperties DEF Place, TypeOK, ParserTypeOK
  <1> HIDE DEF p
  <1>3. /\ Len(prog') = N + 1 /\ prog'[N + 1] = p
        /\ \A i \in 1..N : prog'[i] = prog[i]
    BY <1>0, <1>1, <1>2, AppendProperties
  <1>d. \A i \in 1..N : prog[i].d \in Nat
    <2>1. \A i \in 1..Len(prog) : prog[i] \in AnyNode
      BY <1>2, ElementOfSeq
    <2> QED BY <1>0, <2>1 DEF AnyNode
  <1>e. Len(prog') + 1 = N + 2 /\ Len(prog) + 1 = N + 1 /\ Nodes = 1..N /\ Nodes' = 1..(N + 1)
    BY <1>0, <1>2, <1>3 DEF Nodes
  <1>4. ASSUME NEW a \in 1..N, NEW i \in 1..(N + 1), Opens(prog, a, i)
        PROVE  a \in 1..(N + 1) /\ Opens(prog', a, i) /\ prog'[a] = prog[a]
    BY <1>0, <1>2, <1>3, <1>4 DEF Opens
  <1>5. ASSUME NEW a \in 1..N, Opens(prog, a, N + 1), prog[a].d < depth
        PROVE  Opens(prog', a, N + 2) /\ a \in 1..(N + 1) /\ prog'[a] = prog[a]
    <2>1. prog'[a] = prog[a] /\ a \in 1..(N + 1) /\ prog[a].d \in Nat
      BY <1>2, <1>3, <1>d
    <2>2. ASSUME NEW k \in (a + 1)..(N + 1) PROVE prog'[k].d > prog'[a].d
      <3>1. CASE k = N + 1
        BY <1>1, <1>3, <1>5, <2>1, <3>1
      <3>2. CASE k \in (a + 1)..N
        <4>1. prog[k].d > prog[a].d
          BY <1>2, <1>5, <3>2 DEF Opens
        <4> QED BY <1>2, <1>3, <2>1, <3>2, <4>1
      <3>3. k = N + 1 \/ k \in (a + 1)..N
        BY <1>2
      <3> QED BY <3>1, <3>2, <3>3
    <2>3. prog[a].k \in Openers
      BY <1>5 DEF Opens
    <2> QED BY <1>2, <1>3, <2>1, <2>2, <2>3 DEF Opens
  <1>6. ASSUME NEW j \in 1..Len(open')
        PROVE  \E a \in Nodes' : /\ Opens(prog', a, Len(prog') + 1) /\ prog'[a].d = j - 1
                                 /\ prog'[a].k = open'[j]
    <2>1. CASE j \in 1..depth
      <3>1. PICK a \in 1..N : Opens(prog, a, N + 1) /\ prog[a].d = j - 1 /\ prog[a].k = open[j]
        <4>1. j \in 1..Len(open)
          BY <1>2, <2>1
        <4> QED BY <1>e, <4>1 DEF MatchOK
      <3>2. prog[a].d < depth
        BY <2>1, <3>1
      <3>3. Opens(prog', a, N + 2) /\ a \in 1..(N + 1) /\ prog'[a] = prog[a]
        BY <1>5, <3>1, <3>2
      <3> QED BY <1>e, <2>1, <3>1, <3>3
    <2>2. CASE j = depth + 1 /\ n.k \in Openers
      <3>1. N + 1 \in 1..(N + 1)
        BY <1>2
      <3>2. Opens(prog', N + 1, N + 2)
        BY <1>1, <1>2, <1>3, <2>2, <3>1 DEF Opens
      <3>3. prog'[N + 1].d = j - 1 /\ prog'[N + 1].k = open'[j]
        BY <1>1, <1>3, <2>2
      <3> QED BY <1>e, <3>1, <3>2, <3>3
    <2> QED BY <1>6, <2>1, <2>2
  <1>7. ASSUME NEW i \in 1..(N + 1), prog'[i].k \in Closers
        PROVE  \E a \in Nodes' : /\ Opens(prog', a, i) /\ prog'[a].d = prog'[i].d
                                 /\ <<prog'[a].k, prog'[i].k>> \in Matching
    <2>1. CASE i = N + 1
      <3>1. n.k \in Closers /\ depth + 1 \in 1..Len(open) /\ depth + 1 - 1 = depth
        BY <1>1, <1>2, <1>3, <1>7, <2>1
      <3>2. PICK a \in 1..N : /\ Opens(prog, a, N + 1) /\ prog[a].d = depth + 1 - 1
                              /\ prog[a].k = open[depth + 1]
        <4>1. PICK j \in 1..Len(open) : j = depth + 1
          BY <3>1
        <4>2. PICK a \in Nodes : /\ Opens(prog, a, Len(prog) + 1)
                                /\ prog[a].d = j - 1 /\ prog[a].k = open[j]
          BY DEF MatchOK
        <4>3. a \in 1..N /\ Opens(prog, a, N + 1)
          BY <1>e, <4>2
        <4>4. prog[a].d = depth + 1 - 1 /\ prog[a].k = open[depth + 1]
          BY <4>1, <4>2
        <4> QED BY <4>3, <4>4
      <3>3. a \in 1..(N + 1) /\ Opens(prog', a, N + 1) /\ prog'[a] = prog[a]
        <4>1. N + 1 \in 1..(N + 1)
          BY <1>2
        <4> QED BY <1>4, <3>2, <4>1
      <3> QED BY <1>1, <1>3, <1>e, <2>1, <3>1, <3>2, <3>3
    <2>2. CASE i \in 1..N
      <3>1. PICK a \in 1..N : /\ Opens(prog, a, i) /\ prog[a].d = prog[i].d
                              /\ <<prog[a].k, prog[i].k>> \in Matching
        BY <1>3, <1>7, <1>e, <2>2 DEF MatchOK
      <3>2. a \in 1..(N + 1) /\ Opens(prog', a, i) /\ prog'[a] = prog[a]
        BY <1>4, <3>1
      <3>3. prog'[i] = prog[i]
        BY <1>3, <2>2
      <3>4. prog'[a].d = prog'[i].d /\ <<prog'[a].k, prog'[i].k>> \in Matching
        BY <3>1, <3>2, <3>3, Zenon
      <3>5. a \in Nodes' /\ Opens(prog', a, i)
        BY <1>e, <3>2
      <3> QED BY <3>4, <3>5, Zenon
    <2>3. i = N + 1 \/ i \in 1..N
      BY <1>2
    <2> QED BY <2>1, <2>2, <2>3, Zenon
  <1>8. \A i \in Nodes' : prog'[i].k \in Closers => \E a \in Nodes' :
          /\ Opens(prog', a, i) /\ prog'[a].d = prog'[i].d
          /\ <<prog'[a].k, prog'[i].k>> \in Matching
    BY <1>7, <1>e
  <1> QED BY <1>6, <1>8 DEF MatchOK

(* Every action of the parser keeps the lists matched.                      *)
LEMMA ParseMatch ==
  ASSUME TypeOK, MatchOK, ParserNext
  PROVE  MatchOK'
  <1>1. open \in Seq(Openers) /\ Len(open) \in Nat /\ (open = <<>> <=> Len(open) = 0)
    BY LenProperties, EmptySeq DEF TypeOK, ParserTypeOK
  <1>2. ASSUME NEW k \in NodeKind, NEW c \in Operand \cup {None}
        PROVE  /\ Node(k, None, c, FALSE, "void") \in AnyNode
               /\ Node(k, None, c, FALSE, "void").k = k
    BY DEF Node, AnyNode, Types
  <1>3. ASSUME open # <<>>
        PROVE  /\ Front(open) \in Seq(Openers) /\ Len(Front(open)) = Len(open) - 1
               /\ Len(open) \in Nat \ {0} /\ Last(open) = open[Len(open)]
               /\ \A j \in 1..(Len(open) - 1) : Front(open)[j] = open[j]
    BY <1>1, <1>3, FrontFacts DEF Last
  <1>4. ASSUME NEW kinds, kinds \subseteq Simple, Simply(kinds)
        PROVE  MatchOK'
    <2>1. PICK s \in Stmts : s.k \in kinds /\ Place(s, Len(open))
      BY <1>4 DEF Simply
    <2>2. s \in AnyNode /\ s.k \notin Closers /\ s.k \notin Openers
      BY <1>4, <2>1, ProgramAssumption DEF Simple, Closers, Openers
    <2>3. open' = open
      BY <1>4 DEF Simply
    <2>4. /\ Len(open) <= Len(open) /\ \A j \in 1..Len(open) : open'[j] = open[j]
          /\ Len(open') = IF s.k \in Openers THEN Len(open) + 1 ELSE Len(open)
      BY <1>1, <2>2, <2>3
    <2> QED BY <1>1, <2>1, <2>2, <2>4, PlaceMatch
  <1>5. ASSUME NEW k \in {"if", "loop"}, Opening(k)
        PROVE  MatchOK'
    <2>1. PICK c \in Conds : Place(Node(k, None, c, FALSE, "void"), Len(open))
      BY <1>5 DEF Opening
    <2> DEFINE n == Node(k, None, c, FALSE, "void")
    <2>2. n \in AnyNode /\ n.k = k
      BY <1>2, ProgramAssumption DEF NodeKind, Openers
    <2>3. n.k \notin Closers /\ n.k \in Openers
      BY <2>2 DEF Closers, Openers
    <2>4. open' = Append(open, k) /\ k \in Openers
      BY <1>5 DEF Opening, Openers
    <2>5. /\ Len(open') = Len(open) + 1 /\ open'[Len(open) + 1] = k
          /\ \A j \in 1..Len(open) : open'[j] = open[j]
      BY <1>1, <2>4, AppendProperties
    <2> HIDE DEF n
    <2>6. Place(n, Len(open))
      BY <2>1 DEF n
    <2>7. /\ Len(open) <= Len(open) /\ open'[Len(open) + 1] = n.k
          /\ Len(open') = IF n.k \in Openers THEN Len(open) + 1 ELSE Len(open)
      BY <1>1, <2>2, <2>3, <2>5
    <2> QED BY <1>1, <2>2, <2>3, <2>5, <2>6, <2>7, PlaceMatch
  <1>6. ASSUME NEW o \in Openers, NEW k \in {"endif", "endloop", "endfn"}, Closing(o, k),
               <<o, k>> \in Matching
        PROVE  MatchOK'
    <2> DEFINE n == Node(k, None, None, FALSE, "void")
    <2>1. n \in AnyNode /\ n.k = k
      BY <1>2 DEF NodeKind, Closers
    <2>2. n.k \notin Openers
      BY <2>1 DEF Openers
    <2>3. /\ open' = Front(open) /\ open # <<>>
          /\ Last(open) = o /\ Place(n, Len(open) - 1)
      BY <1>6 DEF Closing, InList
    <2> HIDE DEF n
    <2>4. /\ Len(open) - 1 \in Nat /\ Len(open) - 1 <= Len(open)
          /\ Len(open) = Len(open) - 1 + 1 /\ open[Len(open)] = o
          /\ Len(open') = Len(open) - 1
          /\ \A j \in 1..(Len(open) - 1) : open'[j] = open[j]
      BY <1>3, <2>3
    <2>5. <<open[Len(open) - 1 + 1], n.k>> \in Matching
      BY <1>6, <2>1, <2>4
    <2> QED BY <2>1, <2>2, <2>3, <2>4, <2>5, PlaceMatch
  <1>7. CASE ParseFunction
    <2>1. PICK h \in Heads : Place(h, 0)
      BY <1>7 DEF ParseFunction
    <2>2. h \in AnyNode /\ h.k = "fn" /\ h.k \notin Closers /\ h.k \in Openers
      BY ProgramAssumption DEF Closers, Openers
    <2>3. open' = <<"fn">> /\ 0 <= Len(open)
      BY <1>1, <1>7 DEF ParseFunction
    <2>4. Len(open') = 0 + 1 /\ open'[0 + 1] = "fn" /\ \A j \in 1..0 : open'[j] = open[j]
      BY <2>3
    <2> QED BY <2>1, <2>2, <2>3, <2>4, PlaceMatch
  <1>8. CASE ParseElse
    <2> DEFINE n == Node("else", None, None, FALSE, "void")
    <2>1. n \in AnyNode /\ n.k = "else"
      BY <1>2 DEF NodeKind, Openers
    <2>2. n.k \in Closers /\ n.k \in Openers
      BY <2>1 DEF Closers, Openers
    <2>3. /\ open' = Append(Front(open), "else") /\ open # <<>>
          /\ Last(open) = "if" /\ Place(n, Len(open) - 1)
      BY <1>8 DEF ParseElse, InList
    <2> HIDE DEF n
    <2>4. "else" \in Openers
      BY DEF Openers
    <2>5. /\ Len(Append(Front(open), "else")) = Len(Front(open)) + 1
          /\ Append(Front(open), "else")[Len(Front(open)) + 1] = "else"
          /\ \A j \in 1..Len(Front(open)) : Append(Front(open), "else")[j] = Front(open)[j]
      BY <1>3, <2>3, <2>4, AppendProperties
    <2>6. /\ Len(open) - 1 \in Nat /\ Len(open) - 1 <= Len(open)
          /\ Len(open) = Len(open) - 1 + 1 /\ open[Len(open)] = "if"
          /\ Len(open') = Len(open) - 1 + 1 /\ open'[Len(open) - 1 + 1] = n.k
          /\ \A j \in 1..(Len(open) - 1) : open'[j] = open[j]
      BY <1>3, <2>1, <2>3, <2>5
    <2>7. <<open[Len(open) - 1 + 1], n.k>> \in Matching
      BY <2>1, <2>6 DEF Matching
    <2> QED BY <2>1, <2>2, <2>3, <2>6, <2>7, PlaceMatch
  <1>9. CASE ParseModule \/ ParseFails
    BY <1>9 DEF ParseModule, ParseFails, parserVars, MatchOK, Nodes
  <1>10. <<"if", "else">> \in Matching /\ <<"else", "endif">> \in Matching
         /\ <<"loop", "endloop">> \in Matching /\ <<"fn", "endfn">> \in Matching
    BY DEF Matching
  <1> QED BY <1>4, <1>5, <1>6, <1>7, <1>8, <1>9, <1>10
          DEF ParserNext, ParseVarDecl, ParseAssignOrExpr, ParseReturn, ParseBreak,
              ParseContinue, ParseIf, ParseLoop, ParseEndIf, ParseEndLoop,
              ParseEndFunction, Simple, Openers

-----------------------------------------------------------------------------
(* The loops that are open in front of a node *)

OpenLoops(t, i) == {a \in 1..Len(t) : t[a].k = "loop" /\ Opens(t, a, i)}

(* Every node has a depth.                                                  *)
LEMMA NodeDepths ==
  ASSUME TypeOK
  PROVE  Len(prog) \in Nat /\ \A i \in 1..Len(prog) : prog[i] \in AnyNode /\ prog[i].d \in Nat
  <1>1. prog \in Seq(AnyNode) /\ Len(prog) \in Nat
    BY LenProperties DEF TypeOK, ParserTypeOK
  <1>2. \A i \in 1..Len(prog) : prog[i] \in AnyNode
    BY <1>1, ElementOfSeq
  <1> QED BY <1>1, <1>2 DEF AnyNode

(* A node stands, or ends a list, inside every list that is open there.     *)
LEMMA OpensBelow ==
  ASSUME TypeOK, TreeOK, NEW i \in 1..Len(prog), NEW a, Opens(prog, a, i)
  PROVE  Level(prog[i]) >= prog[a].d + 1
  <1>1. /\ a \in 1..Len(prog) /\ Len(prog) \in Nat /\ a < i /\ i # 1 /\ i - 1 \in 1..Len(prog)
        /\ prog[a].d \in Nat /\ prog[i - 1].d \in Nat
    BY NodeDepths DEF Opens
  <1>2. Level(prog[i]) = Inner(prog[i - 1])
    BY <1>1 DEF TreeOK, Nodes
  <1>3. CASE a = i - 1
    BY <1>1, <1>2, <1>3 DEF Opens, Inner
  <1>4. CASE a < i - 1
    <2>1. i - 1 \in (a + 1)..(i - 1)
      BY <1>1, <1>4
    <2>2. prog[i - 1].d > prog[a].d
      BY <2>1 DEF Opens
    <2>3. Inner(prog[i - 1]) >= prog[i - 1].d
      BY <1>1 DEF Inner
    <2>4. Inner(prog[i - 1]) \in Nat
      BY <1>1 DEF Inner
    <2> QED BY <1>1, <1>2, <2>2, <2>3, <2>4
  <1> QED BY <1>1, <1>3, <1>4

(* Of two lists that are open at a node the later one is the deeper one.    *)
LEMMA OpensDeeper ==
  ASSUME TypeOK, NEW i \in Nat, NEW a, NEW b, Opens(prog, a, i), Opens(prog, b, i), a < b
  PROVE  prog[a].d < prog[b].d
  <1>1. a \in 1..Len(prog) /\ b \in (a + 1)..(i - 1) /\ prog[a].d \in Nat /\ prog[b].d \in Nat
    BY NodeDepths DEF Opens
  <1> QED BY <1>1 DEF Opens

(* At any node but its end a loop that is open stays so.                    *)
LEMMA LoopStays ==
  ASSUME TypeOK, TreeOK, MatchOK, NEW i \in 1..Len(prog), prog[i].k # "endloop",
         NEW a \in OpenLoops(prog, i)
  PROVE  prog[i].d > prog[a].d
  <1>1. a \in 1..Len(prog) /\ prog[a].k = "loop" /\ Opens(prog, a, i)
    BY DEF OpenLoops
  <1>2. Len(prog) \in Nat /\ prog[a].d \in Nat /\ prog[i].d \in Nat
    BY <1>1, NodeDepths
  <1>3. Level(prog[i]) >= prog[a].d + 1
    BY <1>1, OpensBelow
  <1>4. CASE prog[i].k \notin Closers
    BY <1>2, <1>3, <1>4 DEF Level
  <1>5. CASE prog[i].k \in Closers
    <2>1. prog[i].d >= prog[a].d
      BY <1>2, <1>3, <1>5 DEF Level
    <2>2. PICK c \in Nodes : /\ Opens(prog, c, i) /\ prog[c].d = prog[i].d
                             /\ <<prog[c].k, prog[i].k>> \in Matching
      BY <1>5 DEF MatchOK, Nodes
    <2>3. prog[c].k # "loop"
      BY <2>2 DEF Matching
    <2>4. a # c /\ a \in Nat /\ c \in Nat
      BY <1>1, <1>2, <2>3 DEF Nodes
    <2>5. a < c \/ c < a
      BY <2>4
    <2>6. prog[a].d # prog[c].d
      BY <1>1, <1>2, <2>2, <2>5, OpensDeeper
    <2> QED BY <1>2, <2>1, <2>2, <2>6
  <1> QED BY <1>4, <1>5

(* The loops of the source around a node are those open in front of it.     *)
LEMMA LoopsAreOpen ==
  ASSUME TypeOK, TreeOK, MatchOK, NEW i \in 1..Len(prog), prog[i].k # "endloop"
  PROVE  LoopsAround(i) = OpenLoops(prog, i)
  <1>1. Len(prog) \in Nat /\ i \in Nat /\ i <= Len(prog)
    BY NodeDepths
  <1>2. ASSUME NEW a \in LoopsAround(i) PROVE a \in OpenLoops(prog, i)
    <2>1. a \in 1..i /\ prog[a].k = "loop" /\ Encloses(a, i)
      BY DEF LoopsAround
    <2> QED BY <1>1, <2>1 DEF Encloses, OpenLoops, Opens
  <1>3. ASSUME NEW a \in OpenLoops(prog, i) PROVE a \in LoopsAround(i)
    <2>1. a \in 1..Len(prog) /\ prog[a].k = "loop" /\ Opens(prog, a, i)
      BY DEF OpenLoops
    <2>2. prog[i].d > prog[a].d
      BY LoopStays
    <2>3. ASSUME NEW k \in (a + 1)..i PROVE prog[k].d > prog[a].d
      <3>1. CASE k = i
        BY <2>2, <3>1
      <3>2. CASE k \in (a + 1)..(i - 1)
        BY <2>1, <3>2 DEF Opens
      <3> QED BY <1>1, <2>1, <3>1, <3>2
    <2> QED BY <1>1, <2>1, <2>3 DEF Encloses, LoopsAround, Opens
  <1> QED BY <1>2, <1>3

(* The lists that a node leaves open.                                       *)
LEMMA OpensNext ==
  ASSUME TypeOK, NEW i \in 1..Len(prog), NEW a \in 1..Len(prog)
  PROVE  Opens(prog, a, i + 1) <=>
           \/ a = i /\ prog[a].k \in Openers
           \/ Opens(prog, a, i) /\ prog[i].d > prog[a].d
  <1>1. Len(prog) \in Nat /\ i \in Nat /\ a \in Nat /\ i + 1 - 1 = i
    BY NodeDepths
  <1>2. CASE a = i
    BY <1>1, <1>2 DEF Opens
  <1>3. CASE a > i
    BY <1>1, <1>3 DEF Opens
  <1>4. CASE a < i
    <2>1. ASSUME Opens(prog, a, i + 1) PROVE Opens(prog, a, i) /\ prog[i].d > prog[a].d
      <3>1. i \in (a + 1)..(i + 1 - 1)
        BY <1>1, <1>4
      <3>2. prog[i].d > prog[a].d
        BY <2>1, <3>1 DEF Opens
      <3>3. ASSUME NEW k \in (a + 1)..(i - 1) PROVE prog[k].d > prog[a].d
        <4>1. k \in (a + 1)..(i + 1 - 1)
          BY <1>1
        <4> QED BY <2>1, <4>1 DEF Opens
      <3> QED BY <1>1, <1>4, <2>1, <3>2, <3>3 DEF Opens
    <2>2. ASSUME Opens(prog, a, i), prog[i].d > prog[a].d PROVE Opens(prog, a, i + 1)
      <3>1. ASSUME NEW k \in (a + 1)..i PROVE prog[k].d > prog[a].d
        <4>1. k = i \/ k \in (a + 1)..(i - 1)
          BY <1>1
        <4> QED BY <2>2, <4>1 DEF Opens
      <3> QED BY <1>1, <1>4, <2>2, <3>1 DEF Opens
    <2> QED BY <1>1, <1>4, <2>1, <2>2
  <1> QED BY <1>1, <1>2, <1>3, <1>4

(* Past a node that neither starts nor ends a loop the same loops are open. *)
LEMMA PassNode ==
  ASSUME TypeOK, TreeOK, MatchOK, NEW i \in 1..Len(prog), prog[i].k \notin {"loop", "endloop"}
  PROVE  OpenLoops(prog, i + 1) = OpenLoops(prog, i)
  <1>1. ASSUME NEW a \in 1..Len(prog), prog[a].k = "loop"
        PROVE  Opens(prog, a, i + 1) <=> Opens(prog, a, i)
    <2>1. a # i
      BY <1>1
    <2>2. ASSUME Opens(prog, a, i) PROVE prog[i].d > prog[a].d
      BY <1>1, <2>2, LoopStays DEF OpenLoops
    <2> QED BY <2>1, <2>2, OpensNext
  <1> QED BY <1>1 DEF OpenLoops

(* Past the head of a loop that loop is open as well.                       *)
LEMMA PassLoop ==
  ASSUME TypeOK, TreeOK, MatchOK, NEW i \in 1..Len(prog), prog[i].k = "loop"
  PROVE  OpenLoops(prog, i + 1) = OpenLoops(prog, i) \cup {i}
  <1>1. ASSUME NEW a \in 1..Len(prog), prog[a].k = "loop"
        PROVE  Opens(prog, a, i + 1) <=> Opens(prog, a, i) \/ a = i
    <2>1. ASSUME Opens(prog, a, i) PROVE prog[i].d > prog[a].d
      BY <1>1, <2>1, LoopStays DEF OpenLoops
    <2>2. prog[i].k \in Openers
      BY DEF Openers
    <2> QED BY <2>1, <2>2, OpensNext
  <1> QED BY <1>1 DEF OpenLoops

(* Past the end of a loop the innermost one is no longer open, and no other *)
(* loop is closed with it.                                                  *)
LEMMA PassEndLoop ==
  ASSUME TypeOK, TreeOK, MatchOK, NEW i \in 1..Len(prog), prog[i].k = "endloop"
  PROVE  \E a \in OpenLoops(prog, i) : /\ OpenLoops(prog, i + 1) = OpenLoops(prog, i) \ {a}
                                       /\ \A c \in OpenLoops(prog, i) : c <= a
  <1>1. prog[i].k \in Closers /\ prog[i].k \notin Openers
    BY DEF Closers, Openers
  <1>2. PICK a \in 1..Len(prog) : /\ Opens(prog, a, i) /\ prog[a].d = prog[i].d
                                  /\ <<prog[a].k, prog[i].k>> \in Matching
    BY <1>1 DEF MatchOK, Nodes
  <1>3. prog[a].k = "loop" /\ a \in OpenLoops(prog, i)
    BY <1>2 DEF Matching, OpenLoops
  <1>4. Len(prog) \in Nat /\ prog[i].d \in Nat /\ i \in Nat
    BY NodeDepths
  <1>5. ASSUME NEW c \in OpenLoops(prog, i)
        PROVE  c \in 1..Len(prog) /\ c <= a /\ (c # a => prog[i].d > prog[c].d)
    <2>1. c \in 1..Len(prog) /\ Opens(prog, c, i)
      BY DEF OpenLoops
    <2>2. Level(prog[i]) >= prog[c].d + 1
      BY <2>1, OpensBelow
    <2>3. prog[c].d \in Nat /\ prog[i].d >= prog[c].d
      BY <1>1, <1>4, <2>1, <2>2, NodeDepths DEF Level
    <2>4. ASSUME a < c PROVE FALSE
      <3>1. prog[a].d < prog[c].d
        BY <1>2, <1>4, <2>1, <2>4, OpensDeeper
      <3> QED BY <1>2, <1>4, <2>3, <3>1
    <2>5. ASSUME c < a PROVE prog[i].d > prog[c].d
      BY <1>2, <1>4, <2>1, <2>5, OpensDeeper
    <2>6. a \in Nat /\ c \in Nat
      BY <1>2, <1>4, <2>1
    <2> QED BY <2>1, <2>4, <2>5, <2>6
  <1>6. ASSUME NEW c \in 1..Len(prog), prog[c].k = "loop"
        PROVE  Opens(prog, c, i + 1) <=> Opens(prog, c, i) /\ c # a
    <2>1. c # i
      BY <1>1, <1>6
    <2>2. Opens(prog, c, i) /\ c # a => prog[i].d > prog[c].d
      BY <1>5, <1>6 DEF OpenLoops
    <2>3. prog[i].d > prog[a].d => FALSE
      BY <1>2, <1>4
    <2> QED BY <2>1, <2>2, <2>3, OpensNext
  <1>7. OpenLoops(prog, i + 1) = OpenLoops(prog, i) \ {a}
    BY <1>6 DEF OpenLoops
  <1> QED BY <1>3, <1>5, <1>7

(* At the end of a list the same loops are open as at any statement of it:  *)
(* the dead statements that genStmtList leaves out have no say.             *)
LEMMA SkipSameLoops ==
  ASSUME TypeOK, TreeOK, MatchOK, NEW i \in 1..Len(prog), prog[i].k \in Statements,
         NEW j \in ListEnds(i)
  PROVE  OpenLoops(prog, j) = OpenLoops(prog, i)
  <1>1. prog[i].k # "endloop"
    BY DEF Statements, Simple
  <1>2. /\ j \in (i + 1)..Len(prog) /\ prog[j].d < prog[i].d
        /\ \A k \in i..(j - 1) : prog[k].d >= prog[i].d
    BY DEF ListEnds
  <1>3. /\ Len(prog) \in Nat /\ i \in Nat /\ j \in 1..Len(prog) /\ i < j
        /\ \A k \in 1..Len(prog) : prog[k].d \in Nat
    BY <1>2, NodeDepths
  <1>4. ASSUME NEW a \in 1..Len(prog), prog[a].k = "loop", Opens(prog, a, i)
        PROVE  Opens(prog, a, j)
    <2>1. prog[i].d > prog[a].d /\ a < i /\ prog[a].k \in Openers
      BY <1>1, <1>4, LoopStays DEF OpenLoops, Opens
    <2>2. ASSUME NEW k \in (a + 1)..(j - 1) PROVE prog[k].d > prog[a].d
      <3>1. CASE k \in (a + 1)..(i - 1)
        BY <1>4, <3>1 DEF Opens
      <3>2. CASE k \in i..(j - 1)
        <4>1. k \in 1..Len(prog) /\ prog[k].d >= prog[i].d
          BY <1>2, <1>3, <3>2
        <4> QED BY <1>3, <2>1, <4>1
      <3> QED BY <1>3, <3>1, <3>2
    <2> QED BY <1>3, <2>1, <2>2 DEF Opens
  <1>5. ASSUME NEW a \in 1..Len(prog), prog[a].k = "loop", Opens(prog, a, j)
        PROVE  Opens(prog, a, i)
    <2>1. a < i
      <3>1. ASSUME a \in i..(j - 1) PROVE FALSE
        <4>1. Level(prog[j]) >= prog[a].d + 1
          BY <1>3, <1>5, OpensBelow
        <4>2. prog[a].d >= prog[i].d
          BY <1>2, <3>1
        <4>3. prog[a].d \in Nat /\ prog[i].d \in Nat /\ prog[j].d \in Nat
          BY <1>3
        <4>4. Level(prog[j]) <= prog[j].d + 1
          BY <4>3 DEF Level
        <4>5. Level(prog[j]) \in Nat
          BY <4>3 DEF Level
        <4> QED BY <1>2, <4>1, <4>2, <4>3, <4>4, <4>5
      <3>2. a < j /\ a \in Nat
        BY <1>3, <1>5 DEF Opens
      <3> QED BY <1>3, <3>1, <3>2
    <2>2. ASSUME NEW k \in (a + 1)..(i - 1) PROVE prog[k].d > prog[a].d
      <3>1. k \in (a + 1)..(j - 1)
        BY <1>3
      <3> QED BY <1>5, <3>1 DEF Opens
    <2> QED BY <1>5, <2>1, <2>2 DEF Opens
  <1> QED BY <1>4, <1>5 DEF OpenLoops

-----------------------------------------------------------------------------
(* How many they are *)

(* The loops that are open are finitely many, none in front of the tree.    *)
LEMMA OpenLoopsFinite ==
  ASSUME TypeOK, NEW i
  PROVE  /\ IsFiniteSet(OpenLoops(prog, i)) /\ Cardinality(OpenLoops(prog, i)) \in Nat
         /\ \A a \in OpenLoops(prog, i) : a \in Nat /\ a < i
         /\ Cardinality(OpenLoops(prog, 1)) = 0 /\ OpenLoops(prog, 1) = {}
  <1>1. Len(prog) \in Nat
    BY NodeDepths
  <1>2. IsFiniteSet(1..Len(prog))
    BY <1>1, FS_Interval
  <1>3. OpenLoops(prog, i) \subseteq 1..Len(prog)
    BY DEF OpenLoops
  <1>4. IsFiniteSet(OpenLoops(prog, i))
    BY <1>2, <1>3, FS_Subset
  <1>5. \A a \in OpenLoops(prog, i) : a \in Nat /\ a < i
    BY <1>1 DEF OpenLoops, Opens
  <1>6. OpenLoops(prog, 1) = {}
    BY <1>1 DEF OpenLoops, Opens
  <1> QED BY <1>4, <1>5, <1>6, FS_CardinalityType, FS_EmptySet

(* A loop's head makes them one more ...                                    *)
LEMMA CountLoop ==
  ASSUME TypeOK, TreeOK, MatchOK, NEW i \in 1..Len(prog), prog[i].k = "loop"
  PROVE  Cardinality(OpenLoops(prog, i + 1)) = Cardinality(OpenLoops(prog, i)) + 1
  <1>1. i \in Nat /\ ~(i < i)
    BY NodeDepths
  <1>2. i \notin OpenLoops(prog, i)
    BY <1>1 DEF OpenLoops, Opens
  <1>3. OpenLoops(prog, i + 1) = OpenLoops(prog, i) \cup {i}
    BY PassLoop
  <1> QED BY <1>2, <1>3, OpenLoopsFinite, FS_AddElement

(* ... and its end one less.                                                *)
LEMMA CountEndLoop ==
  ASSUME TypeOK, TreeOK, MatchOK, NEW i \in 1..Len(prog), prog[i].k = "endloop"
  PROVE  Cardinality(OpenLoops(prog, i + 1)) = Cardinality(OpenLoops(prog, i)) - 1
  <1>1. PICK a \in OpenLoops(prog, i) : OpenLoops(prog, i + 1) = OpenLoops(prog, i) \ {a}
    BY PassEndLoop
  <1> QED BY <1>1, OpenLoopsFinite, FS_RemoveElement

\* loopDepth_ counts the loops that are open
DepthOK ==
  /\ phase = "parse" => tpc = 1 /\ loopDepth = 0
  /\ phase = "check" => /\ tpc \in 1..(Len(prog) + 1)
                        /\ loopDepth = Cardinality(OpenLoops(prog, tpc))

(* checkStmt goes on to the next node, or throws.                           *)
LEMMA VerdictMoves ==
  ASSUME phase = "check", NEW code, Verdict(code)
  PROVE  \/ code = "ok" /\ tpc' = tpc + 1 /\ UNCHANGED mainVars
         \/ code # "ok" /\ tpc' = tpc /\ phase' = "failed"
              /\ err' = [stage |-> "check", code |-> code]
  BY DEF Verdict, Throw

(* Every action of the checker keeps the count.                             *)
LEMMA CheckDepth ==
  ASSUME TypeOK, TreeOK, MatchOK, DepthOK, CheckerNext, UNCHANGED parserVars
  PROVE  DepthOK'
  <1>1. prog' = prog /\ Len(prog) \in Nat /\ tpc \in Nat
    BY NodeDepths DEF parserVars, TypeOK, CheckerTypeOK
  <1>2. ASSUME NEW kinds, Checking(kinds)
        PROVE  /\ phase = "check" /\ tpc \in 1..Len(prog) /\ tpc + 1 \in 1..(Len(prog) + 1)
               /\ prog[tpc].k \in kinds /\ loopDepth = Cardinality(OpenLoops(prog, tpc))
    BY <1>1, <1>2 DEF Checking, Now, DepthOK
  <1>3. ASSUME phase' = "failed" PROVE DepthOK'
    BY <1>3 DEF DepthOK
  <1>4. ASSUME NEW kinds, Checking(kinds), phase' = "check", tpc' = tpc + 1,
               loopDepth' = Cardinality(OpenLoops(prog, tpc + 1))
        PROVE  DepthOK'
    BY <1>1, <1>2, <1>4 DEF DepthOK
  <1>5. ASSUME NEW kinds, Checking(kinds), "loop" \notin kinds, "endloop" \notin kinds,
               tpc' = tpc + 1, UNCHANGED <<loopDepth, mainVars>>
        PROVE  DepthOK'
    <2>1. OpenLoops(prog, tpc + 1) = OpenLoops(prog, tpc)
      BY <1>2, <1>5, PassNode
    <2> QED BY <1>2, <1>4, <1>5, <2>1 DEF mainVars
  <1>6. ASSUME NEW kinds, Checking(kinds), "loop" \notin kinds, "endloop" \notin kinds,
               NEW code, Verdict(code), UNCHANGED loopDepth
        PROVE  DepthOK'
    <2>1. phase = "check"
      BY <1>2, <1>6
    <2> QED BY <1>3, <1>5, <1>6, <2>1, VerdictMoves
  <1>7. CASE CheckLoop
    <2>1. Checking({"loop"}) /\ Verdict(CondVerdict)
      BY <1>7 DEF CheckLoop
    <2>2. CASE CondVerdict = "ok" /\ tpc' = tpc + 1 /\ UNCHANGED mainVars
      <3>1. Cardinality(OpenLoops(prog, tpc + 1)) = loopDepth + 1
        BY <1>2, <2>1, CountLoop
      <3> QED BY <1>2, <1>4, <1>7, <2>1, <2>2, <3>1 DEF CheckLoop, mainVars
    <2> QED BY <1>2, <1>3, <2>1, <2>2, VerdictMoves
  <1>8. CASE CheckEndLoop
    <2>1. Checking({"endloop"})
      BY <1>8 DEF CheckEndLoop
    <2>2. Cardinality(OpenLoops(prog, tpc + 1)) = loopDepth - 1
      BY <1>2, <2>1, CountEndLoop
    <2> QED BY <1>2, <1>4, <1>8, <2>1, <2>2 DEF CheckEndLoop, mainVars
  <1>9. CASE CheckDone
    BY <1>9 DEF CheckDone, DepthOK
  <1>10. CASE CheckFn
    BY <1>5, <1>10 DEF CheckFn
  <1>11. CASE CheckListEnd
    BY <1>5, <1>11 DEF CheckListEnd
  <1>12. CASE \/ CheckVarDecl \/ CheckAssign \/ CheckPartAssign \/ CheckExpr \/ CheckReturn
              \/ CheckIf \/ CheckBreak \/ CheckContinue
    BY <1>6, <1>12 DEF CheckVarDecl, CheckAssign, CheckPartAssign, CheckExpr, CheckReturn,
                       CheckIf, CheckBreak, CheckContinue
  <1> QED BY <1>7, <1>8, <1>9, <1>10, <1>11, <1>12 DEF CheckerNext

-----------------------------------------------------------------------------
(* loopStack_ *)

\* what genLoop pushes at node a
LoopInfo(a) == [continueBB |-> <<a, "cond">>, breakBB |-> <<a, "after">>]

\* the stack ls holds just the loops of S, the innermost, which starts last,
\* on top
Stacked(ls, S) ==
  /\ Len(ls) = Cardinality(S)
  /\ \A j \in 1..Len(ls) : \E a \in S : ls[j] = LoopInfo(a)
  /\ \A a \in S : \E j \in 1..Len(ls) : ls[j] = LoopInfo(a)
  /\ \A j, k \in 1..Len(ls) : j < k => ls[j].breakBB[1] < ls[k].breakBB[1]

(* A loop that starts behind those on the stack can be pushed.              *)
LEMMA StackPush ==
  ASSUME NEW T, NEW ls \in Seq(T), NEW S, IsFiniteSet(S), Stacked(ls, S), NEW i \in Nat,
         \A a \in S : a \in Nat /\ a < i, LoopInfo(i) \in T
  PROVE  Stacked(Append(ls, LoopInfo(i)), S \cup {i})
  <1> DEFINE x == LoopInfo(i)
  <1>1. PICK t : t = Append(ls, x)
    OBVIOUS
  <1>2. x \in T /\ x.breakBB[1] = i /\ \A a \in S : LoopInfo(a).breakBB[1] = a
    BY DEF LoopInfo
  <1> HIDE DEF x
  <1>3. PICK n \in Nat : n = Len(ls)
    BY LenProperties
  <1>4. /\ Len(t) = n + 1 /\ t[n + 1] = x
        /\ \A j \in 1..n : t[j] = ls[j]
    BY <1>1, <1>2, <1>3, AppendProperties
  <1>5. ~(i < i) /\ i \notin S
    OBVIOUS
  <1>6. Cardinality(S \cup {i}) = n + 1
    BY <1>3, <1>5, FS_AddElement DEF Stacked
  <1>7. ASSUME NEW j \in 1..(n + 1) PROVE \E a \in S \cup {i} : t[j] = LoopInfo(a)
    <2>1. CASE j \in 1..n
      BY <1>3, <1>4, <2>1 DEF Stacked
    <2>2. CASE j = n + 1
      BY <1>4, <2>2 DEF x
    <2>3. j \in 1..n \/ j = n + 1
      BY <1>3
    <2> QED BY <2>1, <2>2, <2>3
  <1>8. ASSUME NEW a \in S \cup {i} PROVE \E j \in 1..(n + 1) : t[j] = LoopInfo(a)
    <2>1. CASE a \in S
      <3>1. PICK j \in 1..n : ls[j] = LoopInfo(a)
        BY <1>3, <2>1 DEF Stacked
      <3>2. j \in 1..(n + 1) /\ t[j] = LoopInfo(a)
        BY <1>3, <1>4, <3>1
      <3> QED BY <3>2
    <2>2. CASE a = i
      <3>1. n + 1 \in 1..(n + 1) /\ t[n + 1] = LoopInfo(a)
        BY <1>3, <1>4, <2>2 DEF x
      <3> QED BY <3>1
    <2> QED BY <2>1, <2>2
  <1>9. ASSUME NEW j \in 1..(n + 1), NEW k \in 1..(n + 1), j < k
        PROVE  t[j].breakBB[1] < t[k].breakBB[1]
    <2>1. j \in 1..n /\ t[j] = ls[j]
      BY <1>3, <1>4, <1>9
    <2>2. PICK a \in S : ls[j] = LoopInfo(a)
      BY <1>3, <2>1 DEF Stacked
    <2>3. CASE k \in 1..n
      <3>1. t[k] = ls[k]
        BY <1>4, <2>3
      <3> QED BY <1>3, <1>9, <2>1, <2>3, <3>1 DEF Stacked
    <2>4. CASE k = n + 1
      <3>1. t[j].breakBB[1] = a /\ t[k].breakBB[1] = i
        BY <1>2, <1>4, <2>1, <2>2, <2>4
      <3> QED BY <2>2, <3>1
    <2>5. k \in 1..n \/ k = n + 1
      BY <1>3
    <2> QED BY <2>3, <2>4, <2>5
  <1>10. Stacked(t, S \cup {i})
    BY <1>4, <1>6, <1>7, <1>8, <1>9 DEF Stacked
  <1> QED BY <1>1, <1>10 DEF x

(* The innermost loop is the one on top, and popping leaves the others.     *)
LEMMA StackPop ==
  ASSUME NEW T, NEW ls \in Seq(T), NEW S, IsFiniteSet(S), Stacked(ls, S),
         S \subseteq Nat, NEW a \in S, \A c \in S : c <= a
  PROVE  ls # <<>> /\ Last(ls) = LoopInfo(a) /\ Stacked(Front(ls), S \ {a})
  <1>1. PICK n \in Nat : n = Len(ls)
    BY LenProperties
  <1>2. PICK m \in 1..n : ls[m] = LoopInfo(a)
    BY <1>1 DEF Stacked
  <1>3. ls # <<>> /\ n \in 1..n
    BY <1>1, <1>2, EmptySeq
  <1>4. \A c \in S : LoopInfo(c).breakBB[1] = c
    BY DEF LoopInfo
  <1>5. m = n
    <2>1. PICK c \in S : ls[n] = LoopInfo(c)
      BY <1>1, <1>3 DEF Stacked
    <2>2. ASSUME m < n PROVE FALSE
      <3>1. ls[m].breakBB[1] < ls[n].breakBB[1]
        BY <1>1, <1>2, <1>3, <2>2 DEF Stacked
      <3>2. a < c
        BY <1>2, <1>4, <2>1, <3>1
      <3> QED BY <3>2
    <2> QED BY <2>2
  <1>6. Last(ls) = LoopInfo(a)
    BY <1>1, <1>2, <1>5 DEF Last
  <1>7. PICK t : t = Front(ls)
    OBVIOUS
  <1>8. Len(t) = n - 1 /\ \A j \in 1..(n - 1) : t[j] = ls[j]
    BY <1>1, <1>3, <1>7, FrontFacts
  <1>9. Cardinality(S \ {a}) = n - 1
    BY <1>1, FS_RemoveElement DEF Stacked
  <1>10. ASSUME NEW j \in 1..(n - 1)
         PROVE  \E c \in S \ {a} : t[j] = LoopInfo(c)
    <2>1. j \in 1..n /\ j < n
      OBVIOUS
    <2>2. PICK c \in S : ls[j] = LoopInfo(c)
      BY <1>1, <2>1 DEF Stacked
    <2>3. ls[j].breakBB[1] < ls[n].breakBB[1]
      BY <1>1, <1>3, <2>1 DEF Stacked
    <2>4. c < a
      BY <1>2, <1>4, <1>5, <2>2, <2>3
    <2>5. c # a
      BY <2>4
    <2> QED BY <1>8, <2>2, <2>5
  <1>11. ASSUME NEW c \in S \ {a} PROVE \E j \in 1..(n - 1) : t[j] = LoopInfo(c)
    <2>1. PICK j \in 1..n : ls[j] = LoopInfo(c)
      BY <1>1 DEF Stacked
    <2>2. ls[j].breakBB[1] = c /\ ls[n].breakBB[1] = a
      BY <1>2, <1>4, <1>5, <2>1
    <2>3. j # n
      BY <2>2
    <2>4. j \in 1..(n - 1)
      BY <2>3
    <2> QED BY <1>8, <2>1, <2>4
  <1>12. \A j, k \in 1..(n - 1) : j < k => t[j].breakBB[1] < t[k].breakBB[1]
    <2>1. \A j \in 1..(n - 1) : j \in 1..n
      OBVIOUS
    <2> QED BY <1>1, <1>8, <2>1 DEF Stacked
  <1>13. Stacked(t, S \ {a})
    BY <1>8, <1>9, <1>10, <1>11, <1>12 DEF Stacked
  <1> QED BY <1>3, <1>6, <1>7, <1>13

\* loopStack_ holds the loops that are open
StackOK ==
  /\ phase \in {"parse", "check"} => cpc = 1 /\ loopStack = <<>>
  /\ phase = "gen" => cpc \in 1..(Len(prog) + 1) /\ Stacked(loopStack, OpenLoops(prog, cpc))

(* Nothing is on it when the generator starts.                              *)
LEMMA StackStart ==
  ASSUME TypeOK
  PROVE  Stacked(<<>>, OpenLoops(prog, 1))
  BY OpenLoopsFinite DEF Stacked

(* Every action of the generator keeps it so.                               *)
LEMMA GenerateStack ==
  ASSUME FlowInv, MatchOK, StackOK, GenNext, UNCHANGED parserVars, TypeOK'
  PROVE  StackOK'
  <1>1. /\ TypeOK /\ TreeOK /\ prog' = prog /\ Len(prog) \in Nat /\ cpc \in Nat
        /\ loopStack \in Seq([continueBB : Block, breakBB : Block])
    BY NodeDepths DEF FlowInv, parserVars, TypeOK, GenTypeOK
  <1>2. ASSUME NEW kinds, Generating(kinds)
        PROVE  /\ phase = "gen" /\ cpc \in 1..Len(prog) /\ cpc + 1 \in 1..(Len(prog) + 1)
               /\ prog[cpc].k \in kinds /\ Stacked(loopStack, OpenLoops(prog, cpc))
    BY <1>1, <1>2 DEF Generating, Here, StackOK
  <1>3. ASSUME phase' \in {"done", "failed"} PROVE StackOK'
    BY <1>3 DEF StackOK
  <1>4. ASSUME phase' = "gen", NEW i \in 1..(Len(prog) + 1), cpc' = i,
               Stacked(loopStack', OpenLoops(prog, i))
        PROVE  StackOK'
    BY <1>1, <1>4 DEF StackOK
  <1>5. ASSUME NEW kinds, Generating(kinds), "loop" \notin kinds, "endloop" \notin kinds,
               Ahead, UNCHANGED <<loopStack, mainVars>>
        PROVE  StackOK'
    <2>1. OpenLoops(prog, cpc + 1) = OpenLoops(prog, cpc)
      BY <1>1, <1>2, <1>5, PassNode
    <2> QED BY <1>2, <1>4, <1>5, <2>1 DEF mainVars, Ahead
  <1>6. CASE SkipRest
    <2>1. PICK j \in ListEnds(cpc) : cpc' = j
      BY <1>6 DEF SkipRest
    <2>2. Generating(Statements) /\ UNCHANGED <<loopStack, mainVars>>
      BY <1>6 DEF SkipRest
    <2>3. OpenLoops(prog, j) = OpenLoops(prog, cpc)
      BY <1>1, <1>2, <2>2, SkipSameLoops
    <2>4. j \in 1..(Len(prog) + 1)
      BY <1>1 DEF ListEnds
    <2> QED BY <1>2, <1>4, <2>1, <2>2, <2>3, <2>4 DEF mainVars
  <1>7. CASE GenLoop
    <2>1. Generating({"loop"})
      BY <1>7 DEF GenLoop, AtStatement
    <2>2. CASE phase' = "failed"
      BY <1>3, <2>2
    <2>3. CASE phase' # "failed"
      <3>1. /\ loopStack' = Append(loopStack, LoopInfo(cpc)) /\ Ahead /\ phase' = phase
        BY <1>7, <2>3 DEF GenLoop, UndeclaredUse, GenThrow, Throw, LoopInfo, mainVars
      <3>2. LoopInfo(cpc) \in [continueBB : Block, breakBB : Block]
        BY <1>1 DEF LoopInfo, Block, Roles
      <3>3. /\ IsFiniteSet(OpenLoops(prog, cpc))
            /\ \A a \in OpenLoops(prog, cpc) : a \in Nat /\ a < cpc
        BY <1>1, OpenLoopsFinite
      <3>4. Stacked(loopStack', OpenLoops(prog, cpc) \cup {cpc})
        BY <1>1, <1>2, <2>1, <3>1, <3>2, <3>3, StackPush
      <3>5. OpenLoops(prog, cpc + 1) = OpenLoops(prog, cpc) \cup {cpc}
        BY <1>1, <1>2, <2>1, PassLoop
      <3> QED BY <1>2, <1>4, <2>1, <3>1, <3>4, <3>5 DEF Ahead
    <2> QED BY <2>2, <2>3
  <1>8. CASE GenEndLoop
    <2>1. Generating({"endloop"}) /\ loopStack' = Front(loopStack) /\ Ahead /\ phase' = phase
      BY <1>8 DEF GenEndLoop, ListEnd, mainVars
    <2>2. PICK a \in OpenLoops(prog, cpc) :
            /\ OpenLoops(prog, cpc + 1) = OpenLoops(prog, cpc) \ {a}
            /\ \A c \in OpenLoops(prog, cpc) : c <= a
      BY <1>1, <1>2, <2>1, PassEndLoop
    <2>3. IsFiniteSet(OpenLoops(prog, cpc)) /\ OpenLoops(prog, cpc) \subseteq Nat
      BY <1>1, OpenLoopsFinite
    <2>4. Stacked(Front(loopStack), OpenLoops(prog, cpc) \ {a})
      BY <1>1, <1>2, <2>1, <2>2, <2>3, StackPop
    <2> QED BY <1>2, <1>4, <2>1, <2>2, <2>4 DEF Ahead
  <1>9. CASE GenDone
    BY <1>3, <1>9 DEF GenDone
  <1>10. ASSUME NEW code, GenThrow(code) PROVE StackOK'
    BY <1>3, <1>10 DEF GenThrow, Throw
  <1>11. CASE GenFunction
    BY <1>5, <1>11 DEF GenFunction
  <1>12. CASE GenEndFunction
    BY <1>5, <1>10, <1>12 DEF GenEndFunction
  <1>13. CASE GenElse \/ GenEndIf
    BY <1>5, <1>13 DEF GenElse, GenEndIf, ListEnd
  <1>14. CASE GenIf
    BY <1>5, <1>10, <1>14 DEF GenIf, AtStatement, UndeclaredUse
  <1>15. CASE GenVarDecl \/ GenAssign \/ GenPartAssign
    BY <1>5, <1>10, <1>15 DEF GenVarDecl, GenAssign, GenPartAssign, AtStatement, UndeclaredUse
  <1>16. CASE GenExprStmt \/ GenReturn \/ GenBreak \/ GenContinue
    BY <1>5, <1>10, <1>16 DEF GenExprStmt, GenReturn, GenBreak, GenContinue, Leave,
                              AtStatement, UndeclaredUse
  <1> QED BY <1>6, <1>7, <1>8, <1>9, <1>11, <1>12, <1>13, <1>14, <1>15, <1>16 DEF GenNext

-----------------------------------------------------------------------------

NestInv == FlowInv /\ MatchOK /\ DepthOK /\ StackOK

(* The invariant holds before anything is parsed.                           *)
LEMMA NestInit == Init => NestInv
  <1> SUFFICES ASSUME Init PROVE NestInv
    OBVIOUS
  <1>1. FlowInv
    BY FlowInit
  <1>2. MatchOK
    BY DEF Init, ParserInit, MatchOK, Nodes
  <1>3. DepthOK /\ StackOK
    BY DEF Init, CheckerInit, GenInit, DepthOK, StackOK
  <1> QED BY <1>1, <1>2, <1>3 DEF NestInv

(* In which stage an action is taken, and what it leaves to the others.     *)
LEMMA Stage ==
  /\ Parse => phase = "parse" /\ phase' \in {"parse", "check", "failed"}
                /\ UNCHANGED <<checkerVars, genVars>>
  /\ Check => phase = "check" /\ phase' \in {"check", "gen", "failed"}
                /\ UNCHANGED <<parserVars, genVars>>
  /\ Generate => phase = "gen" /\ phase' \in {"gen", "done", "failed"}
                /\ UNCHANGED <<parserVars, checkerVars>>
  <1>1. ASSUME Parse PROVE phase = "parse" /\ phase' \in {"parse", "check", "failed"}
    BY <1>1 DEF Parse, ParserNext, ParseFunction, ParseVarDecl, ParseAssignOrExpr,
                ParseReturn, ParseBreak, ParseContinue, ParseIf, ParseLoop, ParseElse,
                ParseEndIf, ParseEndLoop, ParseEndFunction, ParseModule, ParseFails,
                Simply, Opening, Closing, InList, Parsing, Throw, mainVars
  <1>2. ASSUME Check PROVE phase = "check" /\ phase' \in {"check", "gen", "failed"}
    BY <1>2 DEF Check, CheckerNext, CheckFn, CheckVarDecl, CheckAssign, CheckPartAssign,
                CheckExpr, CheckReturn, CheckIf, CheckLoop, CheckEndLoop, CheckBreak,
                CheckContinue, CheckListEnd, CheckDone, Checking, Verdict, Throw, mainVars
  <1>3. ASSUME Generate PROVE phase = "gen" /\ phase' \in {"gen", "done", "failed"}
    <2>1. ASSUME NEW code, GenThrow(code) PROVE phase' = "failed"
      BY <2>1 DEF GenThrow, Throw
    <2> QED BY <1>3, <2>1 DEF Generate, GenNext, SkipRest, GenFunction, GenVarDecl, GenAssign,
                GenPartAssign, GenExprStmt, GenReturn, GenBreak, GenContinue, Leave,
                GenIf, GenElse, GenEndIf, GenLoop, GenEndLoop, GenEndFunction, GenDone,
                AtStatement, ListEnd, Generating, UndeclaredUse, mainVars
  <1> QED BY <1>1, <1>2, <1>3 DEF Parse, Check, Generate

(* Every step of the compiler keeps it.                                     *)
LEMMA NestStep == NestInv /\ [Next]_vars => NestInv'
  <1> SUFFICES ASSUME NestInv, [Next]_vars PROVE NestInv'
    OBVIOUS
  <1>1. FlowInv' /\ TypeOK /\ TypeOK' /\ TreeOK
    BY FlowStep, NextType DEF NestInv, FlowInv
  <1>2. ASSUME UNCHANGED parserVars PROVE MatchOK'
    BY <1>2 DEF NestInv, MatchOK, parserVars, Nodes
  <1>3. CASE Parse
    <2>1. MatchOK'
      BY <1>1, <1>3, ParseMatch DEF NestInv, Parse
    <2>2. phase = "parse" /\ phase' \in {"parse", "check", "failed"}
          /\ UNCHANGED <<checkerVars, genVars>>
      BY <1>3, Stage
    <2>3. StackOK'
      BY <2>2 DEF NestInv, StackOK, genVars
    <2>4. DepthOK'
      <3>1. phase' = "check" => prog' = prog
        BY <1>3, <2>2 DEF Parse, ParserNext, ParseFunction, ParseVarDecl, ParseAssignOrExpr,
                ParseReturn, ParseBreak, ParseContinue, ParseIf, ParseLoop, ParseElse,
                ParseEndIf, ParseEndLoop, ParseEndFunction, ParseModule, ParseFails,
                Simply, Opening, Closing, Throw, mainVars
      <3>2. tpc' = 1 /\ loopDepth' = 0
        BY <2>2 DEF NestInv, DepthOK, checkerVars
      <3>3. 1 \in 1..(Len(prog) + 1) /\ Cardinality(OpenLoops(prog, 1)) = 0
        BY <1>1, NodeDepths, OpenLoopsFinite
      <3> QED BY <2>2, <3>1, <3>2, <3>3 DEF DepthOK
    <2> QED BY <1>1, <2>1, <2>3, <2>4 DEF NestInv
  <1>4. CASE Check
    <2>1. phase = "check" /\ phase' \in {"check", "gen", "failed"}
          /\ UNCHANGED <<parserVars, genVars>>
      BY <1>4, Stage
    <2>2. MatchOK' /\ DepthOK'
      BY <1>1, <1>2, <1>4, <2>1, CheckDepth DEF NestInv, Check
    <2>3. StackOK'
      <3>1. cpc' = 1 /\ loopStack' = <<>> /\ prog' = prog
        BY <2>1 DEF NestInv, StackOK, genVars, parserVars
      <3>2. 1 \in 1..(Len(prog) + 1) /\ Stacked(<<>>, OpenLoops(prog, 1))
        BY <1>1, NodeDepths, StackStart
      <3> QED BY <3>1, <3>2 DEF StackOK
    <2> QED BY <1>1, <2>2, <2>3 DEF NestInv
  <1>5. CASE Generate
    <2>1. phase' \in {"gen", "done", "failed"} /\ UNCHANGED parserVars
      BY <1>5, Stage
    <2>2. StackOK'
      BY <1>1, <1>5, <2>1, GenerateStack DEF NestInv, Generate
    <2>3. DepthOK'
      BY <2>1 DEF DepthOK
    <2> QED BY <1>1, <1>2, <2>1, <2>2, <2>3 DEF NestInv
  <1>6. CASE UNCHANGED vars
    <2>1. MatchOK'
      BY <1>2, <1>6 DEF vars, parserVars
    <2>2. DepthOK' /\ StackOK'
      BY <1>6 DEF NestInv, DepthOK, StackOK, vars
    <2> QED BY <1>1, <2>1, <2>2 DEF NestInv
  <1> QED BY <1>3, <1>4, <1>5, <1>6 DEF Next, Finished

(* Both counts agree with the tree wherever the invariant holds.            *)
LEMMA NestCounts == NestInv => LoopCountsAgree
  <1> SUFFICES ASSUME NestInv, NEW i \in Nodes, prog[i].k # "endloop"
               PROVE  /\ phase = "check" /\ i = tpc => loopDepth = Cardinality(LoopsAround(i))
                      /\ phase = "gen" /\ i = cpc => Len(loopStack) = Cardinality(LoopsAround(i))
    BY DEF LoopCountsAgree, SimpleAt
  <1>1. LoopsAround(i) = OpenLoops(prog, i)
    BY LoopsAreOpen DEF NestInv, FlowInv, Nodes
  <1> QED BY <1>1 DEF NestInv, DepthOK, StackOK, Stacked

(* The inductive invariant holds throughout a compilation.                  *)
THEOREM NestingCorrect == Spec => []NestInv
  BY NestInit, NestStep, PTL DEF Spec

(* loopDepth_ of the checker and the height of the generator's loopStack_   *)
(* are both the number of loops of the source around the node they have     *)
(* reached: no loop leaks out of a function or out of skipped dead code.    *)
THEOREM LoopCountsAgreeCorrect == Spec => []LoopCountsAgree
  BY NestingCorrect, NestCounts, PTL
=============================================================================
