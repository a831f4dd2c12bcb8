----------------------------- MODULE AgreementProofs -----------------------------
(***************************************************************************)
(* The checker accepts exactly the nodes that the tree itself makes well   *)
(* formed, for every program, and the generator agrees with it: whatever   *)
(* is accepted is lowered, but for two exceptions, the two symbol tables   *)
(* hold the same but for dead declarations, and just the dead code is left *)
(* out.                                                                    *)
(*                                                                         *)
(* The first needs what vars_ of the checker holds at every node (TableOK: *)
(* one entry for each declaration the walk has passed in the function it   *)
(* is in), what the parser guarantees of a single node (NodesOK), and that *)
(* loopDepth_ counts the loops around the node (DepthOK).                  *)
(*                                                                         *)
(* The second needs that the generator knows dead code when it meets it    *)
(* (LiveOK: the insertion block has ended exactly behind a stop, a cont or *)
(* an r/), and what its vars_ holds at every node (VarsOK).                *)
(***************************************************************************)
EXTENDS BranchProofs

-----------------------------------------------------------------------------
(* Declarations, and what a table says of them *)

\* node j gives v a meaning: a declaration, or the header with parameter v
DeclAt(j, v) == prog[j].k \in {"fn", "decl"} /\ prog[j].v = v

\* what vars_ says of the variable that node j declares
Info(j) == [t |-> DeclType(j), m |-> prog[j].m]

\* node i is in the function that starts at f
InFunction(f, i) == f \in 1..i /\ prog[f].k = "fn" /\ \A k \in (f + 1)..i : prog[k].k # "fn"

\* what the parser guarantees of a node by itself
NodesOK ==
  \A i \in Nodes :
    /\ prog[i].k \in {"decl", "assign", "part", "expr", "if", "loop"} => prog[i].u \in Operand
    /\ prog[i].k \in {"stop", "cont"} \cup Closers => prog[i].u = None
    /\ prog[i].k = "part" => prog[i].t = "int"
    /\ prog[i].k = "fn" => prog[i].m = FALSE

\* vars_ has one entry for each declaration behind the walk
TableOK ==
  /\ InFunction(tfn, tpc)
  /\ \A v \in DOMAIN tvars : \E j \in tfn..(tpc - 1) : DeclAt(j, v)
  /\ \A j \in tfn..(tpc - 1) : \A v \in Vars :
       DeclAt(j, v) => v \in DOMAIN tvars /\ tvars[v] = Info(j)

CheckOK ==
  /\ \A i \in Nodes : i < tpc => WellFormed(i)
  /\ phase = "check" /\ tpc \in Nodes => Now.k = "fn" \/ TableOK
  /\ phase \in {"gen", "done"} => tpc > Len(prog)
  /\ err.stage = "check" => phase = "failed" /\ ~WellFormed(tpc)
  /\ phase # "failed" => err = NoError

CheckInv == BranchInv /\ NodesOK /\ CheckOK

(* A node that satisfies this can be appended.                              *)
LEMMA PlaceNode ==
  ASSUME TypeOK, NodesOK, NEW n \in AnyNode, NEW depth \in Nat, Place(n, depth),
         n.k \in {"decl", "assign", "part", "expr", "if", "loop"} => n.u \in Operand,
         n.k \in {"stop", "cont"} \cup Closers => n.u = None,
         n.k = "part" => n.t = "int",
         n.k = "fn" => n.m = FALSE
  PROVE  NodesOK'
  <1>1. PICK N \in Nat : N = Len(prog)
    BY NodeDepths
  <1>2. PICK x : x = [n EXCEPT !.d = depth]
    OBVIOUS
  <1>3. x \in AnyNode /\ x.k = n.k /\ x.u = n.u /\ x.t = n.t /\ x.m = n.m
    BY <1>2 DEF AnyNode
  <1>4. prog \in Seq(AnyNode) /\ prog' = Append(prog, x)
    BY <1>2, <1>3 DEF TypeOK, ParserTypeOK, Place
  <1>5. Len(prog') = N + 1 /\ prog'[N + 1] = x /\ \A i \in 1..N : prog'[i] = prog[i]
    BY <1>1, <1>4, AppendProperties
  <1>6. ASSUME NEW i \in 1..(N + 1)
        PROVE  /\ prog'[i].k \in {"decl", "assign", "part", "expr", "if", "loop"} => prog'[i].u \in Operand
               /\ prog'[i].k \in {"stop", "cont"} \cup Closers => prog'[i].u = None
               /\ prog'[i].k = "part" => prog'[i].t = "int"
               /\ prog'[i].k = "fn" => prog'[i].m = FALSE
    <2>1. CASE i = N + 1
      BY <1>3, <1>5, <2>1
    <2>2. CASE i # N + 1
      BY <1>1, <1>5, <2>2 DEF NodesOK, Nodes
    <2> QED BY <2>1, <2>2
  <1> QED BY <1>5, <1>6 DEF NodesOK, Nodes

(* Every node the parser places does.                                       *)
LEMMA ParseNodes ==
  ASSUME TypeOK, NodesOK, ParserNext
  PROVE  NodesOK'
  <1>1. PICK L \in Nat : L = Len(open)
    BY DEF TypeOK, ParserTypeOK
  <1>2. CASE ParseFunction
    <2>1. PICK h \in Heads : Place(h, 0)
      BY <1>2 DEF ParseFunction
    <2>2. h \in AnyNode /\ h.k = "fn" /\ h.m = FALSE
      BY ProgramAssumption
    <2> QED BY <2>1, <2>2, PlaceNode DEF Closers
  <1>3. ASSUME NEW kinds, Simply(kinds) PROVE NodesOK'
    <2>1. PICK s \in Stmts : Place(s, L)
      BY <1>1, <1>3 DEF Simply
    <2>2. s \in AnyNode /\ s.k \in Simple
      BY ProgramAssumption
    <2>3. /\ s.k \in {"decl", "assign", "part", "expr"} => s.u \in Operand
          /\ s.k \in {"stop", "cont"} => s.u = None
          /\ s.k = "part" => s.t = "int"
      BY ProgramAssumption
    <2> QED BY <2>1, <2>2, <2>3, PlaceNode DEF Simple, Closers
  <1>4. ASSUME NEW k \in {"if", "loop"}, Opening(k) PROVE NodesOK'
    <2>1. PICK c \in Conds : Place(Node(k, None, c, FALSE, "void"), L)
      BY <1>1, <1>4 DEF Opening
    <2>2. c \in Operand /\ Node(k, None, c, FALSE, "void") \in AnyNode
      BY ProgramAssumption DEF Node, AnyNode, NodeKind, Openers, Types
    <2> QED BY <2>1, <2>2, PlaceNode DEF Node, Closers
  <1>5. ASSUME NEW k \in Closers, InList, Place(Node(k, None, None, FALSE, "void"), Len(open) - 1)
        PROVE  NodesOK'
    <2>1. Len(open) - 1 \in Nat
      BY <1>5, EmptySeq DEF InList, TypeOK, ParserTypeOK
    <2>2. Node(k, None, None, FALSE, "void") \in AnyNode
      BY DEF Node, AnyNode, NodeKind, Types
    <2> QED BY <1>5, <2>1, <2>2, PlaceNode DEF Node, Closers
  <1>6. CASE ParseElse \/ ParseEndIf \/ ParseEndLoop \/ ParseEndFunction
    BY <1>5, <1>6 DEF ParseElse, ParseEndIf, ParseEndLoop, ParseEndFunction, Closing, Closers
  <1>7. CASE ParseModule \/ ParseFails
    BY <1>7 DEF ParseModule, ParseFails, parserVars, NodesOK, Nodes
  <1> QED BY <1>2, <1>3, <1>4, <1>6, <1>7
          DEF ParserNext, ParseVarDecl, ParseAssignOrExpr, ParseReturn, ParseBreak,
              ParseContinue, ParseIf, ParseLoop

-----------------------------------------------------------------------------
(* The tree read from a node *)

(* A tree that stays as it is asks the same of its nodes.                   *)
LEMMA SameMeaning ==
  ASSUME prog' = prog
  PROVE  /\ Nodes' = Nodes
         /\ \A v, i : DeclsBefore(v, i)' = DeclsBefore(v, i) /\ TheDecl(v, i)' = TheDecl(v, i)
                        /\ Declared(v, i)' = Declared(v, i)
         /\ \A j : DeclType(j)' = DeclType(j) /\ Info(j)' = Info(j)
         /\ \A i : WellFormed(i)' <=> WellFormed(i)
  <1>1. \A i : FunctionOf(i)' = FunctionOf(i)
    BY SameTree
  <1>2. Nodes' = Nodes
    BY DEF Nodes
  <1>3. \A f : Within(f)' = Within(f)
    BY <1>1, <1>2 DEF Within
  <1>4. \A v, i : DeclsBefore(v, i)' = DeclsBefore(v, i)
    BY <1>1, <1>3 DEF DeclsBefore
  <1>5. \A v, i : TheDecl(v, i)' = TheDecl(v, i) /\ Declared(v, i)' = Declared(v, i)
    BY <1>4 DEF TheDecl, Declared
  <1>6. \A j : DeclType(j)' = DeclType(j) /\ Info(j)' = Info(j)
    BY DEF DeclType, Info
  <1>7. \A u, i, t : HasType(u, i, t)' <=> HasType(u, i, t)
    BY <1>5, <1>6 DEF HasType
  <1>8. \A i : LoopsAround(i)' = LoopsAround(i)
    BY DEF LoopsAround, Encloses
  <1>9. \A i : WellFormed(i)' <=> WellFormed(i)
    BY <1>1, <1>5, <1>6, <1>7, <1>8 DEF WellFormed
  <1> QED BY <1>2, <1>4, <1>5, <1>6, <1>9

(* The declarations in front of a node.                                     *)
LEMMA DeclsInFunction ==
  ASSUME TypeOK, NEW i \in Nodes, NEW f, InFunction(f, i), NEW v
  PROVE  DeclsBefore(v, i) = {j \in f..(i - 1) : DeclAt(j, v)}
  <1>1. i \in Nat /\ f \in Nat /\ f # 0 /\ f \in 1..i /\ \A k \in (f + 1)..i : prog[k].k # "fn"
    BY NodeDepths DEF Nodes, InFunction
  <1>2. \A j \in f..i : FunctionOf(j) = f
    BY <1>1, FunctionOfInside DEF InFunction
  <1>3. FunctionOf(i) = f
    BY <1>1, <1>2
  <1>4. \A j \in f..(i - 1) : j \in Within(f) /\ j < i
    BY <1>1, <1>2, NodeDepths DEF Within, Nodes
  <1>5. \A j \in Within(f) : j < i => j \in f..(i - 1)
    BY <1>1, NodeDepths DEF Within, Nodes
  <1> QED BY <1>3, <1>4, <1>5 DEF DeclsBefore, DeclAt

(* What the checker looks up is what the tree declares.                     *)
LEMMA TableFacts ==
  ASSUME TypeOK, NodesOK, tpc \in Nodes, TableOK
  PROVE  /\ \A v \in Vars : v \in DOMAIN tvars <=> Declared(v, tpc)
         /\ \A v \in DOMAIN tvars : tvars[v] = Info(TheDecl(v, tpc))
         /\ FunctionOf(tpc) = tfn /\ tfn \in Nodes
  <1>1. /\ InFunction(tfn, tpc) /\ DOMAIN tvars \subseteq Vars
        /\ tpc \in Nat /\ tfn \in Nat /\ tfn # 0 /\ tfn <= tpc /\ tfn \in Nodes
    BY NodeDepths DEF TableOK, InFunction, TypeOK, CheckerTypeOK, Nodes
  <1>2. \A v : DeclsBefore(v, tpc) = {j \in tfn..(tpc - 1) : DeclAt(j, v)}
    BY <1>1, DeclsInFunction
  <1>3. ASSUME NEW v \in Vars PROVE v \in DOMAIN tvars <=> Declared(v, tpc)
    BY <1>2 DEF Declared, TableOK
  <1>4. ASSUME NEW v \in DOMAIN tvars PROVE tvars[v] = Info(TheDecl(v, tpc))
    <2>1. v \in Vars /\ Declared(v, tpc)
      BY <1>1, <1>3
    <2>2. TheDecl(v, tpc) \in DeclsBefore(v, tpc)
      BY <2>1 DEF TheDecl, Declared
    <2> QED BY <1>2, <2>1, <2>2 DEF TableOK
  <1>5. FunctionOf(tpc) = tfn
    BY <1>1, FunctionOfInside DEF InFunction
  <1> QED BY <1>1, <1>3, <1>4, <1>5

(* checkAssignable and expectType return just for an operand that the tree  *)
(* gives the type asked for.                                                *)
LEMMA AssignableExact ==
  ASSUME TypeOK, NodesOK, tpc \in Nodes, TableOK, NEW u \in Operand, NEW t
  PROVE  Assignable(tvars, u, t) = "ok" <=> HasType(u, tpc, t)
  <1>1. CASE u \in Vars
    <2>1. u \in DOMAIN tvars <=> Declared(u, tpc)
      BY <1>1, TableFacts
    <2>2. u \in DOMAIN tvars => tvars[u].t = DeclType(TheDecl(u, tpc))
      BY TableFacts DEF Info
    <2>3. TypeOf(tvars, u) = tvars[u].t
      BY <1>1, ProgramAssumption DEF TypeOf, Literals
    <2> QED BY <1>1, <2>1, <2>2, <2>3 DEF Assignable, HasType, Unbound
  <1>2. CASE u \in {"lit", "input"}
    BY <1>2, ProgramAssumption DEF Assignable, HasType, Unbound, TypeOf, Literals
  <1>3. CASE u = "agg"
    BY <1>3, ProgramAssumption DEF Assignable, HasType, Unbound, TypeOf, Literals
  <1>4. CASE u = "void"
    BY <1>4, ProgramAssumption DEF Assignable, HasType, Unbound, TypeOf, Literals
  <1> QED BY <1>1, <1>2, <1>3, <1>4 DEF Operand, Literals

(* The declaration found is a node before the one at hand: the header or a  *)
(* declaration, and what vars_ calls mutable is a declaration marked so.    *)
LEMMA DeclKind ==
  ASSUME TypeOK, NodesOK, tpc \in Nodes, TableOK, NEW v \in DOMAIN tvars
  PROVE  tvars[v].m <=> prog[TheDecl(v, tpc)].k = "decl" /\ prog[TheDecl(v, tpc)].m
  <1>1. DOMAIN tvars \subseteq Vars
    BY DEF TypeOK, CheckerTypeOK
  <1>2. Declared(v, tpc) /\ tvars[v] = Info(TheDecl(v, tpc))
    BY <1>1, TableFacts
  <1>3. TheDecl(v, tpc) \in DeclsBefore(v, tpc)
    BY <1>2 DEF TheDecl, Declared
  <1> DEFINE j == TheDecl(v, tpc)
  <1>4. j \in Nodes /\ prog[j].k \in {"fn", "decl"}
    BY <1>3 DEF DeclsBefore, Within
  <1> HIDE DEF j
  <1>5. prog[j].k = "fn" => prog[j].m = FALSE
    BY <1>4 DEF NodesOK
  <1>6. tvars[v].m <=> prog[j].m
    BY <1>2 DEF Info, j
  <1>7. CASE prog[j].k = "fn"
    BY <1>5, <1>6, <1>7 DEF j
  <1>8. CASE prog[j].k = "decl"
    BY <1>6, <1>8 DEF j
  <1> QED BY <1>4, <1>7, <1>8

\* checkStmt returns just when the node is well formed
Exact(code) == code = "ok" <=> WellFormed(tpc)

(* What each of the checks says of the node at hand.                        *)
LEMMA ExactVerdicts ==
  ASSUME TypeOK, NodesOK, tpc \in Nodes, TableOK
  PROVE  /\ Now.k = "decl" => Exact(DeclVerdict)
         /\ Now.k = "assign" =>
              Exact(IF Now.v \notin DOMAIN tvars THEN "UndeclaredIdentifier"
                    ELSE IF ~tvars[Now.v].m THEN "ImmutableAssign"
                    ELSE Assignable(tvars, Now.u, tvars[Now.v].t))
         /\ Now.k = "part" =>
              Exact(IF Unbound(tvars, Now.v) THEN "UndeclaredIdentifier"
                    ELSE IF TypeOf(tvars, Now.v) # "agg" THEN "NotAnAggregate"
                    ELSE Assignable(tvars, Now.u, Now.t))
         /\ Now.k = "expr" => Exact(IF Unbound(tvars, Now.u) THEN "UndeclaredIdentifier" ELSE "ok")
         /\ Now.k = "ret" =>
              Exact(IF Now.u # None THEN Assignable(tvars, Now.u, prog[tfn].t)
                    ELSE IF prog[tfn].t # "void" THEN "ReturnTypeMismatch" ELSE "ok")
         /\ Now.k \in {"if", "loop"} => Exact(CondVerdict)
  <1>1. /\ Now \in AnyNode /\ Now = prog[tpc]
        /\ Now.k \in {"decl", "assign", "part"} => Now.v \in Vars
        /\ Now.k \in {"decl", "assign", "part", "expr", "if", "loop"} => Now.u \in Operand
        /\ Now.k = "part" => Now.t = "int"
        /\ Now.u # None => Now.u \in Operand
    BY NodeDepths DEF Now, NodesOK, Nodes, TypeOK, ParserTypeOK, AnyNode
  <1>2. \A v \in Vars : v \in DOMAIN tvars <=> Declared(v, tpc)
    BY TableFacts
  <1>3. \A v \in DOMAIN tvars : /\ tvars[v].t = DeclType(TheDecl(v, tpc))
                                /\ tvars[v].m <=> prog[TheDecl(v, tpc)].k = "decl" /\ prog[TheDecl(v, tpc)].m
    BY TableFacts, DeclKind DEF Info
  <1>4. FunctionOf(tpc) = tfn
    BY TableFacts
  <1>5. \A u \in Operand : \A t : Assignable(tvars, u, t) = "ok" <=> HasType(u, tpc, t)
    BY AssignableExact
  <1>6. CASE Now.k = "decl"
    <2>1. WellFormed(tpc) <=> ~Declared(Now.v, tpc) /\ Now.t # "void" /\ HasType(Now.u, tpc, Now.t)
      BY <1>1, <1>6 DEF WellFormed
    <2> QED BY <1>1, <1>2, <1>5, <1>6, <2>1 DEF Exact, DeclVerdict
  <1>7. CASE Now.k = "assign"
    <2>1. WellFormed(tpc) <=> /\ Declared(Now.v, tpc)
                              /\ prog[TheDecl(Now.v, tpc)].k = "decl" /\ prog[TheDecl(Now.v, tpc)].m
                              /\ HasType(Now.u, tpc, DeclType(TheDecl(Now.v, tpc)))
      BY <1>1, <1>7 DEF WellFormed
    <2>2. CASE Now.v \notin DOMAIN tvars
      BY <1>1, <1>2, <1>7, <2>1, <2>2 DEF Exact
    <2>3. CASE Now.v \in DOMAIN tvars /\ ~tvars[Now.v].m
      BY <1>1, <1>3, <1>7, <2>1, <2>3 DEF Exact
    <2>4. CASE Now.v \in DOMAIN tvars /\ tvars[Now.v].m
      <3>1. /\ Declared(Now.v, tpc) /\ prog[TheDecl(Now.v, tpc)].k = "decl"
            /\ prog[TheDecl(Now.v, tpc)].m /\ tvars[Now.v].t = DeclType(TheDecl(Now.v, tpc))
        BY <1>1, <1>2, <1>3, <1>7, <2>4
      <3>2. Assignable(tvars, Now.u, tvars[Now.v].t) = "ok" <=> HasType(Now.u, tpc, tvars[Now.v].t)
        BY <1>1, <1>5, <1>7
      <3> QED BY <2>1, <2>4, <3>1, <3>2, <1>7 DEF Exact
    <2> QED BY <2>2, <2>3, <2>4
  <1>8. CASE Now.k = "part"
    <2>1. WellFormed(tpc) <=> HasType(Now.v, tpc, "agg") /\ HasType(Now.u, tpc, "int")
      BY <1>1, <1>8 DEF WellFormed
    <2>2. HasType(Now.v, tpc, "agg") <=> Now.v \in DOMAIN tvars /\ tvars[Now.v].t = "agg"
      BY <1>1, <1>2, <1>3, <1>8 DEF HasType
    <2>3. /\ Unbound(tvars, Now.v) <=> Now.v \notin DOMAIN tvars
          /\ TypeOf(tvars, Now.v) = tvars[Now.v].t
      BY <1>1, <1>8, ProgramAssumption DEF Unbound, TypeOf, Literals
    <2>4. Assignable(tvars, Now.u, Now.t) = "ok" <=> HasType(Now.u, tpc, "int")
      BY <1>1, <1>5, <1>8
    <2> QED BY <1>8, <2>1, <2>2, <2>3, <2>4 DEF Exact
  <1>9. CASE Now.k = "expr"
    BY <1>1, <1>2, <1>9 DEF WellFormed, Exact, Unbound
  <1>10. CASE Now.k = "ret"
    <2>1. WellFormed(tpc) <=> IF Now.u = None THEN prog[tfn].t = "void"
                              ELSE HasType(Now.u, tpc, prog[tfn].t)
      BY <1>1, <1>4, <1>10 DEF WellFormed
    <2> QED BY <1>1, <1>5, <1>10, <2>1 DEF Exact
  <1>11. CASE Now.k \in {"if", "loop"}
    <2>1. WellFormed(tpc) <=> HasType(Now.u, tpc, "int")
      BY <1>1, <1>11 DEF WellFormed
    <2> QED BY <1>1, <1>5, <1>11, <2>1 DEF Exact, CondVerdict
  <1> QED BY <1>6, <1>7, <1>8, <1>9, <1>10, <1>11

(* stop and cont are accepted just inside a loop.                           *)
LEMMA ExactExits ==
  ASSUME NestInv, phase = "check", tpc \in Nodes, Now.k \in {"stop", "cont"}
  PROVE  loopDepth # 0 <=> WellFormed(tpc)
  <1>1. TypeOK /\ TreeOK /\ MatchOK /\ loopDepth = Cardinality(OpenLoops(prog, tpc)) /\ tpc \in 1..Len(prog)
    BY DEF NestInv, FlowInv, DepthOK, Nodes
  <1>2. LoopsAround(tpc) = OpenLoops(prog, tpc)
    BY <1>1, LoopsAreOpen DEF Now
  <1>3. Cardinality(OpenLoops(prog, tpc)) = 0 <=> OpenLoops(prog, tpc) = {}
    BY <1>1, OpenLoopsFinite, FS_EmptySet
  <1>4. WellFormed(tpc) <=> LoopsAround(tpc) # {}
    BY DEF WellFormed, Now
  <1> QED BY <1>1, <1>2, <1>3, <1>4

-----------------------------------------------------------------------------
(* The walk *)

(* A check that is exact lets the walk go on behind a well-formed node, and *)
(* stops it at one that is not.                                             *)
LEMMA ExactStep ==
  ASSUME TypeOK, CheckOK, phase = "check", tpc \in Nodes, prog' = prog,
         NEW code, Exact(code), Verdict(code),
         code = "ok" /\ tpc + 1 \in Nodes => prog[tpc + 1].k = "fn" \/ TableOK'
  PROVE  CheckOK'
  <1>1. \/ code = "ok" /\ tpc' = tpc + 1 /\ phase' = phase /\ err' = err
        \/ code # "ok" /\ tpc' = tpc /\ phase' = "failed" /\ err' = [stage |-> "check", code |-> code]
    BY VerdictMoves DEF mainVars
  <1>2. Nodes' = Nodes /\ \A i : WellFormed(i)' <=> WellFormed(i)
    BY SameMeaning
  <1>3. tpc \in Nat /\ Len(prog) \in Nat /\ Nodes = 1..Len(prog) /\ err = NoError
    BY NodeDepths DEF Nodes, CheckOK
  <1>4. CASE code = "ok"
    <2>1. tpc' = tpc + 1 /\ phase' = "check" /\ err' = NoError /\ WellFormed(tpc)
      BY <1>1, <1>3, <1>4 DEF Exact
    <2>2. ASSUME NEW i \in Nodes, i < tpc + 1 PROVE WellFormed(i)
      <3>1. i = tpc \/ i < tpc
        BY <1>3, <2>2
      <3> QED BY <2>1, <3>1 DEF CheckOK
    <2>3. tpc' \in Nodes' => Now'.k = "fn" \/ TableOK'
      BY <1>2, <1>4, <2>1 DEF Now
    <2> QED BY <1>2, <2>1, <2>2, <2>3 DEF CheckOK, NoError
  <1>5. CASE code # "ok"
    <2>1. tpc' = tpc /\ phase' = "failed" /\ ~WellFormed(tpc)
      BY <1>1, <1>5 DEF Exact
    <2>2. WellFormed(tpc)' <=> WellFormed(tpc)
      BY <1>2, <2>1
    <2>3. \A i \in Nodes : i < tpc => WellFormed(i)
      BY DEF CheckOK
    <2>4. \A i \in Nodes' : i < tpc' => WellFormed(i)'
      BY <1>2, <2>1, <2>3
    <2>5. ~WellFormed(tpc)'
      BY <2>1, <2>2
    <2> QED BY <2>1, <2>4, <2>5 DEF CheckOK
  <1> QED BY <1>4, <1>5

(* Where the walk is, behind the node at hand.                              *)
LEMMA FunctionGoesOn ==
  ASSUME TypeOK, tpc \in Nodes, TableOK, prog[tpc + 1].k # "fn"
  PROVE  InFunction(tfn, tpc + 1)
  <1>1. tpc \in Nat /\ tfn \in 1..tpc /\ prog[tfn].k = "fn" /\ \A k \in (tfn + 1)..tpc : prog[k].k # "fn"
    BY NodeDepths DEF TableOK, InFunction, Nodes
  <1>2. tfn \in 1..(tpc + 1)
    BY <1>1
  <1>3. ASSUME NEW k \in (tfn + 1)..(tpc + 1) PROVE prog[k].k # "fn"
    <2>1. k = tpc + 1 \/ k \in (tfn + 1)..tpc
      BY <1>1
    <2> QED BY <1>1, <2>1
  <1> QED BY <1>1, <1>2, <1>3 DEF InFunction

(* A node that declares nothing leaves vars_ as it should be.               *)
LEMMA TableKept ==
  ASSUME TypeOK, tpc \in Nodes, TableOK, Now.k \notin {"fn", "decl"}, prog[tpc + 1].k # "fn",
         UNCHANGED <<prog, tfn, tvars>>, tpc' = tpc + 1
  PROVE  TableOK'
  <1>1. tpc \in Nat /\ tfn \in Nat /\ tfn \in 1..tpc
    BY NodeDepths DEF TableOK, InFunction, Nodes, TypeOK, CheckerTypeOK
  <1>2. InFunction(tfn, tpc + 1)
    BY FunctionGoesOn
  <1>3. ASSUME NEW j \in tfn..tpc, NEW v, DeclAt(j, v) PROVE j \in tfn..(tpc - 1)
    <2>1. j # tpc
      BY <1>3 DEF DeclAt, Now
    <2> QED BY <1>1, <2>1
  <1>4. tpc' - 1 = tpc
    BY <1>1
  <1>5. \A v \in DOMAIN tvars : \E j \in tfn..tpc : DeclAt(j, v)
    <2>1. \A j \in tfn..(tpc - 1) : j \in tfn..tpc
      BY <1>1
    <2> QED BY <2>1 DEF TableOK
  <1>6. \A j \in tfn..tpc : \A v \in Vars : DeclAt(j, v) => v \in DOMAIN tvars /\ tvars[v] = Info(j)
    BY <1>3 DEF TableOK
  <1> QED BY <1>2, <1>4, <1>5, <1>6 DEF TableOK, InFunction, DeclAt, Info, DeclType

(* A declaration enters vars_.                                              *)
LEMMA TableGrows ==
  ASSUME TypeOK, NodesOK, tpc \in Nodes, TableOK, Now.k = "decl", prog[tpc + 1].k # "fn",
         Now.v \notin DOMAIN tvars,
         tvars' = Bind(tvars, Now.v, [t |-> Now.t, m |-> Now.m]),
         UNCHANGED <<prog, tfn>>, tpc' = tpc + 1
  PROVE  TableOK'
  <1>1. tpc \in Nat /\ tfn \in Nat /\ tfn \in 1..tpc /\ Now.v \in Vars
    BY NodeDepths DEF TableOK, InFunction, Nodes, TypeOK, CheckerTypeOK, ParserTypeOK, Now
  <1>2. InFunction(tfn, tpc + 1)
    BY FunctionGoesOn
  <1>3. tpc' - 1 = tpc
    BY <1>1
  <1>4. /\ DOMAIN tvars' = DOMAIN tvars \cup {Now.v} /\ tvars'[Now.v] = Info(tpc)
        /\ \A v \in DOMAIN tvars : tvars'[v] = tvars[v]
    BY DEF Bind, Info, DeclType, Now
  <1>5. DeclAt(tpc, Now.v)
    BY DEF DeclAt, Now
  <1>6. ASSUME NEW v \in DOMAIN tvars' PROVE \E j \in tfn..tpc : DeclAt(j, v)
    <2>1. CASE v = Now.v
      BY <1>1, <1>5, <2>1
    <2>2. CASE v # Now.v
      <3>1. PICK j \in tfn..(tpc - 1) : DeclAt(j, v)
        BY <1>4, <1>6, <2>2 DEF TableOK
      <3>2. j \in tfn..tpc
        BY <1>1
      <3> QED BY <3>1, <3>2
    <2> QED BY <2>1, <2>2
  <1>7. ASSUME NEW j \in tfn..tpc, NEW v \in Vars, DeclAt(j, v)
        PROVE  v \in DOMAIN tvars' /\ tvars'[v] = Info(j)
    <2>1. CASE j = tpc
      <3>1. v = Now.v
        BY <1>7, <2>1 DEF DeclAt, Now
      <3> QED BY <1>4, <2>1, <3>1
    <2>2. CASE j # tpc
      <3>1. j \in tfn..(tpc - 1)
        BY <1>1, <2>2
      <3>2. v \in DOMAIN tvars /\ tvars[v] = Info(j)
        BY <1>7, <3>1 DEF TableOK
      <3> QED BY <1>4, <3>2
    <2> QED BY <2>1, <2>2
  <1> QED BY <1>2, <1>3, <1>6, <1>7 DEF TableOK, InFunction, DeclAt, Info, DeclType

(* A function starts with its parameter.                                    *)
LEMMA TableStarts ==
  ASSUME TypeOK, NodesOK, tpc \in Nodes, Now.k = "fn", prog[tpc + 1].k # "fn",
         tvars' = ParamEnv(Now), tfn' = tpc, prog' = prog, tpc' = tpc + 1
  PROVE  TableOK'
  <1>1. tpc \in Nat \ {0} /\ tpc' - 1 = tpc /\ Now.m = FALSE /\ Now = prog[tpc]
    BY NodeDepths DEF Nodes, NodesOK, Now
  <1>2. tpc \in 1..(tpc + 1) /\ \A k \in (tpc + 1)..(tpc + 1) : prog[k].k # "fn"
    <2>1. \A k \in (tpc + 1)..(tpc + 1) : k = tpc + 1
      BY <1>1
    <2> QED BY <1>1, <2>1
  <1>3. \A j \in tpc..tpc : j = tpc
    BY <1>1
  <1>4. Info(tpc) = [t |-> "int", m |-> FALSE]
    BY <1>1 DEF Info, DeclType
  <1>5. CASE Now.v = None
    <2>1. DOMAIN tvars' = {}
      BY <1>5 DEF ParamEnv, NoVars
    <2>2. \A v \in Vars : ~DeclAt(tpc, v)
      BY <1>1, <1>5, ProgramAssumption DEF DeclAt
    <2>3. \A j \in tpc..tpc : \A v \in Vars : ~DeclAt(j, v)
      BY <1>3, <2>2
    <2> QED BY <1>1, <1>2, <2>1, <2>3 DEF TableOK, InFunction, DeclAt, Info, DeclType
  <1>6. CASE Now.v # None
    <2>1. DOMAIN tvars' = {Now.v} /\ tvars'[Now.v] = Info(tpc)
      BY <1>4, <1>6 DEF ParamEnv, NoVars, Bind
    <2>2. \A v : DeclAt(tpc, v) <=> v = Now.v
      BY <1>1 DEF DeclAt
    <2>3. tpc \in tpc..tpc
      BY <1>1
    <2>4. \A v \in DOMAIN tvars' : \E j \in tpc..tpc : DeclAt(j, v)
      BY <2>1, <2>2, <2>3
    <2>5. \A j \in tpc..tpc : \A v \in Vars : DeclAt(j, v) => v \in DOMAIN tvars' /\ tvars'[v] = Info(j)
      BY <1>3, <2>1, <2>2
    <2> QED BY <1>1, <1>2, <2>4, <2>5 DEF TableOK, InFunction, DeclAt, Info, DeclType
  <1> QED BY <1>5, <1>6

(* A node at which the checker has nothing to throw.                        *)
LEMMA EasyStep ==
  ASSUME TypeOK, CheckOK, phase = "check", tpc \in Nodes, prog' = prog, UNCHANGED mainVars,
         Now.k \in {"fn", "else", "endif", "endloop", "endfn"}, tpc' = tpc + 1,
         tpc + 1 \in Nodes => prog[tpc + 1].k = "fn" \/ TableOK'
  PROVE  CheckOK'
  <1>1. Exact("ok")
    BY DEF Exact, WellFormed, Now
  <1>2. Verdict("ok")
    BY DEF Verdict
  <1> QED BY <1>1, <1>2, ExactStep

(* Every action of the checker keeps its part of the invariant.             *)
LEMMA CheckExact ==
  ASSUME NestInv, NodesOK, CheckOK, CheckerNext, UNCHANGED parserVars
  PROVE  CheckOK'
  <1>1. TypeOK /\ prog' = prog /\ Len(prog) \in Nat /\ Nodes = 1..Len(prog)
    BY NodeDepths DEF NestInv, FlowInv, parserVars, Nodes
  <1>2. ASSUME NEW kinds, Checking(kinds)
        PROVE  /\ phase = "check" /\ tpc \in Nodes /\ Now.k \in kinds
               /\ Now.k # "fn" => TableOK
    BY <1>1, <1>2 DEF Checking, CheckOK
  <1>3. ASSUME Now.k \notin {"fn", "decl"}, NEW kinds, Checking(kinds), UNCHANGED <<tfn, tvars>>,
               NEW code, Exact(code), Verdict(code)
        PROVE  CheckOK'
    <2>1. ASSUME code = "ok", tpc + 1 \in Nodes, prog[tpc + 1].k # "fn" PROVE TableOK'
      <3>1. tpc' = tpc + 1
        BY <1>3, <2>1 DEF Verdict
      <3> QED BY <1>1, <1>2, <1>3, <2>1, <3>1, TableKept
    <2> QED BY <1>1, <1>2, <1>3, <2>1, ExactStep
  <1>4. ASSUME Now.k \in {"else", "endif", "endloop", "endfn"}, NEW kinds, Checking(kinds),
               UNCHANGED <<tfn, tvars, mainVars>>, tpc' = tpc + 1
        PROVE  CheckOK'
    <2>1. Now.k \notin {"fn", "decl"}
      BY <1>4
    <2>2. prog[tpc + 1].k # "fn" => TableOK'
      BY <1>1, <1>2, <1>4, <2>1, TableKept
    <2> QED BY <1>1, <1>2, <1>4, <2>2, EasyStep
  <1>5. CASE CheckFn
    <2>1. Checking({"fn"}) /\ tfn' = tpc /\ tvars' = ParamEnv(Now) /\ tpc' = tpc + 1 /\ UNCHANGED mainVars
      BY <1>5 DEF CheckFn
    <2>2. phase = "check" /\ tpc \in Nodes /\ Now.k = "fn"
      BY <1>2, <2>1
    <2>3. prog[tpc + 1].k # "fn" => TableOK'
      BY <1>1, <2>1, <2>2, TableStarts
    <2> QED BY <1>1, <2>1, <2>2, <2>3, EasyStep
  <1>6. CASE CheckVarDecl
    <2>1. /\ Checking({"decl"}) /\ Verdict(DeclVerdict) /\ tfn' = tfn
          /\ tvars' = IF DeclVerdict = "ok"
                      THEN Bind(tvars, Now.v, [t |-> Now.t, m |-> Now.m]) ELSE tvars
      BY <1>6 DEF CheckVarDecl
    <2>2. phase = "check" /\ tpc \in Nodes /\ Now.k = "decl" /\ TableOK
      BY <1>2, <2>1
    <2>3. Exact(DeclVerdict)
      BY <1>1, <2>2, ExactVerdicts
    <2>4. ASSUME DeclVerdict = "ok", tpc + 1 \in Nodes, prog[tpc + 1].k # "fn" PROVE TableOK'
      <3>1. tpc' = tpc + 1 /\ Now.v \notin DOMAIN tvars
        BY <2>1, <2>4 DEF Verdict, DeclVerdict
      <3> QED BY <1>1, <2>1, <2>2, <2>4, <3>1, TableGrows
    <2> QED BY <1>1, <2>1, <2>2, <2>3, <2>4, ExactStep
  <1>7. CASE CheckAssign
    <2> DEFINE code == IF Now.v \notin DOMAIN tvars THEN "UndeclaredIdentifier"
                       ELSE IF ~tvars[Now.v].m THEN "ImmutableAssign"
                       ELSE Assignable(tvars, Now.u, tvars[Now.v].t)
    <2>1. Checking({"assign"}) /\ Verdict(code) /\ UNCHANGED <<tfn, tvars>>
      BY <1>7 DEF CheckAssign
    <2>2. Exact(code) /\ Now.k \notin {"fn", "decl"}
      BY <1>1, <1>2, <2>1, ExactVerdicts
    <2> HIDE DEF code
    <2> QED BY <1>3, <2>1, <2>2
  <1>8. CASE CheckPartAssign
    <2> DEFINE code == IF Unbound(tvars, Now.v) THEN "UndeclaredIdentifier"
                       ELSE IF TypeOf(tvars, Now.v) # "agg" THEN "NotAnAggregate"
                       ELSE Assignable(tvars, Now.u, Now.t)
    <2>1. Checking({"part"}) /\ Verdict(code) /\ UNCHANGED <<tfn, tvars>>
      BY <1>8 DEF CheckPartAssign
    <2>2. Exact(code) /\ Now.k \notin {"fn", "decl"}
      BY <1>1, <1>2, <2>1, ExactVerdicts
    <2> HIDE DEF code
    <2> QED BY <1>3, <2>1, <2>2
  <1>9. CASE CheckExpr
    <2> DEFINE code == IF Unbound(tvars, Now.u) THEN "UndeclaredIdentifier" ELSE "ok"
    <2>1. Checking({"expr"}) /\ Verdict(code) /\ UNCHANGED <<tfn, tvars>>
      BY <1>9 DEF CheckExpr
    <2>2. Exact(code) /\ Now.k \notin {"fn", "decl"}
      BY <1>1, <1>2, <2>1, ExactVerdicts
    <2> HIDE DEF code
    <2> QED BY <1>3, <2>1, <2>2
  <1>10. CASE CheckReturn
    <2> DEFINE code == IF Now.u # None THEN Assignable(tvars, Now.u, prog[tfn].t)
                       ELSE IF prog[tfn].t # "void" THEN "ReturnTypeMismatch" ELSE "ok"
    <2>1. Checking({"ret"}) /\ Verdict(code) /\ UNCHANGED <<tfn, tvars>>
      BY <1>10 DEF CheckReturn
    <2>2. Exact(code) /\ Now.k \notin {"fn", "decl"}
      BY <1>1, <1>2, <2>1, ExactVerdicts
    <2> HIDE DEF code
    <2> QED BY <1>3, <2>1, <2>2
  <1>11. CASE CheckIf \/ CheckLoop
    <2>1. PICK k \in {"if", "loop"} : Checking({k}) /\ Verdict(CondVerdict) /\ UNCHANGED <<tfn, tvars>>
      BY <1>11 DEF CheckIf, CheckLoop
    <2>2. Exact(CondVerdict) /\ Now.k \notin {"fn", "decl"}
      BY <1>1, <1>2, <2>1, ExactVerdicts
    <2> QED BY <1>3, <2>1, <2>2
  <1>12. ASSUME NEW k \in {"stop", "cont"}, Checking({k}), NEW error, error # "ok",
                Verdict(IF loopDepth = 0 THEN error ELSE "ok"), UNCHANGED <<tfn, tvars>>
         PROVE  CheckOK'
    <2> DEFINE code == IF loopDepth = 0 THEN error ELSE "ok"
    <2>1. Exact(code) /\ Now.k \notin {"fn", "decl"}
      BY <1>1, <1>2, <1>12, ExactExits DEF Exact
    <2>2. Verdict(code)
      BY <1>12
    <2> HIDE DEF code
    <2> QED BY <1>3, <1>12, <2>1, <2>2
  <1>13. CASE CheckBreak \/ CheckContinue
    <2>1. CheckBreak => CheckOK'
      BY <1>12 DEF CheckBreak
    <2>2. CheckContinue => CheckOK'
      BY <1>12 DEF CheckContinue
    <2> QED BY <1>13, <2>1, <2>2
  <1>14. CASE CheckEndLoop \/ CheckListEnd
    <2>1. CheckEndLoop => CheckOK'
      BY <1>2, <1>4 DEF CheckEndLoop
    <2>2. CheckListEnd => CheckOK'
      <3>1. Now.k \in {"else", "endif", "endfn"} => Now.k \in {"else", "endif", "endloop", "endfn"}
        OBVIOUS
      <3> QED BY <1>2, <1>4, <3>1 DEF CheckListEnd
    <2> QED BY <1>14, <2>1, <2>2
  <1>15. CASE CheckDone
    <2>1. phase = "check" /\ tpc > Len(prog) /\ phase' = "gen" /\ UNCHANGED <<checkerVars, err>>
      BY <1>15 DEF CheckDone
    <2>2. Nodes' = Nodes /\ \A i : WellFormed(i)' <=> WellFormed(i)
      BY <1>1, SameMeaning
    <2> QED BY <1>1, <2>1, <2>2 DEF CheckOK, checkerVars, NoError
  <1> QED BY <1>5, <1>6, <1>7, <1>8, <1>9, <1>10, <1>11, <1>13, <1>14, <1>15 DEF CheckerNext

-----------------------------------------------------------------------------
(* The invariant *)

(* The checker's part of it says nothing of the other stages' variables.    *)
LEMMA CheckStays ==
  ASSUME TypeOK, CheckOK, UNCHANGED <<prog, checkerVars>>,
         \/ UNCHANGED mainVars
         \/ phase = "gen" /\ phase' \in {"gen", "done", "failed"} /\ err'.stage # "check"
              /\ (phase' # "failed" => err' = err)
  PROVE  CheckOK'
  <1>1. Nodes' = Nodes /\ \A i : WellFormed(i)' <=> WellFormed(i)
    BY SameMeaning
  <1>2. TableOK' <=> TableOK
    BY DEF TableOK, InFunction, DeclAt, Info, DeclType, checkerVars
  <1>3. Now' = Now /\ tpc' = tpc /\ prog' = prog
    BY DEF Now, checkerVars
  <1>4. \A i \in Nodes' : i < tpc' => WellFormed(i)'
    BY <1>1, <1>3 DEF CheckOK
  <1>5. CASE UNCHANGED mainVars
    <2>1. WellFormed(tpc)' <=> WellFormed(tpc)
      BY <1>1, <1>3
    <2> QED BY <1>1, <1>2, <1>3, <1>4, <1>5, <2>1 DEF CheckOK, mainVars, NoError
  <1>6. CASE /\ phase = "gen" /\ phase' \in {"gen", "done", "failed"} /\ err'.stage # "check"
             /\ phase' # "failed" => err' = err
    BY <1>3, <1>4, <1>6 DEF CheckOK, NoError
  <1> QED BY <1>5, <1>6

(* Only the stage at work throws.                                           *)
LEMMA GenErrors ==
  ASSUME GenNext
  PROVE  \/ UNCHANGED mainVars
         \/ phase' = "done" /\ err' = err
         \/ phase' = "failed" /\ err'.stage = "gen"
  <1>1. ASSUME NEW code, GenThrow(code) PROVE phase' = "failed" /\ err'.stage = "gen"
    BY <1>1 DEF GenThrow, Throw
  <1>2. CASE GenDone
    BY <1>2 DEF GenDone
  <1>3. CASE SkipRest \/ GenFunction \/ GenElse \/ GenEndIf \/ GenEndLoop
    BY <1>3 DEF SkipRest, GenFunction, GenElse, GenEndIf, GenEndLoop
  <1>4. CASE GenVarDecl \/ GenAssign \/ GenPartAssign \/ GenExprStmt \/ GenReturn
    BY <1>1, <1>4 DEF GenVarDecl, GenAssign, GenPartAssign, GenExprStmt, GenReturn, UndeclaredUse
  <1>5. CASE GenBreak \/ GenContinue \/ GenIf \/ GenLoop \/ GenEndFunction
    BY <1>1, <1>5 DEF GenBreak, GenContinue, Leave, GenIf, GenLoop, GenEndFunction, UndeclaredUse
  <1> QED BY <1>2, <1>3, <1>4, <1>5 DEF GenNext

(* The parser leaves the checker at the first node.                         *)
LEMMA ParseExact ==
  ASSUME NestInv, NestInv', CheckOK, Parse
  PROVE  CheckOK'
  <1>1. /\ phase = "parse" /\ tpc' = tpc /\ tpc = 1 /\ Len(prog') \in Nat
        /\ phase' \in {"parse", "check", "failed"}
    BY Stage DEF NestInv, DepthOK, checkerVars, FlowInv, TypeOK, ParserTypeOK
  <1>2. \A i \in Nodes' : ~(i < tpc')
    BY <1>1 DEF Nodes
  <1>3. \/ UNCHANGED mainVars
        \/ phase' = "check" /\ err' = err
        \/ phase' = "failed" /\ err'.stage = "parse"
    <2>1. ParserNext
      BY DEF Parse
    <2>2. CASE ParseModule
      BY <2>2 DEF ParseModule
    <2>3. CASE ParseFails
      BY <2>3 DEF ParseFails, Throw
    <2>4. CASE ParseFunction \/ ParseEndFunction \/ ParseElse \/ ParseEndIf \/ ParseEndLoop
      BY <2>4 DEF ParseFunction, ParseEndFunction, ParseElse, ParseEndIf, ParseEndLoop, Closing
    <2>5. CASE ParseVarDecl \/ ParseAssignOrExpr \/ ParseReturn \/ ParseBreak \/ ParseContinue
      BY <2>5 DEF ParseVarDecl, ParseAssignOrExpr, ParseReturn, ParseBreak, ParseContinue, Simply
    <2>6. CASE ParseIf \/ ParseLoop
      BY <2>6 DEF ParseIf, ParseLoop, Opening
    <2> QED BY <2>1, <2>2, <2>3, <2>4, <2>5, <2>6 DEF ParserNext
  <1>4. err = NoError
    BY <1>1 DEF CheckOK
  <1>5. tpc' \in Nodes' => Now'.k = "fn"
    BY <1>1 DEF NestInv, FlowInv, TreeOK, Now, Nodes
  <1> QED BY <1>1, <1>2, <1>3, <1>4, <1>5 DEF CheckOK, NoError, mainVars

(* The invariant holds before anything is parsed.                           *)
LEMMA CheckInit == Init => CheckInv
  <1> SUFFICES ASSUME Init PROVE CheckInv
    OBVIOUS
  <1>1. PlaceInv /\ phase = "parse" /\ Len(prog) = 0 /\ err = NoError
    BY PlaceInit DEF Init, ParserInit
  <1>2. BranchInv
    BY <1>1, NoCodeYet DEF BranchInv, BranchOK
  <1>3. Nodes = {}
    BY <1>1 DEF Nodes
  <1> QED BY <1>1, <1>2, <1>3 DEF CheckInv, NodesOK, CheckOK, NoError

(* Every step of the compiler keeps it.                                     *)
LEMMA CheckStep == CheckInv /\ [Next]_vars => CheckInv'
  <1> SUFFICES ASSUME CheckInv, [Next]_vars PROVE CheckInv'
    OBVIOUS
  <1>1. /\ BranchInv' /\ NestInv /\ NestInv' /\ NodesOK /\ CheckOK /\ TypeOK
    BY BranchStep DEF CheckInv, BranchInv, PlaceInv, NestInv, FlowInv
  <1>2. prog' = prog => NodesOK'
    BY <1>1 DEF NodesOK, Nodes
  <1>3. CASE Parse
    BY <1>1, <1>3, ParseNodes, ParseExact DEF Parse, CheckInv
  <1>4. CASE Check
    BY <1>1, <1>2, <1>4, CheckExact DEF Check, CheckInv, parserVars
  <1>5. CASE Generate
    <2>1. GenNext /\ UNCHANGED <<prog, checkerVars>> /\ phase = "gen" /\ phase' \in {"gen", "done", "failed"}
      BY <1>5, Stage DEF Generate, parserVars
    <2>2. err = NoError
      BY <1>1, <2>1 DEF CheckOK
    <2>3. \/ UNCHANGED mainVars
          \/ err'.stage # "check" /\ (phase' # "failed" => err' = err)
      BY <2>1, <2>2, GenErrors DEF NoError
    <2>4. CheckOK'
      BY <1>1, <2>1, <2>3, CheckStays
    <2> QED BY <1>1, <1>2, <2>1, <2>4 DEF CheckInv
  <1>6. CASE Finished \/ UNCHANGED vars
    <2>1. UNCHANGED <<prog, checkerVars>> /\ UNCHANGED mainVars
      BY <1>6 DEF Finished, vars, checkerVars, mainVars
    <2>2. CheckOK'
      BY <1>1, <2>1, CheckStays
    <2> QED BY <1>1, <1>2, <2>1, <2>2 DEF CheckInv
  <1> QED BY <1>3, <1>4, <1>5, <1>6 DEF Next

(* The inductive invariant holds throughout a compilation.                  *)
THEOREM CheckingCorrect == Spec => []CheckInv
  BY CheckInit, CheckStep, PTL DEF Spec

(* The checker, with one flat vars_ per function and its count of loops,    *)
(* accepts exactly the nodes that the tree makes well formed and throws at  *)
(* the first that is not: no lookup of checkStmt is stale and none is       *)
(* missing, for every program.                                              *)
THEOREM CheckerIsExactCorrect == Spec => []CheckerIsExact
  <1>1. CheckInv => CheckerIsExact
    BY DEF CheckInv, CheckOK, CheckerIsExact
  <1> QED BY <1>1, CheckingCorrect, PTL

-----------------------------------------------------------------------------
(* One step of the generator *)

\* vars_, the insertion block and the activations behind the node at hand
NewVars == CASE Here.k = "fn"   -> ParamEnv(Here)
             [] Here.k = "decl" -> Bind(cvars, Here.v, [t |-> Here.t, m |-> Here.m])
             [] Here.k \notin {"fn", "decl"} -> cvars

NewIns == CASE Here.k = "fn"   -> <<cpc, "entry">>
            [] Here.k = "if"   -> <<cpc, "then">>
            [] Here.k = "loop" -> <<cpc, "body">>
            [] Here.k = "else" -> <<Last(frames).at, "else">>
            [] Here.k = "endif" -> <<Last(frames).at, "merge">>
            [] Here.k = "endloop" -> <<Last(frames).at, "after">>
            [] Here.k \in Simple \cup {"endfn"} -> ins

NewFrames == CASE Here.k = "if"   -> Append(frames, [k |-> "then", at |-> cpc])
               [] Here.k = "loop" -> Append(frames, [k |-> "loop", at |-> cpc])
               [] Here.k = "else" -> Append(Front(frames), [k |-> "else", at |-> Last(frames).at])
               [] Here.k \in {"endif", "endloop"} -> Front(frames)
               [] Here.k \in Simple \cup {"fn", "endfn"} -> frames

\* the statements that evaluate an operand
Evaluating == {"decl", "assign", "part", "expr", "ret", "if", "loop"}

\* what the generator has made sure of by itself
Passed == /\ Here.k \in Evaluating => Bound(Here.u)
          /\ Here.k = "decl" => Here.v \notin DOMAIN cvars
          /\ Here.k = "assign" => Here.v \in DOMAIN cvars /\ cvars[Here.v].m
          /\ Here.k = "part" => Here.v \in DOMAIN cvars
          /\ Here.k = "endfn" => frames = <<>> /\ Verified(DefaultReturn, cfn)

Skips == Skipping /\ cpc' \in ListEnds(cpc) /\ UNCHANGED <<cfn, cvars, ins, body, frames>>

Advances == /\ ~Skipping /\ cpc' = cpc + 1 /\ Passed
            /\ cfn' = IF Here.k = "fn" THEN cpc ELSE cfn
            /\ cvars' = NewVars /\ ins' = NewIns /\ frames' = NewFrames

(* A step that goes on skips the dead rest of a list or gets past the node. *)
LEMMA GenMoves ==
  ASSUME PlaceInv, GenNext, phase' = "gen"
  PROVE  /\ cpc \in Nodes /\ phase = "gen" /\ Grows
         /\ Skips \/ Advances
  <1>1. Grows /\ cpc \in Nodes /\ phase = "gen"
    BY GenerateCode
  <1>2. ASSUME NEW code, GenThrow(code) PROVE FALSE
    BY <1>2 DEF GenThrow, Throw
  <1>3. ~GenDone
    BY DEF GenDone
  <1>4. ASSUME Here.k \notin Statements PROVE ~Skipping
    BY <1>4 DEF Skipping
  <1>5. ASSUME NEW kinds, AtStatement(kinds) PROVE ~Skipping /\ Here.k \in kinds
    BY <1>5 DEF AtStatement, Generating, Skipping
  <1>6. ASSUME NEW kinds, AtStatement(kinds), "decl" \in kinds \/ "assign" \in kinds \/ "part" \in kinds
        PROVE  Here.k \in {"decl", "assign", "part"} => Here.v \in Vars
    BY <1>1 DEF PlaceInv, NestInv, FlowInv, TypeOK, ParserTypeOK, Here, Nodes
  <1>7. CASE SkipRest
    BY <1>1, <1>7 DEF SkipRest, Generating, Skipping, Skips
  <1>8. CASE GenFunction
    <2>1. Here.k = "fn" /\ cfn' = cpc /\ ins' = <<cpc, "entry">> /\ cvars' = ParamEnv(Here)
          /\ cpc' = cpc + 1 /\ frames' = frames
      BY <1>8 DEF GenFunction, Generating, Ahead
    <2>2. ~Skipping
      BY <1>4, <2>1 DEF Statements, Simple
    <2> QED BY <1>1, <2>1, <2>2 DEF Advances, Passed, NewVars, NewIns, NewFrames, Simple, Evaluating
  <1>9. CASE GenVarDecl
    <2>1. /\ AtStatement({"decl"}) /\ Here.v \notin DOMAIN cvars /\ Bound(Here.u)
          /\ cvars' = Bind(cvars, Here.v, [t |-> Here.t, m |-> Here.m])
          /\ cpc' = cpc + 1 /\ UNCHANGED <<cfn, ins, frames>>
      BY <1>2, <1>9 DEF GenVarDecl, UndeclaredUse, Ahead
    <2>2. Here.k = "decl" /\ ~Skipping
      BY <1>5, <2>1
    <2> QED BY <1>1, <2>1, <2>2 DEF Advances, Passed, NewVars, NewIns, NewFrames, Simple
  <1>10. CASE GenAssign
    <2>1. /\ AtStatement({"assign"}) /\ Bound(Here.v) /\ cvars[Here.v].m /\ Bound(Here.u)
          /\ cpc' = cpc + 1 /\ UNCHANGED <<cfn, cvars, ins, frames>>
      BY <1>2, <1>10 DEF GenAssign, UndeclaredUse, Ahead
    <2>2. Here.k = "assign" /\ ~Skipping /\ Here.v \in DOMAIN cvars
      BY <1>5, <1>6, <2>1 DEF Bound, Unbound
    <2> QED BY <1>1, <2>1, <2>2 DEF Advances, Passed, NewVars, NewIns, NewFrames, Simple
  <1>11. CASE GenPartAssign
    <2>1. /\ AtStatement({"part"}) /\ Bound(Here.v) /\ Bound(Here.u)
          /\ cpc' = cpc + 1 /\ UNCHANGED <<cfn, cvars, ins, frames>>
      BY <1>2, <1>11 DEF GenPartAssign, UndeclaredUse, Ahead
    <2>2. Here.k = "part" /\ ~Skipping /\ Here.v \in DOMAIN cvars
      BY <1>5, <1>6, <2>1 DEF Bound, Unbound
    <2> QED BY <1>1, <2>1, <2>2 DEF Advances, Passed, NewVars, NewIns, NewFrames, Simple
  <1>12. CASE GenExprStmt \/ GenReturn
    <2>1. PICK k \in {"expr", "ret"} : /\ AtStatement({k}) /\ Bound(Here.u) /\ cpc' = cpc + 1
                                       /\ UNCHANGED <<cfn, cvars, ins, frames>>
      BY <1>2, <1>12 DEF GenExprStmt, GenReturn, UndeclaredUse, Ahead
    <2>2. Here.k \in {"expr", "ret"} /\ ~Skipping
      BY <1>5, <2>1
    <2> QED BY <1>1, <2>1, <2>2 DEF Advances, Passed, NewVars, NewIns, NewFrames, Simple
  <1>13. CASE GenBreak \/ GenContinue
    <2>1. PICK k \in {"stop", "cont"} : /\ AtStatement({k}) /\ cpc' = cpc + 1
                                        /\ UNCHANGED <<cfn, cvars, ins, frames>>
      BY <1>2, <1>13 DEF GenBreak, GenContinue, Leave, Ahead
    <2>2. Here.k \in {"stop", "cont"} /\ ~Skipping
      BY <1>5, <2>1
    <2> QED BY <1>1, <2>1, <2>2 DEF Advances, Passed, NewVars, NewIns, NewFrames, Simple, Evaluating
  <1>14. CASE GenIf
    <2>1. /\ AtStatement({"if"}) /\ Bound(Here.u) /\ cpc' = cpc + 1 /\ ins' = <<cpc, "then">>
          /\ frames' = Append(frames, [k |-> "then", at |-> cpc]) /\ UNCHANGED <<cfn, cvars>>
      BY <1>2, <1>14 DEF GenIf, UndeclaredUse, Ahead, Push
    <2>2. Here.k = "if" /\ ~Skipping
      BY <1>5, <2>1
    <2> QED BY <1>1, <2>1, <2>2 DEF Advances, Passed, NewVars, NewIns, NewFrames, Simple
  <1>15. CASE GenLoop
    <2>1. /\ AtStatement({"loop"}) /\ Bound(Here.u) /\ cpc' = cpc + 1 /\ ins' = <<cpc, "body">>
          /\ frames' = Append(frames, [k |-> "loop", at |-> cpc]) /\ UNCHANGED <<cfn, cvars>>
      BY <1>2, <1>15 DEF GenLoop, UndeclaredUse, Ahead, Push
    <2>2. Here.k = "loop" /\ ~Skipping
      BY <1>5, <2>1
    <2> QED BY <1>1, <2>1, <2>2 DEF Advances, Passed, NewVars, NewIns, NewFrames, Simple
  <1>16. CASE GenElse
    <2>1. /\ Here.k = "else" /\ cpc' = cpc + 1 /\ ins' = <<Last(frames).at, "else">>
          /\ frames' = Append(Front(frames), [k |-> "else", at |-> Last(frames).at])
          /\ UNCHANGED <<cfn, cvars>>
      BY <1>16 DEF GenElse, ListEnd, Generating, Ahead
    <2>2. ~Skipping
      BY <1>4, <2>1 DEF Statements, Simple
    <2> QED BY <1>1, <2>1, <2>2 DEF Advances, Passed, NewVars, NewIns, NewFrames, Simple, Evaluating
  <1>17. CASE GenEndIf
    <2>1. /\ Here.k = "endif" /\ cpc' = cpc + 1 /\ ins' = <<Last(frames).at, "merge">>
          /\ frames' = Front(frames) /\ UNCHANGED <<cfn, cvars>>
      BY <1>17 DEF GenEndIf, ListEnd, Generating, Ahead
    <2>2. ~Skipping
      BY <1>4, <2>1 DEF Statements, Simple
    <2> QED BY <1>1, <2>1, <2>2 DEF Advances, Passed, NewVars, NewIns, NewFrames, Simple, Evaluating
  <1>18. CASE GenEndLoop
    <2>1. /\ Here.k = "endloop" /\ cpc' = cpc + 1 /\ ins' = <<Last(frames).at, "after">>
          /\ frames' = Front(frames) /\ UNCHANGED <<cfn, cvars>>
      BY <1>18 DEF GenEndLoop, ListEnd, Generating, Ahead
    <2>2. ~Skipping
      BY <1>4, <2>1 DEF Statements, Simple
    <2> QED BY <1>1, <2>1, <2>2 DEF Advances, Passed, NewVars, NewIns, NewFrames, Simple, Evaluating
  <1>19. CASE GenEndFunction
    <2>1. /\ Here.k = "endfn" /\ frames = <<>> /\ Verified(DefaultReturn, cfn) /\ cpc' = cpc + 1
          /\ UNCHANGED <<cfn, cvars, ins, frames>>
      BY <1>2, <1>19 DEF GenEndFunction, Generating, Ahead
    <2>2. ~Skipping
      BY <1>4, <2>1 DEF Statements, Simple
    <2> QED BY <1>1, <2>1, <2>2 DEF Advances, Passed, NewVars, NewIns, NewFrames, Simple, Evaluating
  <1> QED BY <1>1, <1>3, <1>7, <1>8, <1>9, <1>10, <1>11, <1>12, <1>13, <1>14, <1>15, <1>16,
             <1>17, <1>18, <1>19 DEF GenNext

(* What each instruction that a node adds is for.                           *)
LEMMA CodeFacts ==
  ASSUME Here \in AnyNode, NEW b, NEW x, <<b, x>> \in NewCode
  PROVE  /\ ~Skipping /\ x.at = cpc
         /\ x.k = "alloca" => /\ b = IF Here.k = "fn" THEN <<cpc, "entry">> ELSE Entry
                              /\ x.v # None => Here.k \in {"fn", "decl"} /\ x.v = Here.v
         /\ x.k = "store" => Here.k \in {"fn", "decl", "assign"} /\ x.v = Here.v
         /\ x.k = "pstore" => Here.k = "part" /\ x.v = Here.v
         /\ x.v # None => \/ Here.k \in {"fn", "decl", "assign", "part"} /\ x.v = Here.v
                          \/ Here.k \in Evaluating /\ x.v = Here.u /\ Here.u \in Vars
         /\ x.k = "ret" => \/ Here.k = "ret" /\ x = Ret(Here.u)
                           \/ Here.k = "endfn"
         /\ x.k \in Terminators => Here.k \notin {"fn", "decl", "assign", "part", "expr"}
         /\ x.k \in Terminators /\ Here.k \in {"ret", "stop", "cont"} => b = ins
  <1> DEFINE P(c, y) ==
         /\ y.at = cpc
         /\ y.k = "alloca" => /\ c = IF Here.k = "fn" THEN <<cpc, "entry">> ELSE Entry
                              /\ y.v # None => Here.k \in {"fn", "decl"} /\ y.v = Here.v
         /\ y.k = "store" => Here.k \in {"fn", "decl", "assign"} /\ y.v = Here.v
         /\ y.k = "pstore" => Here.k = "part" /\ y.v = Here.v
         /\ y.v # None => \/ Here.k \in {"fn", "decl", "assign", "part"} /\ y.v = Here.v
                          \/ Here.k \in Evaluating /\ y.v = Here.u /\ Here.u \in Vars
         /\ y.k = "ret" => \/ Here.k = "ret" /\ y = Ret(Here.u)
                           \/ Here.k = "endfn"
         /\ y.k \in Terminators => Here.k \notin {"fn", "decl", "assign", "part", "expr"}
         /\ y.k \in Terminators /\ Here.k \in {"ret", "stop", "cont"} => c = ins
  <1>1. ~Skipping
    BY DEF NewCode
  <1>2. \A v, u, t, f :
          /\ Alloca(v).k = "alloca" /\ Alloca(v).v = v /\ Alloca(v).at = cpc
          /\ Load(v).k = "load" /\ Load(v).v = v /\ Load(v).at = cpc
          /\ Store(v, u).k = "store" /\ Store(v, u).v = v /\ Store(v, u).at = cpc
          /\ StorePart(v, u).k = "pstore" /\ StorePart(v, u).v = v /\ StorePart(v, u).at = cpc
          /\ Call(u).k = "call" /\ Call(u).v = None /\ Call(u).at = cpc
          /\ Br(t).k = "br" /\ Br(t).v = None /\ Br(t).at = cpc
          /\ CondBr(u, t, f).k = "br" /\ CondBr(u, t, f).v = None /\ CondBr(u, t, f).at = cpc
          /\ Ret(u).k = "ret" /\ Ret(u).v = None /\ Ret(u).at = cpc
    BY DEF Alloca, Load, Store, StorePart, Call, Br, CondBr, Ret, I
  <1>3. ASSUME NEW c, <<b, x>> \in ExprCode(c, Here.u), Here.k \in Evaluating PROVE P(b, x)
    <2>1. CASE Here.u \in Vars /\ x = Load(Here.u)
      BY <1>2, <1>3, <2>1 DEF Terminators, Evaluating
    <2>2. CASE x = Call(Here.u)
      BY <1>2, <2>2 DEF Terminators
    <2>3. CASE b = Entry /\ x = Alloca(None)
      BY <1>2, <1>3, <2>3 DEF Terminators, Evaluating
    <2> QED BY <1>3, <2>1, <2>2, <2>3 DEF ExprCode
  <1>4. CASE Here.k = "fn"
    <2>1. b = <<cpc, "entry">> /\ (x = Alloca(Here.v) \/ x = Store(Here.v, "arg"))
      BY <1>1, <1>4 DEF NewCode, HeadCode
    <2> QED BY <1>1, <1>2, <1>4, <2>1 DEF Terminators
  <1>5. CASE Here.k \in {"decl", "assign", "part", "expr", "ret"}
    <2>1. \/ <<b, x>> \in ExprCode(ins, Here.u)
          \/ Here.k = "decl" /\ b = Entry /\ x = Alloca(Here.v)
          \/ Here.k \in {"decl", "assign"} /\ x = Store(Here.v, Here.u)
          \/ Here.k = "part" /\ x = StorePart(Here.v, Here.u)
          \/ Here.k = "ret" /\ b = ins /\ x = Ret(Here.u)
      <3>1. CASE Here.k = "decl"
        BY <1>1, <3>1 DEF NewCode
      <3>2. CASE Here.k = "assign"
        BY <1>1, <3>2 DEF NewCode
      <3>3. CASE Here.k = "part"
        BY <1>1, <3>3 DEF NewCode
      <3>4. CASE Here.k = "expr"
        BY <1>1, <3>4 DEF NewCode
      <3>5. CASE Here.k = "ret"
        BY <1>1, <3>5 DEF NewCode
      <3> QED BY <1>5, <3>1, <3>2, <3>3, <3>4, <3>5
    <2>2. CASE <<b, x>> \in ExprCode(ins, Here.u)
      BY <1>1, <1>3, <1>5, <2>2 DEF Evaluating
    <2>3. CASE Here.k = "decl" /\ b = Entry /\ x = Alloca(Here.v)
      BY <1>1, <1>2, <2>3 DEF Terminators
    <2>4. CASE Here.k \in {"decl", "assign"} /\ x = Store(Here.v, Here.u)
      BY <1>1, <1>2, <2>4 DEF Terminators
    <2>5. CASE Here.k = "part" /\ x = StorePart(Here.v, Here.u)
      BY <1>1, <1>2, <2>5 DEF Terminators
    <2>6. CASE Here.k = "ret" /\ b = ins /\ x = Ret(Here.u)
      BY <1>1, <1>2, <2>6 DEF Terminators
    <2> QED BY <2>1, <2>2, <2>3, <2>4, <2>5, <2>6
  <1>6. CASE Here.k \in {"stop", "cont"}
    <2>1. PICK t : b = ins /\ x = Br(t)
      BY <1>1, <1>6 DEF NewCode, LeaveCode
    <2> QED BY <1>1, <1>2, <1>6, <2>1
  <1>7. CASE Here.k = "if"
    <2>1. <<b, x>> \in ExprCode(ins, Here.u) \/ \E t, f : x = CondBr(Here.u, t, f)
      BY <1>1, <1>7 DEF NewCode, IfCode
    <2> QED BY <1>1, <1>2, <1>3, <1>7, <2>1 DEF Evaluating
  <1>8. CASE Here.k = "loop"
    <2>1. \/ <<b, x>> \in ExprCode(<<cpc, "cond">>, Here.u)
          \/ \E t, f : x = CondBr(Here.u, t, f) \/ x = Br(t)
      BY <1>1, <1>8 DEF NewCode, LoopCode
    <2> QED BY <1>1, <1>2, <1>3, <1>8, <2>1 DEF Evaluating
  <1>9. CASE Here.k \in {"else", "endif", "endloop"}
    <2>1. PICK t : b = ins /\ x = Br(t)
      BY <1>1, <1>9 DEF NewCode, EndCode
    <2> QED BY <1>1, <1>2, <1>9, <2>1
  <1>10. CASE Here.k = "endfn"
    <2>1. PICK u : b = ins /\ x = Ret(u)
      BY <1>1, <1>10 DEF NewCode, EndCode
    <2> QED BY <1>1, <1>2, <1>10, <2>1
  <1> QED BY <1>4, <1>5, <1>6, <1>7, <1>8, <1>9, <1>10
          DEF AnyNode, NodeKind, Openers, Closers, Simple

-----------------------------------------------------------------------------
(* The blocks still to be entered are empty *)

Ordered(fs) == \A i, j \in 1..Len(fs) : i < j => fs[i].at < fs[j].at

\* the activations are nested, and nothing is in a block that one of them has
\* yet to enter
WaitOK == /\ Ordered(frames)
          /\ \A b \in Awaited(frames) : b # ins /\ \A x : ~Holds(body, b, x)

(* The blocks of an activation are named by its node.                       *)
LEMMA PendingNames ==
  ASSUME NEW f \in Frame, NEW b \in Pending(f)
  PROVE  b[1] = f.at /\ b[2] \in {"else", "merge", "after"}
  <1>1. f.k \in {"then", "else", "loop"}
    BY DEF Frame
  <1>2. CASE f.k = "then"
    BY <1>2 DEF Pending
  <1>3. CASE f.k = "else"
    BY <1>3 DEF Pending
  <1>4. CASE f.k = "loop"
    BY <1>4 DEF Pending
  <1> QED BY <1>1, <1>2, <1>3, <1>4

(* So are those of a list of activations.                                   *)
LEMMA AwaitedNames ==
  ASSUME NEW fs \in Seq(Frame), NEW b \in Awaited(fs)
  PROVE  /\ \E i \in 1..Len(fs) : b[1] = fs[i].at
         /\ b[2] \in {"else", "merge", "after"}
  <1>1. PICK i \in 1..Len(fs) : b \in Pending(fs[i])
    BY DEF Awaited
  <1>2. fs[i] \in Frame
    OBVIOUS
  <1> QED BY <1>1, <1>2, PendingNames

(* A nested activation can be pushed.                                       *)
LEMMA PushedOrdered ==
  ASSUME NEW fs \in Seq(Frame), Ordered(fs), NEW f \in Frame,
         \A i \in 1..Len(fs) : fs[i].at < f.at
  PROVE  Ordered(Append(fs, f))
  <1>1. PICK n \in Nat : n = Len(fs)
    BY LenProperties
  <1>2. PICK gs : gs = Append(fs, f)
    OBVIOUS
  <1>3. Len(gs) = n + 1 /\ gs[n + 1] = f /\ \A i \in 1..n : gs[i] = fs[i]
    BY <1>1, <1>2, AppendProperties
  <1>4. ASSUME NEW i \in 1..(n + 1), NEW j \in 1..(n + 1), i < j PROVE gs[i].at < gs[j].at
    <2>1. i \in 1..n
      BY <1>4
    <2>2. CASE j = n + 1
      BY <1>1, <1>3, <2>1, <2>2
    <2>3. CASE j # n + 1
      <3>1. j \in 1..n
        BY <2>3
      <3> QED BY <1>1, <1>3, <1>4, <2>1, <3>1 DEF Ordered
    <2> QED BY <2>2, <2>3
  <1> QED BY <1>2, <1>3, <1>4 DEF Ordered

(* Popping leaves activations of nodes further out.                         *)
LEMMA PoppedOrdered ==
  ASSUME NEW fs \in Seq(Frame), Ordered(fs), fs # <<>>
  PROVE  /\ Ordered(Front(fs)) /\ Front(fs) \in Seq(Frame) /\ Last(fs) \in Frame
         /\ \A i \in 1..Len(Front(fs)) : Front(fs)[i].at < Last(fs).at
         /\ \A b \in Awaited(Front(fs)) : b \in Awaited(fs) /\ b[1] < Last(fs).at
         /\ Pending(Last(fs)) \subseteq Awaited(fs)
  <1>1. PICK n \in Nat : n = Len(fs) /\ n # 0
    BY LenProperties, EmptySeq
  <1>2. PICK gs : gs = Front(fs)
    OBVIOUS
  <1>3. /\ Len(gs) = n - 1 /\ gs \in Seq(Frame) /\ Last(fs) \in Frame
        /\ \A i \in 1..(n - 1) : gs[i] = fs[i]
    BY <1>1, <1>2, FrontFacts
  <1>4. Last(fs) = fs[n] /\ n \in 1..n
    BY <1>1 DEF Last
  <1>5. \A i \in 1..(n - 1) : i \in 1..n /\ i < n
    BY <1>1
  <1>6. \A i \in 1..(n - 1) : gs[i].at < Last(fs).at
    BY <1>1, <1>3, <1>4, <1>5 DEF Ordered
  <1>7. Ordered(gs)
    BY <1>1, <1>3, <1>5 DEF Ordered
  <1>8. ASSUME NEW b \in Awaited(gs) PROVE b \in Awaited(fs) /\ b[1] < Last(fs).at
    <2>1. PICK i \in 1..(n - 1) : b \in Pending(gs[i])
      BY <1>3, <1>8 DEF Awaited
    <2>2. b[1] = gs[i].at
      BY <1>3, <2>1, PendingNames
    <2>3. i \in 1..Len(fs) /\ b \in Pending(fs[i])
      BY <1>1, <1>3, <1>5, <2>1
    <2> QED BY <1>6, <2>2, <2>3 DEF Awaited
  <1>9. Pending(Last(fs)) \subseteq Awaited(fs)
    BY <1>1, <1>4 DEF Awaited
  <1> QED BY <1>2, <1>3, <1>6, <1>7, <1>8, <1>9

(* The generator never appends to a block before it enters it.              *)
LEMMA GenerateWait ==
  ASSUME PlaceInv, phase = "gen" => WaitOK, GenNext, phase' = "gen"
  PROVE  WaitOK'
  <1>1. /\ cpc \in Nodes /\ cpc \in Nat /\ phase = "gen" /\ Grows /\ WaitOK /\ (Skips \/ Advances)
        /\ frames \in Seq(Frame) /\ FlowInv /\ Here \in AnyNode
    BY GenMoves, NodeDepths DEF PlaceInv, NestInv, FlowInv, TypeOK, GenTypeOK, Nodes, Here
  <1>2. CASE Skips
    BY <1>1, <1>2 DEF Skips, WaitOK, Ordered, Awaited, Holds, Pending
  <1>3. CASE Advances
    <2>1. /\ Here.k = "fn" => frames = <<>>
          /\ Here.k # "fn" => InsideOK
      BY <1>1 DEF PlaceInv, PlaceOK
    <2>2. ins[1] \in Nat /\ ins[1] < cpc /\ \A i \in 1..Len(frames) : frames[i].at \in Nat /\ frames[i].at < cpc
      BY <1>1, FramesBehind
    <2>3. ASSUME NEW b \in Awaited(frames), NEW x PROVE ~Holds(body', b, x)
      <3>1. Here.k # "fn"
        BY <2>1, <2>3 DEF Awaited
      <3>2. b # ins /\ b[2] \notin {"entry", "cond"} /\ ~Holds(body, b, x)
        BY <1>1, <2>3, AwaitedNames DEF WaitOK
      <3>3. <<b, x>> \notin NewCode
        BY <3>1, <3>2, NewCodeLocal DEF Entry
      <3> QED BY <1>1, <3>2, <3>3 DEF Grows, Adds
    <2>4. ASSUME NEW r \in {"else", "merge", "after"}, Here.k # "fn", NEW x
          PROVE  ~Holds(body', <<cpc, r>>, x) /\ <<cpc, r>> # ins
      <3>1. <<cpc, r>> # ins /\ <<cpc, r>>[2] \notin {"entry", "cond"}
        BY <1>1, <2>2
      <3>2. ~Holds(body, <<cpc, r>>, x)
        <4>1. <<cpc, r>>[1] = cpc /\ ~(cpc < cpc)
          BY <1>1
        <4> QED BY <1>1, <4>1 DEF Holds, PlaceInv, PlaceOK
      <3>3. << <<cpc, r>>, x>> \notin NewCode
        BY <2>4, <3>1, NewCodeLocal DEF Entry
      <3> QED BY <1>1, <3>1, <3>2, <3>3 DEF Grows, Adds
    <2>5. ins' = NewIns /\ frames' = NewFrames /\ Ordered(frames)
      BY <1>1, <1>3 DEF Advances, WaitOK
    <2>6. CASE Here.k \in Simple \cup {"fn", "endfn"}
      <3>1. frames' = frames
        BY <2>5, <2>6 DEF NewFrames, Simple
      <3>2. ASSUME NEW b \in Awaited(frames) PROVE b # ins'
        <4>1. Here.k # "fn"
          BY <2>1, <3>2 DEF Awaited
        <4>2. ins' = ins
          BY <2>5, <2>6, <4>1 DEF NewIns, Simple
        <4> QED BY <1>1, <3>2, <4>2 DEF WaitOK
      <3> QED BY <2>3, <2>5, <3>1, <3>2 DEF WaitOK
    <2>7. CASE Here.k \in {"if", "loop"}
      <3> DEFINE f == [k |-> IF Here.k = "if" THEN "then" ELSE "loop", at |-> cpc]
      <3>1. f \in Frame /\ f.at = cpc
        BY <1>1 DEF Frame
      <3>2. frames' = Append(frames, f) /\ ins' \in {<<cpc, "then">>, <<cpc, "body">>}
        BY <2>5, <2>7 DEF NewFrames, NewIns, Simple
      <3> HIDE DEF f
      <3>3. Ordered(frames') /\ Awaited(frames') = Awaited(frames) \cup Pending(f)
        BY <1>1, <2>2, <2>5, <3>1, <3>2, PushedOrdered, AwaitedPush
      <3>4. ASSUME NEW b \in Awaited(frames) PROVE b # ins'
        <4>1. b[2] \notin {"then", "body"}
          BY <1>1, <3>4, AwaitedNames
        <4> QED BY <3>2, <4>1
      <3>5. ASSUME NEW b \in Pending(f) PROVE b # ins' /\ \A x : ~Holds(body', b, x)
        <4>1. b \in {<<cpc, "else">>, <<cpc, "merge">>, <<cpc, "after">>}
          BY <2>7, <3>1, <3>5 DEF Pending, f
        <4> QED BY <2>4, <2>7, <3>2, <4>1
      <3> QED BY <2>3, <3>3, <3>4, <3>5 DEF WaitOK
    <2>8. CASE Here.k \in {"else", "endif", "endloop"}
      <3> DEFINE f == Last(frames)
                 g == [k |-> "else", at |-> f.at]
      <3>1. frames # <<>> /\ f.k = CASE Here.k = "else" -> "then" [] Here.k = "endif" -> "else"
                                    [] Here.k = "endloop" -> "loop"
        BY <2>8, ActionAt
      <3>2. /\ Ordered(Front(frames)) /\ Front(frames) \in Seq(Frame) /\ f \in Frame
            /\ \A i \in 1..Len(Front(frames)) : Front(frames)[i].at < f.at
            /\ \A b \in Awaited(Front(frames)) : b \in Awaited(frames) /\ b[1] < f.at
            /\ Pending(f) \subseteq Awaited(frames)
        BY <1>1, <2>5, <3>1, PoppedOrdered
      <3>3. f.at \in Nat /\ ins'[1] = f.at
        BY <2>5, <2>8, <3>2 DEF NewIns, Simple, Frame
      <3>4. \A b \in Awaited(Front(frames)) : b # ins' /\ \A x : ~Holds(body', b, x)
        <4>1. ~(f.at < f.at)
          BY <3>3
        <4> QED BY <2>3, <3>2, <3>3, <4>1
      <3>5. CASE Here.k = "else"
        <4>1. frames' = Append(Front(frames), g) /\ ins' = <<f.at, "else">>
          BY <2>5, <3>5 DEF NewFrames, NewIns, Simple
        <4>2. g \in Frame /\ g.at = f.at /\ Pending(g) = {<<f.at, "merge">>}
          BY <3>3 DEF Frame, Pending
        <4>3. <<f.at, "merge">> \in Pending(f)
          BY <3>1, <3>5 DEF Pending
        <4> HIDE DEF f, g
        <4>4. Ordered(frames') /\ Awaited(frames') = Awaited(Front(frames)) \cup Pending(g)
          BY <3>2, <4>1, <4>2, PushedOrdered, AwaitedPush
        <4>5. <<f.at, "merge">> # ins' /\ \A x : ~Holds(body', <<f.at, "merge">>, x)
          BY <2>3, <3>2, <4>1, <4>3
        <4> QED BY <3>4, <4>2, <4>4, <4>5 DEF WaitOK
      <3>6. CASE Here.k \in {"endif", "endloop"}
        <4>1. frames' = Front(frames)
          BY <2>5, <3>6 DEF NewFrames, Simple
        <4> QED BY <3>2, <3>4, <4>1 DEF WaitOK
      <3> QED BY <2>8, <3>5, <3>6
    <2> QED BY <1>1, <2>6, <2>7, <2>8 DEF AnyNode, NodeKind, Openers, Closers
  <1> QED BY <1>1, <1>2, <1>3

-----------------------------------------------------------------------------
(* Dead code *)

ExitKinds == {"ret", "stop", "cont"}

(* What makes a node dead makes the node before it dead, or is that node.   *)
LEMMA EndsBefore ==
  ASSUME TypeOK, NEW n \in Nodes, NEW i \in Nodes, Ends(i, n + 1)
  PROVE  Ends(i, n) \/ (i = n /\ prog[i].k \in ExitKinds)
  <1>1. n \in Nat /\ i \in Nat /\ i < n + 1 /\ prog[i].k \in ExitKinds /\ \A k \in i..(n + 1) : prog[k].d >= prog[i].d
    BY NodeDepths DEF Ends, Nodes, ExitKinds
  <1>2. CASE i = n
    BY <1>1, <1>2
  <1>3. CASE i # n
    <2>1. i < n /\ \A k \in i..n : k \in i..(n + 1)
      BY <1>1, <1>3 DEF Ends
    <2> QED BY <1>1, <2>1 DEF Ends, ExitKinds
  <1> QED BY <1>2, <1>3

(* A header is not dead, nor is a node that closes a list right behind an   *)
(* exit of that list.                                                       *)
LEMMA NotEnded ==
  ASSUME TypeOK, TreeOK, NEW i \in Nodes, NEW n \in Nodes, Ends(i, n)
  PROVE  prog[n].k # "fn" /\ (i = n - 1 => prog[n].k \notin Closers /\ prog[n].d = prog[i].d)
  <1>1. /\ i \in Nat /\ n \in Nat /\ i \in 1..Len(prog) /\ n \in 1..Len(prog) /\ i < n
        /\ prog[i].k \in ExitKinds /\ prog[n].d >= prog[i].d /\ prog[i].d \in Nat /\ prog[n].d \in Nat
    BY NodeDepths DEF Ends, Nodes, ExitKinds
  <1>2. Level(prog[i]) # 0 /\ Level(prog[i]) = prog[i].d /\ Inner(prog[i]) = prog[i].d
    BY <1>1 DEF TreeOK, Level, Inner, Closers, Openers, ExitKinds
  <1>3. prog[n].k # "fn"
    <2>1. prog[n].k = "fn" => prog[n].d = 0
      BY <1>1 DEF TreeOK, Level, Closers
    <2> QED BY <1>1, <1>2, <2>1
  <1>4. ASSUME i = n - 1 PROVE prog[n].k \notin Closers /\ prog[n].d = prog[i].d
    <2>1. Level(prog[n]) = prog[i].d
      BY <1>1, <1>2, <1>4 DEF TreeOK
    <2>2. prog[n].k \in Closers => prog[n].d + 1 = prog[i].d
      BY <2>1 DEF Level
    <2> QED BY <1>1, <2>1, <2>2 DEF Level
  <1> QED BY <1>3, <1>4

(* What stands behind an exit in its list is dead ...                       *)
LEMMA ExitEnds ==
  ASSUME TypeOK, TreeOK, NEW n \in Nodes, n + 1 \in Nodes, prog[n].k \in ExitKinds,
         prog[n + 1].k \in Statements
  PROVE  Ends(n, n + 1) /\ prog[n + 1].d = prog[n].d
  <1>1. /\ n \in Nat /\ prog[n].d \in Nat /\ prog[n + 1].d \in Nat
    BY NodeDepths DEF Nodes
  <1>2. prog[n + 1].k \notin Closers /\ prog[n].k \notin Openers
    BY DEF Closers, Openers, Statements, Simple, ExitKinds
  <1>3. prog[n + 1].d = prog[n].d
    <2>1. n + 1 # 1 /\ n + 1 - 1 = n
      BY <1>1 DEF Nodes
    <2>2. Level(prog[n + 1]) = Inner(prog[n])
      <3>1. PICK m \in Nodes : m = n + 1
        OBVIOUS
      <3>2. Level(prog[m]) = Inner(prog[m - 1]) /\ m - 1 = n
        BY <2>1, <3>1 DEF TreeOK
      <3> QED BY <3>1, <3>2
    <2> QED BY <1>2, <2>2 DEF Level, Inner
  <1>4. ASSUME NEW k \in n..(n + 1) PROVE prog[k].d >= prog[n].d
    <2>1. k = n \/ k = n + 1
      BY <1>1
    <2> QED BY <1>1, <1>3, <2>1
  <1> QED BY <1>1, <1>3, <1>4 DEF Ends, ExitKinds

(* ... up to the end of the list, which is not.                             *)
LEMMA SkipEnds ==
  ASSUME TypeOK, TreeOK, NEW n \in Nodes, n + 1 \in Nodes, prog[n].k \in ExitKinds,
         prog[n + 1].k \in Statements, NEW j \in ListEnds(n + 1)
  PROVE  /\ j \in Nodes /\ j > n + 1 /\ prog[j].k \in Closers
         /\ \A k \in (n + 1)..(j - 1) : k \in Nodes /\ Dead(k)
         /\ \A i \in Nodes : Ends(i, j) => i # n /\ Ends(i, n + 1)
  <1>1. /\ n \in Nat /\ Len(prog) \in Nat /\ \A k \in Nodes : k \in Nat /\ prog[k].d \in Nat
        /\ Nodes = 1..Len(prog)
    BY NodeDepths DEF Nodes
  <1>2. /\ j \in (n + 2)..Len(prog) /\ prog[j].d < prog[n + 1].d
        /\ \A k \in (n + 1)..(j - 1) : prog[k].d >= prog[n + 1].d
    BY <1>1 DEF ListEnds
  <1>3. Ends(n, n + 1) /\ prog[n + 1].d = prog[n].d
    BY ExitEnds
  <1>4. j \in Nodes /\ j - 1 \in Nodes /\ j \in Nat /\ j # 1
    BY <1>1, <1>2
  <1>5. prog[j].k \in Closers
    <2>1. Level(prog[j]) = Inner(prog[j - 1])
      BY <1>4 DEF TreeOK
    <2>2. prog[j - 1].d >= prog[n + 1].d
      BY <1>1, <1>2
    <2>3. Inner(prog[j - 1]) >= prog[j - 1].d
      BY <1>1, <1>4 DEF Inner
    <2>4. prog[j - 1].d \in Nat /\ prog[n + 1].d \in Nat /\ prog[j].d \in Nat /\ Inner(prog[j - 1]) \in Nat
      BY <1>1, <1>4 DEF Inner
    <2>5. prog[j].d < prog[n + 1].d
      BY <1>2
    <2>6. Inner(prog[j - 1]) > prog[j].d
      BY <2>2, <2>3, <2>4, <2>5
    <2>7. Level(prog[j]) > prog[j].d
      BY <2>1, <2>6
    <2> QED BY <2>4, <2>7 DEF Level
  <1>6. ASSUME NEW k \in (n + 1)..(j - 1) PROVE k \in Nodes /\ Dead(k)
    <2>1. k \in Nodes /\ n < k
      BY <1>1, <1>2
    <2>2. ASSUME NEW m \in n..k PROVE prog[m].d >= prog[n].d
      <3>1. m = n \/ m \in (n + 1)..(j - 1)
        BY <1>1, <1>4, <1>6, <2>1
      <3> QED BY <1>1, <1>2, <1>3, <3>1
    <2>3. Ends(n, k)
      BY <2>1, <2>2 DEF Ends, ExitKinds
    <2> QED BY <2>1, <2>3 DEF Dead
  <1>7. ASSUME NEW i \in Nodes, Ends(i, j) PROVE i # n /\ Ends(i, n + 1)
    <2>1. i < j /\ prog[i].k \in ExitKinds /\ prog[j].d >= prog[i].d /\ \A k \in i..j : prog[k].d >= prog[i].d
      BY <1>1, <1>4, <1>7 DEF Ends, ExitKinds
    <2>2. prog[i].d < prog[n + 1].d
      BY <1>1, <1>2, <1>4, <2>1
    <2>3. i \notin (n + 1)..(j - 1)
      BY <1>1, <1>2, <2>2
    <2>4. i < n + 1 /\ i # n
      BY <1>1, <1>3, <1>4, <2>1, <2>2, <2>3
    <2>5. \A k \in i..(n + 1) : k \in i..j
      BY <1>1, <1>2
    <2> QED BY <2>1, <2>4, <2>5 DEF Ends, ExitKinds
  <1> QED BY <1>1, <1>2, <1>4, <1>5, <1>6, <1>7

\* the insertion block has ended exactly behind an exit of the list at hand,
\* and nothing else makes the node at hand dead
LiveOK ==
  /\ \A i \in Nodes : Ends(i, cpc) => i = cpc - 1 /\ Terminated(body, ins)
  /\ Here.k \in Statements /\ Terminated(body, ins) => prog[cpc - 1].k \in ExitKinds

(* At a statement that is not skipped nothing is dead, nor where a list     *)
(* ends.                                                                    *)
LEMMA LiveHere ==
  ASSUME TypeOK, TreeOK, cpc \in Nodes, LiveOK, Here.k \in NodeKind, ~Skipping
  PROVE  ~Dead(cpc)
  <1> SUFFICES ASSUME NEW i \in Nodes, Ends(i, cpc) PROVE FALSE
    BY DEF Dead
  <1>1. i = cpc - 1 /\ Terminated(body, ins)
    BY DEF LiveOK
  <1>2. Here.k \notin Closers /\ Here.k # "fn"
    BY <1>1, NotEnded DEF Here
  <1>3. Here.k \notin Statements
    BY <1>1 DEF Skipping
  <1> QED BY <1>2, <1>3 DEF NodeKind, Openers, Closers, Statements

(* A statement that is skipped is dead, and so is all up to the list's end. *)
LEMMA DeadSkipped ==
  ASSUME PlaceInv, phase = "gen", cpc \in Nodes, LiveOK, Skipping, NEW j \in ListEnds(cpc)
  PROVE  /\ j \in Nodes /\ j > cpc /\ prog[j].k \in Closers
         /\ \A k \in cpc..(j - 1) : k \in Nodes /\ Dead(k)
         /\ \A i \in Nodes : ~Ends(i, j)
  <1>1. TypeOK /\ TreeOK /\ Here.k \in Statements /\ Terminated(body, ins)
    BY DEF PlaceInv, NestInv, FlowInv, Skipping
  <1>2. InsideOK
    BY <1>1 DEF PlaceInv, PlaceOK, Statements, Simple
  <1>3. cpc - 1 \in Nodes /\ cpc - 1 + 1 = cpc
    BY <1>1, <1>2, NodeDepths DEF InsideOK, Nodes
  <1>4. prog[cpc - 1].k \in ExitKinds
    BY <1>1 DEF LiveOK
  <1>5. /\ j \in Nodes /\ j > cpc /\ prog[j].k \in Closers
        /\ \A k \in cpc..(j - 1) : k \in Nodes /\ Dead(k)
        /\ \A i \in Nodes : Ends(i, j) => i # cpc - 1 /\ Ends(i, cpc)
    <2>1. PICK n \in Nodes : n = cpc - 1 /\ n + 1 = cpc
      BY <1>3
    <2> QED BY <1>1, <1>4, <2>1, SkipEnds DEF Here
  <1> QED BY <1>5 DEF LiveOK

(* A block without a terminator has not ended ...                           *)
LEMMA NotTerminated ==
  ASSUME NEW bd, Bodies(bd), NEW b \in DOMAIN bd, \A x : Holds(bd, b, x) => x.k \notin Terminators
  PROVE  ~Terminated(bd, b)
  <1>1. bd[b] \in Seq(Instr)
    BY DEF Bodies
  <1>2. CASE bd[b] = <<>>
    BY <1>2 DEF Terminated
  <1>3. CASE bd[b] # <<>>
    <2>1. Len(bd[b]) \in 1..Len(bd[b])
      BY <1>1, <1>3, EmptySeq, LenProperties
    <2>2. Holds(bd, b, Last(bd[b]))
      BY <2>1 DEF Holds, Last
    <2> QED BY <2>2 DEF Terminated
  <1> QED BY <1>2, <1>3

(* ... one that holds a terminator, with nothing behind it, has.            *)
LEMMA HoldsEnd ==
  ASSUME NEW bd, Bodies(bd), NEW b, NoInner(bd[b]), NEW x, Holds(bd, b, x), x.k \in Terminators
  PROVE  Terminated(bd, b)
  <1>1. b \in DOMAIN bd /\ bd[b] \in Seq(Instr)
    BY DEF Bodies, Holds
  <1>2. PICK n \in Nat : n = Len(bd[b])
    BY <1>1, LenProperties
  <1>3. PICK i \in 1..n : bd[b][i] = x
    BY <1>2 DEF Holds
  <1>4. i = n
    <2>1. i \notin 1..(n - 1)
      BY <1>2, <1>3 DEF NoInner
    <2> QED BY <2>1
  <1>5. bd[b] # <<>> /\ Last(bd[b]) = x
    BY <1>1, <1>2, <1>3, <1>4, EmptySeq DEF Last
  <1> QED BY <1>5 DEF Terminated

(* In a block that has not ended there is no terminator.                    *)
LEMMA HoldsNone ==
  ASSUME NEW bd, Bodies(bd), NEW b, NoInner(bd[b]), ~Terminated(bd, b), NEW x, Holds(bd, b, x)
  PROVE  x.k \notin Terminators
  BY HoldsEnd

(* Behind every node the generator gets past it knows dead code again.      *)
LEMMA GenerateLive ==
  ASSUME PlaceInv, PlaceInv', UNCHANGED prog, WaitOK, WaitOK', phase = "gen" /\ cpc \in Nodes => LiveOK,
         GenNext, phase' = "gen", cpc' \in Nodes
  PROVE  LiveOK'
  <1>1. /\ cpc \in Nodes /\ cpc \in Nat /\ phase = "gen" /\ Grows /\ LiveOK /\ (Skips \/ Advances)
        /\ TypeOK /\ TreeOK /\ FlowInv /\ FlowInv' /\ Here \in AnyNode /\ Nodes' = Nodes
        /\ \A i, j : Ends(i, j)' <=> Ends(i, j)
    BY GenMoves, NodeDepths DEF PlaceInv, NestInv, FlowInv, TypeOK, GenTypeOK, Nodes, Here, Ends
  <1>2. CASE Skips
    <2>1. Skipping /\ cpc' \in ListEnds(cpc) /\ UNCHANGED <<body, ins>>
      BY <1>2 DEF Skips
    <2>2. \A i \in Nodes : ~Ends(i, cpc')
      BY <1>1, <2>1, DeadSkipped
    <2>3. prog[cpc'].k \in Closers
      BY <1>1, <2>1, DeadSkipped
    <2>4. Here'.k \notin Statements
      BY <2>3 DEF Here, Closers, Statements, Simple
    <2> QED BY <1>1, <2>2, <2>4 DEF LiveOK
  <1>3. CASE Advances
    <2>1. cpc' = cpc + 1 /\ cpc + 1 \in Nodes /\ cpc' - 1 = cpc /\ ~Skipping /\ ins' = NewIns
          /\ frames' = NewFrames
      BY <1>1, <1>3 DEF Advances
    <2>2. ~Dead(cpc)
      BY <1>1, <2>1, LiveHere DEF AnyNode
    <2>3. Here' = prog[cpc + 1] /\ cpc' \in Nodes'
      BY <1>1, <2>1 DEF Here
    <2>4. CASE prog[cpc + 1].k = "fn"
      <3>1. \A i \in Nodes : ~Ends(i, cpc + 1)
        BY <1>1, <2>1, <2>4, NotEnded
      <3>2. Here'.k \notin Statements
        BY <2>3, <2>4 DEF Statements, Simple
      <3> QED BY <1>1, <2>1, <3>1, <3>2 DEF LiveOK
    <2>5. CASE prog[cpc + 1].k # "fn"
      <3>1. /\ Bodies(body') /\ ins' \in DOMAIN body'
            /\ \A b \in DOMAIN body' : NoInner(body'[b])
            /\ \A b \in DOMAIN body : NoInner(body[b])
            /\ Bodies(body)
        <4>1. InsideOK'
          BY <2>3, <2>5 DEF PlaceInv, PlaceOK
        <4>2. Bodies(body) /\ Bodies(body')
          BY <1>1 DEF FlowInv, TypeOK, GenTypeOK, Bodies
        <4>3. BlocksOK /\ BlocksOK'
          BY <1>1, FlowParts, PTL DEF FlowInv
        <4> QED BY <4>1, <4>2, <4>3 DEF InsideOK, BlocksOK
      <3>2. /\ \A b, x : Holds(body', b, x) <=> Holds(body, b, x) \/ <<b, x>> \in NewCode
            /\ \A b, x : Holds(body, b, x) => b \in DOMAIN body
        BY <1>1 DEF Grows, Adds, Holds
      <3>3. ASSUME Here.k \in ExitKinds PROVE Terminated(body', ins')
        <4>1. ins' = ins
          BY <2>1, <3>3 DEF NewIns, Simple, ExitKinds
        <4>2. PICK x : <<ins, x>> \in NewCode /\ x.k \in Terminators
          <5>1. CASE Here.k = "ret"
            <6>1. <<ins, Ret(Here.u)>> \in NewCode /\ Ret(Here.u).k = "ret"
              BY <2>1, <5>1 DEF NewCode, Ret, I
            <6> QED BY <6>1 DEF Terminators
          <5>2. CASE Here.k \in {"stop", "cont"}
            <6>1. PICK t : NewCode = {<<ins, Br(t)>>}
              BY <2>1, <5>2 DEF NewCode, LeaveCode
            <6>2. Br(t).k = "br"
              BY DEF Br, I
            <6> QED BY <6>1, <6>2 DEF Terminators
          <5> QED BY <3>3, <5>1, <5>2 DEF ExitKinds
        <4> QED BY <3>1, <3>2, <4>1, <4>2, HoldsEnd
      <3>4. ASSUME Here.k \notin ExitKinds PROVE ~Terminated(body', ins')
        <4>1. \A b : b[1] = cpc => b \notin DOMAIN body
          <5>1. ~(cpc < cpc)
            BY <1>1
          <5> QED BY <1>1, <5>1 DEF PlaceInv, PlaceOK
        <4>2. ASSUME NEW x, Holds(body', ins', x) PROVE x.k \notin Terminators
          <5>1. CASE Here.k = "fn"
            <6>1. ins' = <<cpc, "entry">> /\ ins' \notin DOMAIN body
              BY <2>1, <4>1, <5>1 DEF NewIns, Simple
            <6> QED BY <1>1, <3>2, <4>2, <5>1, <6>1, CodeFacts
          <5>2. CASE Here.k \in {"decl", "assign", "part", "expr"}
            <6>1. ins' = ins /\ ~Terminated(body, ins)
              BY <2>1, <5>2 DEF NewIns, Simple, Skipping, Statements
            <6>2. CASE Holds(body, ins, x)
              BY <3>1, <3>2, <6>1, <6>2, HoldsNone
            <6>3. CASE <<ins, x>> \in NewCode
              BY <1>1, <5>2, <6>3, CodeFacts
            <6> QED BY <3>2, <4>2, <6>1, <6>2, <6>3
          <5>3. CASE Here.k \in {"if", "loop"}
            <6>1. ins' \in {<<cpc, "then">>, <<cpc, "body">>}
              BY <2>1, <5>3 DEF NewIns, Simple
            <6>2. ins' \notin DOMAIN body
              BY <4>1, <6>1
            <6>3. ins[1] # cpc
              BY <1>1, FramesBehind
            <6>4. ins' \notin {ins, Entry, <<cpc, "cond">>}
              BY <6>1, <6>3 DEF Entry
            <6>5. <<ins', x>> \notin NewCode
              BY <5>3, <6>4, NewCodeLocal
            <6> QED BY <3>2, <4>2, <6>2, <6>5
          <5>4. CASE Here.k \in {"else", "endif", "endloop"}
            <6> DEFINE f == Last(frames)
            <6>1. frames # <<>> /\ f.k = CASE Here.k = "else" -> "then" [] Here.k = "endif" -> "else"
                                         [] Here.k = "endloop" -> "loop"
              BY <5>4, ActionAt
            <6>2. Pending(f) \subseteq Awaited(frames) /\ f \in Frame
              BY <1>1, <6>1, PoppedOrdered DEF WaitOK, FlowInv, TypeOK, GenTypeOK
            <6>3. ins' = <<f.at, CASE Here.k = "else" -> "else" [] Here.k = "endif" -> "merge"
                                   [] Here.k = "endloop" -> "after">>
              BY <2>1, <5>4 DEF NewIns, Simple
            <6>4. ins' \in Pending(f)
              BY <5>4, <6>1, <6>3 DEF Pending
            <6>5. ins' \in Awaited(frames) /\ ins'[2] \notin {"entry", "cond"}
              BY <6>2, <6>4, PendingNames
            <6>6. ins' # ins /\ ~Holds(body, ins', x)
              BY <6>5 DEF WaitOK
            <6>7. <<ins', x>> \notin NewCode
              BY <5>4, <6>5, <6>6, NewCodeLocal DEF Entry
            <6> QED BY <3>2, <4>2, <6>6, <6>7
          <5>5. CASE Here.k = "endfn"
            <6>1. Here.d = 0 /\ Level(prog[cpc + 1]) = Inner(prog[cpc + 1 - 1])
              <7>1. cpc + 1 # 1
                BY <1>1 DEF Nodes
              <7> QED BY <1>1, <2>1, <5>5, <7>1 DEF TreeOK, Here, Closers
            <6>2. prog[cpc + 1 - 1] = Here /\ Inner(Here) = 0
              BY <1>1, <5>5, <6>1 DEF Here, Inner, Openers
            <6> QED BY <1>1, <2>1, <2>5, <6>1, <6>2 DEF TreeOK
          <5> QED BY <1>1, <3>4, <5>1, <5>2, <5>3, <5>4, <5>5
                  DEF AnyNode, NodeKind, Openers, Closers, Simple, ExitKinds
        <4> QED BY <3>1, <4>2, NotTerminated
      <3>5. ASSUME NEW i \in Nodes, Ends(i, cpc + 1)
            PROVE  i = cpc' - 1 /\ Terminated(body', ins')
        <4>1. ~Ends(i, cpc)
          BY <2>2 DEF Dead
        <4>2. i = cpc /\ Here.k \in ExitKinds
          BY <1>1, <3>5, <4>1, EndsBefore DEF Here
        <4> QED BY <2>1, <3>3, <4>2
      <3>6. Terminated(body', ins') => prog[cpc' - 1].k \in ExitKinds
        BY <2>1, <3>4 DEF Here
      <3> QED BY <1>1, <2>1, <3>5, <3>6 DEF LiveOK
    <2> QED BY <2>4, <2>5
  <1> QED BY <1>1, <1>2, <1>3

-----------------------------------------------------------------------------
(* What has been lowered *)

\* the statements that always emit something
Emitting == {"decl", "assign", "part", "ret", "stop", "cont", "if", "loop"}

\* what is in the module comes from live nodes behind the walk, and all of
\* those are in it
EmittedOK ==
  /\ \A b, x : Holds(body, b, x) => x.at \in Nodes /\ x.at < cpc
  /\ \A i \in SimpleAt(Emitting) : i < cpc =>
       ((\E b, x : Holds(body, b, x) /\ x.at = i) <=> ~Dead(i))

(* A statement that is lowered leaves something.                            *)
LEMMA CodeThere ==
  ASSUME Here.k \in Emitting, ~Skipping
  PROVE  \E b, x : <<b, x>> \in NewCode
  <1>1. CASE Here.k = "decl"
    BY <1>1 DEF NewCode
  <1>2. CASE Here.k = "assign"
    BY <1>2 DEF NewCode
  <1>3. CASE Here.k = "part"
    BY <1>3 DEF NewCode
  <1>4. CASE Here.k = "ret"
    BY <1>4 DEF NewCode
  <1>5. CASE Here.k \in {"stop", "cont"}
    BY <1>5 DEF NewCode, LeaveCode
  <1>6. CASE Here.k = "if"
    BY <1>6 DEF NewCode, IfCode
  <1>7. CASE Here.k = "loop"
    BY <1>7 DEF NewCode, LoopCode
  <1> QED BY <1>1, <1>2, <1>3, <1>4, <1>5, <1>6, <1>7 DEF Emitting

(* Each step lowers the node it gets past, or leaves out dead ones.         *)
LEMMA GenerateEmitted ==
  ASSUME PlaceInv, UNCHANGED prog, LiveOK, EmittedOK, GenNext, phase' = "gen"
  PROVE  EmittedOK'
  <1>1. /\ cpc \in Nodes /\ cpc \in Nat /\ phase = "gen" /\ Grows /\ (Skips \/ Advances)
        /\ TypeOK /\ TreeOK /\ Here \in AnyNode /\ Nodes' = Nodes
        /\ \A i : Dead(i)' <=> Dead(i)
        /\ SimpleAt(Emitting)' = SimpleAt(Emitting)
    BY GenMoves, NodeDepths
       DEF PlaceInv, NestInv, FlowInv, TypeOK, GenTypeOK, Nodes, Here, Dead, Ends, SimpleAt
  <1>2. \A b, x : Holds(body', b, x) <=> Holds(body, b, x) \/ <<b, x>> \in NewCode
    BY <1>1 DEF Grows, Adds
  <1>3. \A i \in Nodes : i \in Nat
    BY DEF Nodes
  <1>4. CASE Skips
    <2>1. Skipping /\ cpc' \in ListEnds(cpc) /\ UNCHANGED body
      BY <1>4 DEF Skips
    <2>2. cpc' \in Nodes /\ cpc' > cpc /\ \A k \in cpc..(cpc' - 1) : Dead(k)
      BY <1>1, <2>1, DeadSkipped
    <2>3. \A b, x : Holds(body', b, x) <=> Holds(body, b, x)
      BY <2>1
    <2>4. ASSUME NEW i \in SimpleAt(Emitting), i < cpc'
          PROVE  (\E b, x : Holds(body', b, x) /\ x.at = i) <=> ~Dead(i)
      <3>1. i \in Nodes /\ i \in Nat /\ cpc' \in Nat
        BY <1>3, <2>2 DEF SimpleAt
      <3>2. CASE i < cpc
        BY <2>3, <3>2 DEF EmittedOK
      <3>3. CASE ~(i < cpc)
        <4>1. PICK c \in Nat : c = cpc'
          BY <3>1
        <4>2. i < c /\ i \in Nat /\ cpc \in Nat
          BY <1>1, <2>4, <3>1, <4>1
        <4>3. cpc <= i
          BY <3>3, <4>2
        <4>4. i \in cpc..(c - 1)
          <5>1. \A p, q, r \in Nat : p <= q /\ q < r => q \in p..(r - 1)
            OBVIOUS
          <5> QED BY <4>2, <4>3, <5>1
        <4> QED BY <2>2, <2>3, <3>3, <4>1, <4>4 DEF EmittedOK
      <3> QED BY <3>2, <3>3
    <2>5. ASSUME NEW b, NEW x, Holds(body', b, x) PROVE x.at \in Nodes /\ x.at < cpc'
      <3>1. x.at \in Nodes /\ x.at < cpc /\ x.at \in Nat /\ cpc' \in Nat
        BY <1>3, <2>2, <2>3, <2>5 DEF EmittedOK
      <3> QED BY <1>1, <2>2, <3>1
    <2> QED BY <1>1, <2>4, <2>5 DEF EmittedOK
  <1>5. CASE Advances
    <2>1. cpc' = cpc + 1 /\ ~Skipping
      BY <1>5 DEF Advances
    <2>2. ~Dead(cpc)
      BY <1>1, <2>1, LiveHere DEF AnyNode
    <2>3. \A b, x : <<b, x>> \in NewCode => x.at = cpc
      BY <1>1, CodeFacts
    <2>4. ASSUME NEW i \in SimpleAt(Emitting), i < cpc + 1
          PROVE  (\E b, x : Holds(body', b, x) /\ x.at = i) <=> ~Dead(i)
      <3>1. i \in Nodes /\ i \in Nat /\ prog[i].k \in Emitting
        BY <1>3 DEF SimpleAt
      <3>2. CASE i < cpc
        <4>1. i # cpc
          BY <1>1, <3>2
        <4> QED BY <1>2, <2>3, <3>2, <4>1 DEF EmittedOK
      <3>3. CASE i = cpc
        <4>1. \E b, x : <<b, x>> \in NewCode
          BY <2>1, <3>1, <3>3, CodeThere DEF Here
        <4> QED BY <1>2, <2>2, <2>3, <3>3, <4>1
      <3> QED BY <1>1, <2>4, <3>1, <3>2, <3>3
    <2>5. ASSUME NEW b, NEW x, Holds(body', b, x) PROVE x.at \in Nodes /\ x.at < cpc + 1
      <3>1. CASE Holds(body, b, x)
        <4>1. x.at \in Nodes /\ x.at < cpc /\ x.at \in Nat
          BY <1>3, <3>1 DEF EmittedOK
        <4> QED BY <1>1, <4>1
      <3>2. CASE <<b, x>> \in NewCode
        BY <1>1, <2>3, <3>2
      <3> QED BY <1>2, <2>5, <3>1, <3>2
    <2> QED BY <1>1, <2>1, <2>4, <2>5 DEF EmittedOK
  <1> QED BY <1>1, <1>4, <1>5

-----------------------------------------------------------------------------
(* The tables of the two passes *)

\* node j is live and gives v a meaning
LiveDecl(j, v) == DeclAt(j, v) /\ ~Dead(j)

\* vars_ has one entry for each live declaration behind the walk
VarsOK ==
  /\ \A v \in DOMAIN cvars : \E j \in cfn..(cpc - 1) : LiveDecl(j, v)
  /\ \A j \in cfn..(cpc - 1) : \A v \in Vars :
       LiveDecl(j, v) => v \in DOMAIN cvars /\ cvars[v] = Info(j)

\* the walk is inside a function
Walking == phase = "gen" /\ cpc \in Nodes /\ Here.k # "fn"

(* In a program without an error a variable has one declaration in a        *)
(* function.                                                                *)
LEMMA OneDecl ==
  ASSUME TypeOK, NEW n \in Nodes, NEW f, InFunction(f, n), \A i \in Nodes : WellFormed(i),
         NEW v \in Vars, NEW j \in f..(n - 1), NEW k \in f..(n - 1), DeclAt(j, v), DeclAt(k, v)
  PROVE  j = k
  <1>1. n \in Nat /\ f \in Nat /\ f # 0 /\ f \in 1..n /\ \A m \in (f + 1)..n : prog[m].k # "fn"
    BY NodeDepths DEF Nodes, InFunction
  <1>2. ASSUME NEW a \in f..(n - 1), NEW b \in f..(n - 1), DeclAt(a, v), DeclAt(b, v), a < b PROVE FALSE
    <2>1. a \in Nat /\ b \in Nat /\ b \in Nodes /\ b \in (f + 1)..n /\ a \in f..(b - 1) /\ f \in 1..b
      BY <1>1, <1>2 DEF Nodes
    <2>2. prog[b].k = "decl" /\ prog[b].v = v
      BY <1>1, <1>2, <2>1 DEF DeclAt
    <2>3. \A m \in (f + 1)..b : m \in (f + 1)..n
      BY <1>1, <2>1
    <2>4. InFunction(f, b)
      BY <1>1, <2>1, <2>3 DEF InFunction
    <2>5. a \in DeclsBefore(v, b)
      BY <1>2, <2>1, <2>4, DeclsInFunction
    <2>6. ~Declared(v, b)
      BY <2>1, <2>2 DEF WellFormed
    <2> QED BY <2>5, <2>6 DEF Declared
  <1>3. ~(j < k) /\ ~(k < j)
    BY <1>2
  <1> QED BY <1>1, <1>3

(* What the generator looks up is what the tree declares, and lives.        *)
LEMMA LookupFacts ==
  ASSUME PlaceInv, Walking, VarsOK, \A i \in Nodes : WellFormed(i)
  PROVE  /\ InFunction(cfn, cpc) /\ cpc \in Nodes
         /\ \A v \in Vars : v \in DOMAIN cvars <=> Declared(v, cpc) /\ ~Dead(TheDecl(v, cpc))
         /\ \A v \in DOMAIN cvars : v \in Vars /\ cvars[v] = Info(TheDecl(v, cpc))
         /\ \A v \in Vars : Declared(v, cpc) =>
              /\ TheDecl(v, cpc) \in cfn..(cpc - 1) /\ TheDecl(v, cpc) \in Nodes
              /\ DeclAt(TheDecl(v, cpc), v)
  <1>1. /\ TypeOK /\ InsideOK /\ cpc \in Nodes /\ DOMAIN cvars \subseteq Vars
    BY DEF PlaceInv, PlaceOK, NestInv, FlowInv, TypeOK, GenTypeOK, Walking
  <1>2. InFunction(cfn, cpc) /\ cfn \in Nat /\ cpc \in Nat /\ cfn # 0 /\ cfn < cpc
    BY <1>1, NodeDepths DEF InsideOK, InFunction, Nodes
  <1>3. \A v : DeclsBefore(v, cpc) = {j \in cfn..(cpc - 1) : DeclAt(j, v)}
    BY <1>1, <1>2, DeclsInFunction
  <1>4. ASSUME NEW v \in Vars, Declared(v, cpc)
        PROVE  /\ TheDecl(v, cpc) \in cfn..(cpc - 1) /\ TheDecl(v, cpc) \in Nodes
               /\ DeclAt(TheDecl(v, cpc), v)
    <2>1. TheDecl(v, cpc) \in DeclsBefore(v, cpc)
      BY <1>4 DEF TheDecl, Declared
    <2>2. \A j \in cfn..(cpc - 1) : j \in Nodes
      BY <1>1, <1>2 DEF Nodes
    <2> QED BY <1>3, <2>1, <2>2
  <1>5. ASSUME NEW v \in Vars, NEW j \in cfn..(cpc - 1), LiveDecl(j, v)
        PROVE  Declared(v, cpc) /\ TheDecl(v, cpc) = j
    <2>1. Declared(v, cpc) /\ DeclAt(j, v)
      BY <1>3, <1>5 DEF Declared, LiveDecl
    <2> QED BY <1>1, <1>2, <1>4, <2>1, OneDecl
  <1>6. ASSUME NEW v \in DOMAIN cvars
        PROVE  v \in Vars /\ Declared(v, cpc) /\ ~Dead(TheDecl(v, cpc)) /\ cvars[v] = Info(TheDecl(v, cpc))
    <2>1. PICK j \in cfn..(cpc - 1) : LiveDecl(j, v)
      BY DEF VarsOK
    <2>2. v \in Vars /\ Declared(v, cpc) /\ TheDecl(v, cpc) = j
      BY <1>1, <1>5, <2>1
    <2> QED BY <2>1, <2>2 DEF VarsOK, LiveDecl
  <1>7. ASSUME NEW v \in Vars, Declared(v, cpc), ~Dead(TheDecl(v, cpc)) PROVE v \in DOMAIN cvars
    BY <1>4, <1>7 DEF VarsOK, LiveDecl
  <1> QED BY <1>1, <1>2, <1>4, <1>6, <1>7

(* The table is right behind each node of a function.                       *)
LEMMA GenerateVars ==
  ASSUME PlaceInv, NodesOK, UNCHANGED prog, LiveOK, Walking => VarsOK, GenNext, Walking'
  PROVE  VarsOK'
  <1>1. /\ cpc \in Nodes /\ cpc \in Nat \ {0} /\ phase = "gen" /\ (Skips \/ Advances)
        /\ TypeOK /\ TreeOK /\ Here \in AnyNode /\ Nodes' = Nodes /\ Here = prog[cpc]
        /\ \A i : Dead(i)' <=> Dead(i)
        /\ \A i, v : LiveDecl(i, v)' <=> LiveDecl(i, v)
        /\ \A i : Info(i)' = Info(i)
        /\ DOMAIN cvars \subseteq Vars
    BY GenMoves, NodeDepths
       DEF PlaceInv, NestInv, FlowInv, TypeOK, GenTypeOK, Nodes, Here, Dead, Ends, LiveDecl, DeclAt,
           Info, DeclType, Walking
  <1>2. PICK c \in Nat : c = cpc'
    BY <1>1 DEF Walking, Nodes
  <1>3. PICK f : f = cfn'
    OBVIOUS
  <1>4. PICK env : env = cvars'
    OBVIOUS
  <1> SUFFICES /\ \A v \in DOMAIN env : \E j \in f..(c - 1) : LiveDecl(j, v)
               /\ \A j \in f..(c - 1) : \A v \in Vars :
                    LiveDecl(j, v) => v \in DOMAIN env /\ env[v] = Info(j)
    BY <1>1, <1>2, <1>3, <1>4 DEF VarsOK
  <1>5. Here.k # "fn" => VarsOK /\ InsideOK /\ cfn \in Nat
    BY <1>1 DEF Walking, PlaceInv, PlaceOK, TypeOK, GenTypeOK
  <1>6. CASE Skips
    <2>1. Skipping /\ c \in ListEnds(cpc) /\ f = cfn /\ env = cvars
      BY <1>2, <1>3, <1>4, <1>6 DEF Skips
    <2>2. c > cpc /\ \A k \in cpc..(c - 1) : Dead(k)
      BY <1>1, <2>1, DeadSkipped
    <2>3. VarsOK /\ cfn \in Nat
      BY <1>5, <2>1 DEF Skipping, Statements, Simple
    <2>4. \A j \in f..(c - 1) : j \in cfn..(cpc - 1) \/ Dead(j)
      BY <1>1, <2>1, <2>2, <2>3
    <2>5. \A j \in cfn..(cpc - 1) : j \in f..(c - 1)
      BY <1>1, <2>1, <2>2, <2>3
    <2> QED BY <2>1, <2>3, <2>4, <2>5 DEF VarsOK, LiveDecl
  <1>7. CASE Advances
    <2>1. c = cpc + 1 /\ ~Skipping /\ env = NewVars /\ f = (IF Here.k = "fn" THEN cpc ELSE cfn) /\ Passed
      BY <1>2, <1>3, <1>4, <1>7 DEF Advances
    <2>2. ~Dead(cpc) /\ c - 1 = cpc
      BY <1>1, <2>1, LiveHere DEF AnyNode
    <2>3. CASE Here.k = "fn"
      <3>1. f = cpc /\ env = ParamEnv(Here) /\ Info(cpc) = [t |-> "int", m |-> FALSE]
        BY <1>1, <2>1, <2>3 DEF NewVars, Info, DeclType, NodesOK
      <3>2. \A j \in cpc..cpc : j = cpc
        BY <1>1
      <3>3. cpc \in cpc..cpc
        BY <1>1
      <3>4. \A v : LiveDecl(cpc, v) <=> v = Here.v
        BY <1>1, <2>2, <2>3 DEF LiveDecl, DeclAt
      <3>5. CASE Here.v = None
        <4>1. DOMAIN env = {}
          BY <3>1, <3>5 DEF ParamEnv, NoVars
        <4>2. \A v \in Vars : ~LiveDecl(cpc, v)
          BY <3>4, <3>5, ProgramAssumption
        <4> QED BY <2>2, <3>1, <3>2, <4>1, <4>2
      <3>6. CASE Here.v # None
        <4>1. DOMAIN env = {Here.v} /\ env[Here.v] = Info(cpc)
          BY <3>1, <3>6 DEF ParamEnv, NoVars, Bind
        <4> QED BY <2>2, <3>1, <3>2, <3>3, <3>4, <4>1
      <3> QED BY <3>5, <3>6
    <2>4. CASE Here.k = "decl"
      <3>1. /\ f = cfn /\ env = Bind(cvars, Here.v, [t |-> Here.t, m |-> Here.m])
            /\ Info(cpc) = [t |-> Here.t, m |-> Here.m] /\ VarsOK /\ cfn \in Nat /\ Here.v \notin DOMAIN cvars
            /\ cfn <= cpc
        BY <1>1, <1>5, <2>1, <2>4 DEF NewVars, Info, DeclType, Passed, InsideOK
      <3>2. /\ DOMAIN env = DOMAIN cvars \cup {Here.v} /\ env[Here.v] = Info(cpc)
            /\ \A v \in DOMAIN cvars : env[v] = cvars[v]
        BY <3>1 DEF Bind
      <3>3. \A v : LiveDecl(cpc, v) <=> v = Here.v
        BY <1>1, <2>2, <2>4 DEF LiveDecl, DeclAt
      <3>4. \A j \in cfn..cpc : j \in cfn..(cpc - 1) \/ j = cpc
        BY <1>1, <3>1
      <3>5. cpc \in cfn..cpc /\ \A j \in cfn..(cpc - 1) : j \in cfn..cpc
        BY <1>1, <3>1
      <3>6. ASSUME NEW v \in DOMAIN env PROVE \E j \in cfn..cpc : LiveDecl(j, v)
        <4>1. CASE v = Here.v
          BY <3>3, <3>5, <4>1
        <4>2. CASE v # Here.v
          BY <3>1, <3>2, <3>5, <4>2 DEF VarsOK
        <4> QED BY <4>1, <4>2
      <3>7. ASSUME NEW j \in cfn..cpc, NEW v \in Vars, LiveDecl(j, v)
            PROVE  v \in DOMAIN env /\ env[v] = Info(j)
        <4>1. CASE j = cpc
          BY <3>2, <3>3, <3>7, <4>1
        <4>2. CASE j # cpc
          <5>1. j \in cfn..(cpc - 1)
            BY <3>4, <4>2
          <5> QED BY <3>1, <3>2, <3>7, <5>1 DEF VarsOK
        <4> QED BY <4>1, <4>2
      <3> QED BY <2>2, <3>1, <3>6, <3>7
    <2>5. CASE Here.k \notin {"fn", "decl"}
      <3>1. f = cfn /\ env = cvars /\ VarsOK /\ cfn \in Nat
        BY <1>5, <2>1, <2>5 DEF NewVars
      <3>2. \A v : ~LiveDecl(cpc, v)
        BY <1>1, <2>5 DEF LiveDecl, DeclAt
      <3>3. \A j \in cfn..cpc : j \in cfn..(cpc - 1) \/ j = cpc
        BY <1>1, <3>1
      <3>4. \A j \in cfn..(cpc - 1) : j \in cfn..cpc
        BY <1>1, <3>1
      <3> QED BY <2>2, <3>1, <3>2, <3>3, <3>4 DEF VarsOK
    <2> QED BY <2>3, <2>4, <2>5
  <1> QED BY <1>1, <1>6, <1>7

-----------------------------------------------------------------------------
(* Slots and returns of the function at hand *)

\* the variables of vars_ have a slot, and no other variable is named
SlotsOK ==
  /\ \A v \in DOMAIN cvars : \E x : Holds(body, Entry, x) /\ x.k = "alloca" /\ x.v = v
  /\ \A b, x : Holds(body, b, x) /\ b[1] >= cfn /\ x.v # None => x.v \in DOMAIN cvars

\* the returns are those of its live r/ statements, the branches stay in it
RetsOK ==
  /\ \A b, x : Holds(body, b, x) /\ b[1] >= cfn =>
       /\ x.k = "ret" => /\ x.at \in cfn..(cpc - 1) /\ prog[x.at].k = "ret"
                         /\ x.u = prog[x.at].u /\ ~Dead(x.at)
       /\ \A t \in Targets(x) : t[1] >= cfn
  /\ \A i \in cfn..(cpc - 1) : prog[i].k = "ret" /\ ~Dead(i) =>
       \E b, x : Holds(body, b, x) /\ b[1] >= cfn /\ x.k = "ret" /\ x.u = prog[i].u

(* Behind the end of a function stands the next one.                        *)
LEMMA AfterFunction ==
  ASSUME TypeOK, TreeOK, NEW n \in Nodes, NEW m \in Nodes, m = n + 1, prog[n].k = "endfn"
  PROVE  prog[m].k = "fn"
  <1>1. m # 1 /\ m - 1 = n /\ n \in Nat
    BY DEF Nodes
  <1>2. prog[n].d = 0 /\ Level(prog[m]) = Inner(prog[n])
    BY <1>1 DEF TreeOK, Closers
  <1>3. Inner(prog[n]) = 0
    BY <1>2 DEF Inner, Openers
  <1> QED BY <1>2, <1>3 DEF TreeOK

(* A function has no blocks before it is started.                           *)
LEMMA NoBlocksAhead ==
  ASSUME PlaceInv, phase = "gen", cpc \in Nat, NEW b, b[1] >= cpc, NEW x
  PROVE  ~Holds(body, b, x)
  <1> SUFFICES ASSUME Holds(body, b, x) PROVE FALSE
    OBVIOUS
  <1>1. b \in DOMAIN body /\ b[1] < cpc /\ b \in Block
    BY DEF Holds, PlaceInv, PlaceOK, NestInv, FlowInv, TypeOK, GenTypeOK
  <1>2. b[1] \in Nat
    BY <1>1 DEF Block
  <1> QED BY <1>1, <1>2

(* The slots are right behind each node of a function.                      *)
LEMMA GenerateSlots ==
  ASSUME PlaceInv, UNCHANGED prog, Walking => SlotsOK, GenNext, Walking'
  PROVE  SlotsOK'
  <1>1. /\ cpc \in Nodes /\ cpc \in Nat /\ phase = "gen" /\ (Skips \/ Advances)
        /\ Here \in AnyNode /\ Grows
    BY GenMoves, NodeDepths
       DEF PlaceInv, NestInv, FlowInv, TypeOK, GenTypeOK, Nodes, Here, Walking
  <1>2. \A b, x : Holds(body', b, x) <=> Holds(body, b, x) \/ <<b, x>> \in NewCode
    BY <1>1 DEF Grows, Adds
  <1>3. \A v, u : Alloca(v).k = "alloca" /\ Alloca(v).v = v /\ Store(v, u).v = v
    BY DEF Alloca, Store, I
  <1>4. Here.k # "fn" => SlotsOK
    BY <1>1 DEF Walking
  <1>5. CASE Skips
    <2>1. Here.k # "fn" /\ UNCHANGED <<cfn, cvars, body>>
      BY <1>5 DEF Skips, Skipping, Statements, Simple
    <2> QED BY <1>4, <2>1 DEF SlotsOK, Entry, Holds
  <1>6. CASE Advances
    <2>1. /\ ~Skipping /\ Passed /\ cvars' = NewVars /\ cfn' = (IF Here.k = "fn" THEN cpc ELSE cfn)
      BY <1>6 DEF Advances
    <2>2. CASE Here.k = "fn"
      <3>1. cfn' = cpc /\ cvars' = ParamEnv(Here) /\ NewCode = HeadCode /\ Entry' = <<cpc, "entry">>
        BY <2>1, <2>2 DEF NewVars, NewCode, Entry
      <3>2. \A b, x : b[1] >= cpc => ~Holds(body, b, x)
        BY <1>1, NoBlocksAhead
      <3>3. CASE Here.v = None
        <4>1. DOMAIN cvars' = {} /\ NewCode = {}
          BY <3>1, <3>3 DEF ParamEnv, NoVars, HeadCode
        <4> QED BY <1>2, <3>1, <3>2, <4>1 DEF SlotsOK
      <3>4. CASE Here.v # None
        <4>1. /\ DOMAIN cvars' = {Here.v}
              /\ NewCode = {<< <<cpc, "entry">>, Alloca(Here.v)>>, << <<cpc, "entry">>, Store(Here.v, "arg")>>}
          BY <3>1, <3>4 DEF ParamEnv, NoVars, HeadCode, Bind
        <4>2. Holds(body', Entry', Alloca(Here.v))
          BY <1>2, <3>1, <4>1
        <4>3. ASSUME NEW b, NEW x, Holds(body', b, x), b[1] >= cpc PROVE x.v = Here.v
          BY <1>2, <1>3, <3>2, <4>1, <4>3
        <4> QED BY <1>3, <3>1, <4>1, <4>2, <4>3 DEF SlotsOK
      <3> QED BY <3>3, <3>4
    <2>3. CASE Here.k # "fn"
      <3>1. SlotsOK /\ cfn' = cfn /\ Entry' = Entry
        BY <1>4, <2>1, <2>3 DEF Entry
      <3>2. DOMAIN cvars' = IF Here.k = "decl" THEN DOMAIN cvars \cup {Here.v} ELSE DOMAIN cvars
        BY <2>1, <2>3 DEF NewVars, Bind
      <3>3. ASSUME NEW v \in DOMAIN cvars'
            PROVE  \E x : Holds(body', Entry, x) /\ x.k = "alloca" /\ x.v = v
        <4>1. CASE v \in DOMAIN cvars
          BY <1>2, <3>1, <4>1 DEF SlotsOK
        <4>2. CASE v \notin DOMAIN cvars
          <5>1. Here.k = "decl" /\ v = Here.v
            BY <3>2, <4>2
          <5>2. <<Entry, Alloca(v)>> \in NewCode
            BY <2>1, <5>1 DEF NewCode
          <5> QED BY <1>2, <1>3, <5>2
        <4> QED BY <4>1, <4>2
      <3>4. ASSUME NEW b, NEW x, Holds(body', b, x), b[1] >= cfn, x.v # None
            PROVE  x.v \in DOMAIN cvars'
        <4>1. CASE Holds(body, b, x)
          BY <3>1, <3>2, <3>4, <4>1 DEF SlotsOK
        <4>2. CASE <<b, x>> \in NewCode
          <5>1. \/ Here.k \in {"fn", "decl", "assign", "part"} /\ x.v = Here.v
                \/ Here.k \in Evaluating /\ x.v = Here.u /\ Here.u \in Vars
            BY <1>1, <3>4, <4>2, CodeFacts
          <5> QED BY <2>1, <2>3, <3>2, <5>1 DEF Passed, Bound, Unbound
        <4> QED BY <1>2, <3>4, <4>1, <4>2
      <3> QED BY <3>1, <3>3, <3>4 DEF SlotsOK
    <2> QED BY <2>2, <2>3
  <1> QED BY <1>1, <1>5, <1>6

(* So are the returns.                                                      *)
LEMMA GenerateRets ==
  ASSUME PlaceInv, UNCHANGED prog, LiveOK, Walking => RetsOK, GenNext, Walking'
  PROVE  RetsOK'
  <1>1. /\ cpc \in Nodes /\ cpc \in Nat \ {0} /\ phase = "gen" /\ (Skips \/ Advances)
        /\ TypeOK /\ TreeOK /\ Here \in AnyNode /\ Grows /\ Nodes' = Nodes /\ Here = prog[cpc]
        /\ \A i : Dead(i)' <=> Dead(i)
    BY GenMoves, NodeDepths
       DEF PlaceInv, NestInv, FlowInv, TypeOK, GenTypeOK, Nodes, Here, Walking, Dead, Ends
  <1>2. \A b, x : Holds(body', b, x) <=> Holds(body, b, x) \/ <<b, x>> \in NewCode
    BY <1>1 DEF Grows, Adds
  <1>3. PICK c \in Nat : c = cpc' /\ c \in Nodes /\ prog[c].k # "fn"
    BY <1>1 DEF Walking, Nodes, Here
  <1>4. PICK f : f = cfn'
    OBVIOUS
  <1> SUFFICES
        /\ \A b, x : Holds(body', b, x) /\ b[1] >= f =>
             /\ x.k = "ret" => /\ x.at \in f..(c - 1) /\ prog[x.at].k = "ret"
                               /\ x.u = prog[x.at].u /\ ~Dead(x.at)
             /\ \A t \in Targets(x) : t[1] >= f
        /\ \A i \in f..(c - 1) : prog[i].k = "ret" /\ ~Dead(i) =>
             \E b, x : Holds(body', b, x) /\ b[1] >= f /\ x.k = "ret" /\ x.u = prog[i].u
    <2>1. prog' = prog /\ \A i : Dead(i)' <=> Dead(i)
      BY <1>1
    <2>2. cpc' = c /\ cfn' = f
      BY <1>3, <1>4
    <2> QED BY <2>1, <2>2 DEF RetsOK
  <1>5. Here.k # "fn" => RetsOK /\ InsideOK /\ cfn \in Nat /\ cfn < cpc
    <2>1. Here.k # "fn" => InsideOK /\ cfn \in Nat
      BY <1>1 DEF PlaceInv, PlaceOK, TypeOK, GenTypeOK
    <2> QED BY <1>1, <2>1 DEF Walking, InsideOK
  <1>6. CASE Skips
    <2>1. Skipping /\ c \in ListEnds(cpc) /\ f = cfn /\ UNCHANGED body /\ Here.k # "fn"
      BY <1>3, <1>4, <1>6 DEF Skips, Skipping, Statements, Simple
    <2>2. c > cpc /\ \A k \in cpc..(c - 1) : Dead(k)
      BY <1>1, <2>1, DeadSkipped
    <2>3. \A j \in f..(c - 1) : j \in cfn..(cpc - 1) \/ Dead(j)
      BY <1>1, <1>5, <2>1, <2>2
    <2>4. \A j \in cfn..(cpc - 1) : j \in f..(c - 1)
      BY <1>1, <1>5, <2>1, <2>2
    <2>5. \A b, x : Holds(body', b, x) <=> Holds(body, b, x)
      BY <2>1
    <2> QED BY <1>5, <2>1, <2>3, <2>4, <2>5 DEF RetsOK
  <1>7. CASE Advances
    <2>1. c = cpc + 1 /\ c - 1 = cpc /\ ~Skipping /\ f = IF Here.k = "fn" THEN cpc ELSE cfn
      BY <1>1, <1>3, <1>4, <1>7 DEF Advances
    <2>2. ~Dead(cpc)
      BY <1>1, <2>1, LiveHere DEF AnyNode
    <2>3. CASE Here.k = "fn"
      <3>1. f = cpc /\ NewCode = HeadCode
        BY <2>1, <2>3 DEF NewCode
      <3>2. \A b, x : b[1] >= cpc => ~Holds(body, b, x)
        BY <1>1, NoBlocksAhead
      <3>3. ASSUME NEW b, NEW x, Holds(body', b, x), b[1] >= cpc PROVE x.k # "ret" /\ Targets(x) = {}
        <4>1. x = Alloca(Here.v) \/ x = Store(Here.v, "arg")
          BY <1>2, <3>1, <3>2, <3>3 DEF HeadCode
        <4>2. Alloca(Here.v).k = "alloca" /\ Store(Here.v, "arg").k = "store"
          BY DEF Alloca, Store, I
        <4>3. Targets(Alloca(Here.v)) = {} /\ Targets(Store(Here.v, "arg")) = {}
          BY TargetsOf
        <4> QED BY <4>1, <4>2, <4>3
      <3>4. \A j \in cpc..cpc : prog[j].k # "ret"
        BY <1>1, <2>3
      <3> QED BY <2>1, <3>1, <3>3, <3>4
    <2>4. CASE Here.k # "fn"
      <3>1. f = cfn /\ RetsOK /\ InsideOK /\ cfn \in Nat /\ cfn < cpc
        BY <1>5, <2>1, <2>4
      <3>2. Here.k # "endfn"
        BY <1>1, <1>3, <2>1, AfterFunction
      <3>3. ASSUME NEW b, NEW x, <<b, x>> \in NewCode
            PROVE  /\ x.k = "ret" => Here.k = "ret" /\ x.at = cpc /\ x.u = Here.u
                   /\ \A t \in Targets(x) : t[1] >= cfn
        <4>1. phase' = "gen"
          BY DEF Walking
        <4>2. \A t \in Targets(x) : t[1] \in cfn..cpc
          BY <2>4, <3>3, <4>1, NewCodeLocal
        <4>3. x.k = "ret" => Here.k = "ret" /\ x = Ret(Here.u) /\ x.at = cpc
          BY <1>1, <3>2, <3>3, CodeFacts
        <4>4. Ret(Here.u).u = Here.u
          BY DEF Ret, I
        <4> QED BY <3>1, <4>2, <4>3, <4>4
      <3>4. cpc \in cfn..cpc /\ \A j \in cfn..cpc : j \in cfn..(cpc - 1) \/ j = cpc
        BY <1>1, <3>1
      <3>5. \A j \in cfn..(cpc - 1) : j \in cfn..cpc
        BY <1>1, <3>1
      <3>6. ASSUME NEW b, NEW x, Holds(body', b, x), b[1] >= cfn
            PROVE  /\ x.k = "ret" => /\ x.at \in cfn..cpc /\ prog[x.at].k = "ret"
                                     /\ x.u = prog[x.at].u /\ ~Dead(x.at)
                   /\ \A t \in Targets(x) : t[1] >= cfn
        <4>1. CASE Holds(body, b, x)
          BY <3>1, <3>5, <3>6, <4>1 DEF RetsOK
        <4>2. CASE <<b, x>> \in NewCode
          BY <1>1, <2>2, <3>3, <3>4, <4>2
        <4> QED BY <1>2, <3>6, <4>1, <4>2
      <3>7. ASSUME NEW i \in cfn..cpc, prog[i].k = "ret", ~Dead(i)
            PROVE  \E b, x : Holds(body', b, x) /\ b[1] >= cfn /\ x.k = "ret" /\ x.u = prog[i].u
        <4>1. CASE i \in cfn..(cpc - 1)
          BY <1>2, <3>1, <3>7, <4>1 DEF RetsOK
        <4>2. CASE i = cpc
          <5>1. <<ins, Ret(Here.u)>> \in NewCode
            BY <1>1, <2>1, <3>7, <4>2 DEF NewCode
          <5>2. Ret(Here.u).k = "ret" /\ Ret(Here.u).u = prog[i].u /\ ins[1] >= cfn
            BY <1>1, <3>1, <4>2 DEF Ret, I, InsideOK
          <5> QED BY <1>2, <5>1, <5>2
        <4> QED BY <3>4, <4>1, <4>2
      <3> QED BY <2>1, <3>1, <3>6, <3>7
    <2> QED BY <2>3, <2>4
  <1> QED BY <1>1, <1>6, <1>7

-----------------------------------------------------------------------------
(* The end of a function *)

\* the value that the end of defineFn returns
DefaultValue == IF prog[cfn].t = "void" THEN None ELSE "zero"

(* The default return closes the last block of the function.                *)
LEMMA ClosedByReturn ==
  ASSUME PlaceInv, Walking, frames = <<>>
  PROVE  /\ Bodies(DefaultReturn) /\ DOMAIN DefaultReturn = DOMAIN body
         /\ \A b \in DOMAIN body : NoInner(DefaultReturn[b]) /\ Terminated(DefaultReturn, b)
         /\ \A b, x : Holds(body, b, x) => Holds(DefaultReturn, b, x)
         /\ \A b, x : Holds(DefaultReturn, b, x) =>
              Holds(body, b, x) \/ (b = ins /\ x = Ret(DefaultValue))
  <1>1. /\ FlowInv /\ cpc \in Nat /\ ins \in DOMAIN body /\ Clean(body) /\ Bodies(body)
    BY FlowClean DEF PlaceInv, PlaceOK, InsideOK, Walking, NestInv, FlowInv, TypeOK, GenTypeOK, Clean
  <1>2. \A b \in DOMAIN body : Ended(body[b]) \/ b = ins
    <2>1. Awaited(frames) = {}
      BY DEF Awaited
    <2> QED BY <1>1, <2>1, OpenBlocks
  <1>3. CASE Terminated(body, ins)
    <2>1. DefaultReturn = body /\ Ended(body[ins])
      BY <1>3 DEF DefaultReturn, Terminated, Ended
    <2> QED BY <1>1, <1>2, <2>1 DEF Clean, Terminated, Ended
  <1>4. CASE ~Terminated(body, ins)
    <2> DEFINE x == Ret(DefaultValue)
               end == Emit(body, ins, <<x>>)
    <2>1. DefaultReturn = end
      BY <1>4 DEF DefaultReturn, DefaultValue
    <2>2. <<x>> \in Seq(Instr) /\ x \in Instr
      <3>1. DefaultValue \in Operand \cup {None, "zero"}
        BY DEF DefaultValue
      <3>2. <<x>> \in Seq(Instr)
        BY <1>1, <3>1, TerminatorType
      <3>3. <<x>>[1] \in Instr
        <4>1. \A s \in Seq(Instr) : Len(s) = 1 => s[1] \in Instr
          OBVIOUS
        <4> QED BY <3>2, <4>1
      <3> QED BY <3>2, <3>3
    <2>3. x.k \in Terminators
      BY DEF Ret, I, Terminators
    <2>4. Ready(body, ins)
      <3>1. body[ins] \in Seq(Instr) /\ NoInner(body[ins]) /\ ~Ended(body[ins])
        BY <1>1, <1>4 DEF Clean, Bodies, Terminated, Ended
      <3> QED BY <3>1, EndedFacts DEF Ready
    <2> HIDE DEF x
    <2>5. NoInner(<<x>>) /\ Ended(<<x>>)
      BY <2>3, OneInstruction
    <2>6. /\ Clean(end) /\ DOMAIN end = DOMAIN body /\ Keeps(body, end) /\ Ended(end[ins])
      BY <1>1, <2>2, <2>4, <2>5, EmitClean
    <2>7. Adds(body, end, {<<ins, x>>})
      BY <1>1, <2>2, EmitAdds
    <2> HIDE DEF end
    <2>8. \A b \in DOMAIN body : Ended(end[b])
      BY <1>2, <2>6 DEF Keeps
    <2> QED BY <2>1, <2>6, <2>7, <2>8 DEF Clean, Adds, Terminated, Ended, x
  <1> QED BY <1>3, <1>4

(* Nodes of the function at hand.                                           *)
LEMMA InFunctionFacts ==
  ASSUME PlaceInv, Walking
  PROVE  /\ cfn \in Nat /\ cfn # 0 /\ cpc \in Nat /\ cfn < cpc
         /\ \A i \in cfn..cpc : FunctionOf(i) = cfn /\ i \in Nodes /\ i \in Within(cfn)
         /\ \A i \in Nodes : i < cpc <=> i < cfn \/ i \in cfn..(cpc - 1)
  <1>1. InsideOK /\ TypeOK /\ cpc \in Nodes
    BY DEF PlaceInv, PlaceOK, NestInv, FlowInv, Walking
  <1>2. /\ cfn \in Nat /\ cfn # 0 /\ cpc \in Nat /\ cfn < cpc /\ prog[cfn].k = "fn"
        /\ \A k \in (cfn + 1)..cpc : prog[k].k # "fn"
    BY <1>1 DEF InsideOK, Nodes
  <1>3. \A i \in cfn..cpc : FunctionOf(i) = cfn
    BY <1>2, FunctionOfInside
  <1>4. \A i \in cfn..cpc : i \in Nodes /\ cfn <= i
    BY <1>1, <1>2, NodeDepths DEF Nodes
  <1>5. \A i \in Nodes : i < cpc <=> i < cfn \/ i \in cfn..(cpc - 1)
    BY <1>2 DEF Nodes
  <1> QED BY <1>2, <1>3, <1>4, <1>5 DEF Within

(* An r/ with a value is in a function with a type, unless the value is     *)
(* void.                                                                    *)
LEMMA ReturnTyped ==
  ASSUME TypeOK, NodesOK, \A i \in Nodes : WellFormed(i), NEW i \in Nodes, prog[i].k = "ret"
  PROVE  /\ prog[i].u = None => prog[FunctionOf(i)].t = "void"
         /\ prog[i].u = "void" => prog[FunctionOf(i)].t = "void" /\ prog[i].u # None
         /\ prog[i].u \notin {None, "void"} => prog[FunctionOf(i)].t # "void"
  <1>1. IF prog[i].u = None THEN prog[FunctionOf(i)].t = "void"
        ELSE HasType(prog[i].u, i, prog[FunctionOf(i)].t)
    BY DEF WellFormed
  <1>2. "void" \notin Vars /\ None # "void" /\ prog[i].u \in Operand \cup {None}
    BY NodeDepths, ProgramAssumption DEF Literals, AnyNode, Nodes
  <1>3. CASE prog[i].u = "void"
    BY <1>1, <1>2, <1>3 DEF HasType
  <1>4. CASE prog[i].u \in Vars
    <2>1. prog[i].u # None
      BY <1>4, ProgramAssumption
    <2>2. Declared(prog[i].u, i) /\ DeclType(TheDecl(prog[i].u, i)) = prog[FunctionOf(i)].t
      BY <1>1, <1>4, <2>1 DEF HasType
    <2> DEFINE j == TheDecl(prog[i].u, i)
    <2>3. j \in DeclsBefore(prog[i].u, i)
      BY <2>2 DEF TheDecl, Declared
    <2>4. j \in Nodes /\ prog[j].k \in {"fn", "decl"}
      BY <2>3 DEF DeclsBefore, Within
    <2> HIDE DEF j
    <2>5. CASE prog[j].k = "fn"
      BY <1>2, <1>4, <2>1, <2>2, <2>5 DEF DeclType, j
    <2>6. CASE prog[j].k = "decl"
      <3>1. prog[j].t # "void"
        BY <2>4, <2>6 DEF WellFormed
      <3> QED BY <1>2, <1>4, <2>1, <2>2, <2>6, <3>1 DEF DeclType, j
    <2> QED BY <2>4, <2>5, <2>6
  <1>5. CASE prog[i].u \in {"lit", "input", "agg"}
    <2>1. prog[i].u \notin Vars /\ prog[i].u # None
      BY <1>5, ProgramAssumption DEF Literals
    <2> QED BY <1>1, <1>5, <2>1 DEF HasType
  <1>6. CASE prog[i].u = None
    BY <1>1, <1>2, <1>6
  <1> QED BY <1>2, <1>3, <1>4, <1>5, <1>6 DEF Operand, Literals

(* A function without a live r/ of a void value passes verifyFunction ...   *)
LEMMA FunctionVerifies ==
  ASSUME BranchInv, NodesOK, Walking, frames = <<>>, SlotsOK, RetsOK, \A i \in Nodes : WellFormed(i),
         \A i \in Within(cfn) : ~ReturnsVoidValue(i)
  PROVE  Verified(DefaultReturn, cfn)
  <1>1. /\ PlaceInv /\ TypeOK /\ BranchOK /\ InsideOK /\ Bodies(DefaultReturn)
        /\ DOMAIN DefaultReturn = DOMAIN body
        /\ \A b \in DOMAIN body : NoInner(DefaultReturn[b]) /\ Terminated(DefaultReturn, b)
        /\ \A b, x : Holds(body, b, x) => Holds(DefaultReturn, b, x)
        /\ \A b, x : Holds(DefaultReturn, b, x) =>
              Holds(body, b, x) \/ (b = ins /\ x = Ret(DefaultValue))
    BY ClosedByReturn DEF BranchInv, PlaceInv, PlaceOK, NestInv, FlowInv, Walking
  <1>2. PICK D : D = DefaultReturn
    OBVIOUS
  <1>3. Entry \in DOMAIN body /\ Entry = <<cfn, "entry">> /\ cfn \in Nat
    BY <1>1, InFunctionFacts DEF InsideOK, Entry
  <1>4. ASSUME NEW b \in DOMAIN body, b[1] >= cfn, NEW i \in 1..Len(D[b]), NEW x, x = D[b][i]
        PROVE  /\ x.k \in Terminators => i = Len(D[b])
               /\ Targets(x) \subseteq FnBlocks(D, cfn) \ {<<cfn, "entry">>}
               /\ x.v # None => \E j \in 1..Len(D[Entry]) :
                                  D[Entry][j].k = "alloca" /\ D[Entry][j].v = x.v
               /\ x.k = "ret" => (x.u = None <=> prog[cfn].t = "void")
    <2>1. D[b] \in Seq(Instr) /\ NoInner(D[b]) /\ Holds(D, b, x)
      BY <1>1, <1>2, <1>4 DEF Bodies, Holds
    <2>2. x.k \in Terminators => i = Len(D[b])
      <3>1. PICK n \in Nat : n = Len(D[b])
        BY <2>1, LenProperties
      <3>2. i \in 1..n /\ (x.k \in Terminators => i \notin 1..(n - 1))
        BY <1>4, <2>1, <3>1 DEF NoInner
      <3> QED BY <3>1, <3>2
    <2>3. CASE Holds(body, b, x)
      <3>1. ASSUME NEW t \in Targets(x) PROVE t \in FnBlocks(D, cfn) \ {<<cfn, "entry">>}
        <4>1. t \in DOMAIN body /\ t[2] # "entry"
          BY <1>1, <2>3 DEF BranchOK, Goes
        <4>2. t[1] >= cfn
          BY <1>4, <2>3 DEF RetsOK
        <4> QED BY <1>1, <1>2, <4>1, <4>2 DEF FnBlocks
      <3>2. ASSUME x.v # None
            PROVE  \E j \in 1..Len(D[Entry]) : D[Entry][j].k = "alloca" /\ D[Entry][j].v = x.v
        <4>1. x.v \in DOMAIN cvars
          BY <1>4, <2>3, <3>2 DEF SlotsOK
        <4>2. PICK y : Holds(body, Entry, y) /\ y.k = "alloca" /\ y.v = x.v
          BY <4>1 DEF SlotsOK
        <4>3. Holds(D, Entry, y)
          BY <1>1, <1>2, <4>2
        <4> QED BY <4>2, <4>3 DEF Holds
      <3>3. ASSUME x.k = "ret" PROVE x.u = None <=> prog[cfn].t = "void"
        <4>1. /\ x.at \in cfn..(cpc - 1) /\ prog[x.at].k = "ret"
              /\ x.u = prog[x.at].u /\ ~Dead(x.at)
          BY <1>4, <2>3, <3>3 DEF RetsOK
        <4>2. PICK a : a = x.at
          OBVIOUS
        <4>3. a \in Nodes /\ FunctionOf(a) = cfn /\ a \in Within(cfn)
          <5>1. \A n \in cfn..(cpc - 1) : n \in cfn..cpc
            BY <1>1, InFunctionFacts
          <5> QED BY <1>1, <4>1, <4>2, <5>1, InFunctionFacts
        <4>4. prog[a].u # "void"
          BY <4>1, <4>2, <4>3 DEF ReturnsVoidValue
        <4> QED BY <1>1, <4>1, <4>2, <4>3, <4>4, ReturnTyped
      <3> QED BY <1>3, <2>2, <3>1, <3>2, <3>3
    <2>4. CASE x = Ret(DefaultValue)
      <3>1. x.k = "ret" /\ x.v = None /\ x.u = DefaultValue
        BY <2>4 DEF Ret, I
      <3>2. Targets(x) = {}
        BY <2>4, TargetsOf
      <3>3. x.u = None <=> prog[cfn].t = "void"
        BY <3>1, ProgramAssumption DEF DefaultValue
      <3> QED BY <2>2, <3>1, <3>2, <3>3
    <2> QED BY <1>1, <1>2, <2>1, <2>3, <2>4
  <1>5. ASSUME NEW b \in FnBlocks(D, cfn) PROVE VerifiedBlock(D, cfn, b)
    <2>1. b \in DOMAIN body /\ b[1] >= cfn /\ Terminated(D, b)
      BY <1>1, <1>2 DEF FnBlocks
    <2>2. ASSUME NEW i \in 1..Len(D[b])
          PROVE  /\ D[b][i].k \in Terminators => i = Len(D[b])
                 /\ Targets(D[b][i]) \subseteq FnBlocks(D, cfn) \ {Entry}
                 /\ D[b][i].v # None => \E j \in 1..Len(D[Entry]) :
                      D[Entry][j].k = "alloca" /\ D[Entry][j].v = D[b][i].v
                 /\ D[b][i].k = "ret" => (D[b][i].u = None <=> prog[cfn].t = "void")
      <3>1. PICK x : x = D[b][i]
        OBVIOUS
      <3>2. /\ x.k \in Terminators => i = Len(D[b])
            /\ Targets(x) \subseteq FnBlocks(D, cfn) \ {<<cfn, "entry">>}
            /\ x.v # None => \E j \in 1..Len(D[Entry]) :
                 D[Entry][j].k = "alloca" /\ D[Entry][j].v = x.v
            /\ x.k = "ret" => (x.u = None <=> prog[cfn].t = "void")
        BY <1>4, <2>1, <3>1
      <3> QED BY <1>3, <3>1, <3>2
    <2> QED BY <2>1, <2>2 DEF VerifiedBlock, Entry
  <1> QED BY <1>2, <1>5 DEF Verified

(* ... and one with such an r/ does not.                                    *)
LEMMA VerifiedReturns ==
  ASSUME PlaceInv, NodesOK, Walking, frames = <<>>, RetsOK, \A i \in Nodes : WellFormed(i),
         Verified(DefaultReturn, cfn), NEW i \in cfn..(cpc - 1)
  PROVE  ~ReturnsVoidValue(i)
  <1> SUFFICES ASSUME ReturnsVoidValue(i) PROVE FALSE
    OBVIOUS
  <1>1. prog[i].k = "ret" /\ prog[i].u = "void" /\ ~Dead(i)
    BY DEF ReturnsVoidValue
  <1>2. i \in Nodes /\ FunctionOf(i) = cfn
    <2>1. i \in cfn..cpc
      BY InFunctionFacts
    <2> QED BY <2>1, InFunctionFacts
  <1>3. PICK b, x : Holds(body, b, x) /\ b[1] >= cfn /\ x.k = "ret" /\ x.u = "void"
    BY <1>1 DEF RetsOK
  <1>4. Holds(DefaultReturn, b, x) /\ b \in FnBlocks(DefaultReturn, cfn)
    <2>1. Holds(DefaultReturn, b, x)
      BY <1>3, ClosedByReturn
    <2> QED BY <1>3, <2>1 DEF FnBlocks, Holds
  <1>5. VerifiedBlock(DefaultReturn, cfn, b)
    BY <1>4 DEF Verified
  <1>6. x.u = None <=> prog[cfn].t = "void"
    BY <1>3, <1>4, <1>5 DEF VerifiedBlock, Holds
  <1>7. TypeOK
    BY DEF PlaceInv, NestInv, FlowInv
  <1>8. prog[cfn].t = "void" /\ x.u # None
    BY <1>1, <1>2, <1>3, <1>7, ReturnTyped
  <1> QED BY <1>6, <1>8

-----------------------------------------------------------------------------
(* What the generator refuses *)

AllWell == \A i \in Nodes : WellFormed(i)

\* nothing that the generator refuses is behind the walk, void returns being
\* refused at the end of their function
VerdictOK ==
  /\ \A i \in Nodes : i < cpc => ~UsesDeadDecl(i)
  /\ \A i \in Nodes : i < cpc /\ (Walking => i < cfn) => ~ReturnsVoidValue(i)

(* A lookup that finds nothing in a program without an error is a use of a  *)
(* dead declaration ...                                                     *)
LEMMA UnboundIsDead ==
  ASSUME PlaceInv, Walking, LiveOK, VarsOK, AllWell, ~Skipping,
         NEW u \in Uses(cpc), Declared(u, cpc), u \notin DOMAIN cvars
  PROVE  UsesDeadDecl(cpc)
  <1>1. u \in Vars
    BY DEF Uses
  <1>2. Dead(TheDecl(u, cpc))
    BY <1>1, LookupFacts DEF AllWell
  <1>3. ~Dead(cpc)
    <2>1. TypeOK /\ TreeOK /\ cpc \in Nodes /\ Here \in AnyNode
      BY NodeDepths DEF PlaceInv, NestInv, FlowInv, Walking, Here, Nodes
    <2> QED BY <2>1, LiveHere DEF AnyNode
  <1> QED BY <1>1, <1>2, <1>3 DEF UsesDeadDecl

(* ... and one that finds something is not.                                 *)
LEMMA BoundIsLive ==
  ASSUME PlaceInv, NodesOK, phase = "gen", cpc \in Nodes, Walking => VarsOK, AllWell, Passed
  PROVE  ~UsesDeadDecl(cpc)
  <1> SUFFICES ASSUME NEW v \in Uses(cpc), Declared(v, cpc), Dead(TheDecl(v, cpc)) PROVE FALSE
    BY DEF UsesDeadDecl, Uses
  <1>1. /\ v \in Vars /\ TypeOK /\ Here = prog[cpc] /\ Here \in AnyNode /\ cpc \in Nat \ {0}
        /\ v = Here.u \/ (Here.k \in {"assign", "part"} /\ v = Here.v)
    BY NodeDepths DEF Uses, PlaceInv, NestInv, FlowInv, Here, Nodes
  <1>2. CASE Here.k = "fn"
    <2>1. InFunction(cpc, cpc)
      BY <1>1, <1>2 DEF InFunction
    <2>2. DeclsBefore(v, cpc) = {j \in cpc..(cpc - 1) : DeclAt(j, v)}
      BY <1>1, <2>1, DeclsInFunction
    <2>3. cpc..(cpc - 1) = {}
      BY <1>1
    <2> QED BY <2>2, <2>3 DEF Declared
  <1>3. CASE Here.k # "fn"
    <2>1. Walking /\ VarsOK
      BY <1>3 DEF Walking
    <2>2. v \notin DOMAIN cvars
      BY <1>1, <2>1, LookupFacts DEF AllWell
    <2>3. CASE Here.k \in Evaluating
      BY <1>1, <2>2, <2>3 DEF Passed, Bound, Unbound
    <2>4. CASE Here.k \notin Evaluating
      <3>1. Here.u = None
        BY <1>1, <1>3, <2>4 DEF NodesOK, Evaluating, AnyNode, NodeKind, Openers, Closers, Simple
      <3> QED BY <1>1, <2>4, <3>1, ProgramAssumption DEF Evaluating
    <2> QED BY <2>3, <2>4
  <1> QED BY <1>2, <1>3

(* The verdict is right behind each node.                                   *)
LEMMA GenerateVerdict ==
  ASSUME PlaceInv, NodesOK, UNCHANGED prog, LiveOK, Walking => VarsOK /\ RetsOK, VerdictOK, AllWell,
         GenNext, phase' = "gen"
  PROVE  VerdictOK'
  <1>1. /\ cpc \in Nodes /\ cpc \in Nat \ {0} /\ phase = "gen" /\ (Skips \/ Advances)
        /\ TypeOK /\ TreeOK /\ Here \in AnyNode /\ Nodes' = Nodes /\ Here = prog[cpc]
        /\ \A i : Dead(i)' <=> Dead(i)
        /\ \A i \in Nodes : i \in Nat
    BY GenMoves, NodeDepths
       DEF PlaceInv, NestInv, FlowInv, TypeOK, GenTypeOK, Nodes, Here, Dead, Ends
  <1>2. \A i : /\ UsesDeadDecl(i)' <=> UsesDeadDecl(i)
               /\ ReturnsVoidValue(i)' <=> ReturnsVoidValue(i)
    <2>1. \A i : Uses(i)' = Uses(i)
      BY DEF Uses
    <2>2. \A v, i : TheDecl(v, i)' = TheDecl(v, i) /\ (Declared(v, i)' <=> Declared(v, i))
      BY SameMeaning
    <2>3. ASSUME NEW i PROVE UsesDeadDecl(i)' <=> UsesDeadDecl(i)
      BY <1>1, <2>1, <2>2 DEF UsesDeadDecl
    <2> QED BY <1>1, <2>3 DEF ReturnsVoidValue
  <1>3. PICK c : c = cpc'
    OBVIOUS
  <1>4. PICK f : f = cfn'
    OBVIOUS
  <1> SUFFICES /\ \A i \in Nodes : i < c => ~UsesDeadDecl(i)
               /\ \A i \in Nodes : i < c /\ (Walking' => i < f) => ~ReturnsVoidValue(i)
    BY <1>1, <1>2, <1>3, <1>4 DEF VerdictOK
  <1>5. CASE Skips
    <2>1. Skipping /\ c \in ListEnds(cpc) /\ f = cfn /\ Here.k # "fn"
      BY <1>3, <1>4, <1>5 DEF Skips, Skipping, Statements, Simple
    <2>2. c \in Nodes /\ c > cpc /\ prog[c].k \in Closers /\ \A k \in cpc..(c - 1) : Dead(k)
      BY <1>1, <2>1, DeadSkipped
    <2>3. Walking /\ Walking'
      BY <1>1, <1>3, <2>1, <2>2 DEF Walking, Here, Closers
    <2>4. \A i \in Nodes : i < c => i < cpc \/ i \in cpc..(c - 1)
      BY <1>1, <2>2
    <2>5. \A i \in Nodes : i < cfn => i < cpc
      BY <1>1, <2>3, InFunctionFacts
    <2> QED BY <2>1, <2>2, <2>3, <2>4, <2>5 DEF VerdictOK, UsesDeadDecl, ReturnsVoidValue
  <1>6. CASE Advances
    <2>1. c = cpc + 1 /\ Passed /\ f = IF Here.k = "fn" THEN cpc ELSE cfn
      BY <1>3, <1>4, <1>6 DEF Advances
    <2>2. \A i \in Nodes : i < c => i < cpc \/ i = cpc
      BY <1>1, <2>1
    <2>3. ~UsesDeadDecl(cpc)
      BY <1>1, <2>1, BoundIsLive
    <2>4. \A i \in Nodes : i < c => ~UsesDeadDecl(i)
      BY <2>2, <2>3 DEF VerdictOK
    <2>5. CASE Here.k = "fn"
      <3>1. ~Walking /\ ~ReturnsVoidValue(cpc)
        BY <1>1, <2>5 DEF Walking, ReturnsVoidValue
      <3> QED BY <2>2, <2>4, <3>1 DEF VerdictOK
    <2>6. CASE Here.k = "endfn"
      <3>1. Walking /\ frames = <<>> /\ Verified(DefaultReturn, cfn) /\ ~ReturnsVoidValue(cpc)
        BY <1>1, <2>1, <2>6 DEF Walking, ReturnsVoidValue, Passed
      <3>2. \A i \in cfn..(cpc - 1) : ~ReturnsVoidValue(i)
        BY <3>1, VerifiedReturns DEF AllWell
      <3>3. \A i \in Nodes : i < cpc => i < cfn \/ i \in cfn..(cpc - 1)
        BY <3>1, InFunctionFacts
      <3> QED BY <2>2, <2>4, <3>1, <3>2, <3>3 DEF VerdictOK
    <2>7. CASE Here.k \notin {"fn", "endfn"}
      <3>1. Walking /\ f = cfn
        BY <1>1, <2>1, <2>7 DEF Walking
      <3>2. Walking'
        <4>1. PICK m \in Nodes : m = cpc + 1 /\ prog[m].k # "fn"
          <5>1. cpc + 1 \in Nodes /\ prog[cpc + 1].k # "fn"
            <6>1. cpc + 1 \in Nodes /\ \A k \in (cpc + 1)..(cpc + 1) : prog[k].k # "fn"
              BY <1>1, <2>7, AheadInside
            <6> QED BY <1>1, <6>1
          <5> QED BY <5>1
        <4> QED BY <1>1, <1>3, <2>1, <4>1 DEF Walking, Here
      <3>3. \A i \in Nodes : i < cfn => i < cpc
        BY <1>1, <3>1, InFunctionFacts
      <3> QED BY <2>4, <3>1, <3>2, <3>3 DEF VerdictOK
    <2> QED BY <2>5, <2>6, <2>7
  <1> QED BY <1>1, <1>5, <1>6

\* what the generator says when it refuses a program that was accepted
RefusalOK(e) ==
  \/ e.code = "UndeclaredIdentifier" /\ UsesDeadDecl(cpc)
  \/ e.code = "CodegenFailure" /\ \E i \in Within(cfn) : ReturnsVoidValue(i)

(* The generator refuses an accepted program for the two reasons only.      *)
LEMMA GenerateRefuses ==
  ASSUME BranchInv, NodesOK, phase = "gen", cpc \in Nodes => LiveOK,
         Walking => VarsOK /\ SlotsOK /\ RetsOK, AllWell, GenNext, phase' = "failed"
  PROVE  RefusalOK(err')
  <1>1. /\ PlaceInv /\ TypeOK /\ TreeOK /\ MatchOK /\ StackOK /\ \A i \in Nodes : prog[i] \in AnyNode
        /\ \A i \in Nodes : i \in 1..Len(prog)
        /\ \A i \in Nodes : prog[i].k \in {"decl", "assign", "part"} => prog[i].v \in Vars
    BY NodeDepths DEF BranchInv, PlaceInv, NestInv, FlowInv, Nodes, TypeOK, ParserTypeOK
  <1>2. ASSUME NEW code, GenThrow(code) PROVE err'.code = code
    BY <1>2 DEF GenThrow, Throw
  <1>3. phase' # phase
    OBVIOUS
  <1>4. ASSUME NEW kinds, Generating(kinds), "fn" \notin kinds
        PROVE  /\ Walking /\ cpc \in Nodes /\ LiveOK /\ VarsOK /\ SlotsOK /\ RetsOK /\ WellFormed(cpc)
               /\ Here \in AnyNode /\ Here = prog[cpc] /\ Here.k \in kinds
               /\ Here.k \in {"decl", "assign", "part"} => Here.v \in Vars
    BY <1>1, <1>4 DEF Generating, Walking, Nodes, Here, AllWell
  <1>5. ASSUME NEW kinds, AtStatement(kinds), "fn" \notin kinds, NEW u, UndeclaredUse(u),
               u = Here.u \/ (Here.k \in {"assign", "part"} /\ u = Here.v),
               u \in Vars => Declared(u, cpc)
        PROVE  RefusalOK(err')
    <2>1. u \in Vars /\ u \notin DOMAIN cvars /\ err'.code = "UndeclaredIdentifier"
      BY <1>2, <1>5 DEF UndeclaredUse, Unbound
    <2>2. Generating(kinds) /\ ~Skipping
      BY <1>5 DEF AtStatement, Skipping
    <2>3. u \in Uses(cpc)
      BY <1>5, <2>1 DEF Uses, Here
    <2>4. UsesDeadDecl(cpc)
      BY <1>1, <1>4, <1>5, <2>1, <2>2, <2>3, UnboundIsDead
    <2> QED BY <2>1, <2>4 DEF RefusalOK
  <1>6. ASSUME Walking, VarsOK, NEW v \in Vars
        PROVE  /\ v \in DOMAIN cvars => Declared(v, cpc)
               /\ v \in DOMAIN cvars => cvars[v].t = DeclType(TheDecl(v, cpc)) /\ cvars[v].m = prog[TheDecl(v, cpc)].m
    BY <1>1, <1>6, LookupFacts DEF AllWell, Info
  <1>7. CASE GenVarDecl
    <2>1. Generating({"decl"}) /\ AtStatement({"decl"})
      BY <1>7 DEF GenVarDecl, AtStatement
    <2>2. ~Declared(Here.v, cpc) /\ Here.t # "void" /\ HasType(Here.u, cpc, Here.t) /\ Here.v \in Vars
      BY <1>4, <2>1 DEF WellFormed
    <2>3. Here.v \notin DOMAIN cvars
      BY <1>4, <1>6, <2>1, <2>2
    <2>4. UndeclaredUse(Here.u)
      BY <1>3, <1>7, <2>2, <2>3 DEF GenVarDecl, mainVars
    <2> QED BY <1>5, <2>1, <2>2, <2>4 DEF HasType
  <1>8. CASE GenAssign
    <2>1. Generating({"assign"}) /\ AtStatement({"assign"})
      BY <1>8 DEF GenAssign, AtStatement
    <2>2. /\ Declared(Here.v, cpc) /\ prog[TheDecl(Here.v, cpc)].m /\ Here.v \in Vars
          /\ HasType(Here.u, cpc, DeclType(TheDecl(Here.v, cpc))) /\ Here.k = "assign"
      BY <1>4, <2>1 DEF WellFormed
    <2>3. CASE UndeclaredUse(Here.v)
      BY <1>5, <2>1, <2>2, <2>3
    <2>4. CASE UndeclaredUse(Here.u)
      BY <1>5, <2>1, <2>2, <2>4 DEF HasType
    <2>5. CASE Bound(Here.v) /\ ~cvars[Here.v].m
      BY <1>4, <1>6, <2>1, <2>2, <2>5 DEF Bound, Unbound
    <2> QED BY <1>3, <1>8, <2>3, <2>4, <2>5 DEF GenAssign, mainVars
  <1>9. CASE GenPartAssign
    <2>1. Generating({"part"}) /\ AtStatement({"part"})
      BY <1>9 DEF GenPartAssign, AtStatement
    <2>2. /\ HasType(Here.v, cpc, "agg") /\ HasType(Here.u, cpc, "int") /\ Here.v \in Vars /\ Here.k = "part"
      BY <1>4, <2>1 DEF WellFormed
    <2>3. Declared(Here.v, cpc) /\ DeclType(TheDecl(Here.v, cpc)) = "agg"
      BY <2>2 DEF HasType
    <2>4. CASE UndeclaredUse(Here.v)
      BY <1>5, <2>1, <2>2, <2>3, <2>4
    <2>5. CASE UndeclaredUse(Here.u)
      BY <1>5, <2>1, <2>2, <2>5 DEF HasType
    <2>6. CASE Bound(Here.v) /\ cvars[Here.v].t # "agg"
      BY <1>4, <1>6, <2>1, <2>2, <2>3, <2>6 DEF Bound, Unbound
    <2> QED BY <1>3, <1>9, <2>4, <2>5, <2>6 DEF GenPartAssign, mainVars
  <1>10. CASE GenExprStmt
    <2>1. Generating({"expr"}) /\ AtStatement({"expr"}) /\ UndeclaredUse(Here.u)
      BY <1>3, <1>10 DEF GenExprStmt, AtStatement, mainVars
    <2>2. Here.u \in Vars => Declared(Here.u, cpc)
      BY <1>4, <2>1 DEF WellFormed
    <2> QED BY <1>5, <2>1, <2>2
  <1>11. CASE GenReturn
    <2>1. Generating({"ret"}) /\ AtStatement({"ret"}) /\ UndeclaredUse(Here.u)
      BY <1>3, <1>11 DEF GenReturn, AtStatement, mainVars
    <2>2. Here.u # None => HasType(Here.u, cpc, prog[FunctionOf(cpc)].t)
      BY <1>4, <2>1 DEF WellFormed
    <2>3. Here.u \in Vars => Here.u # None
      BY ProgramAssumption
    <2> QED BY <1>5, <2>1, <2>2, <2>3 DEF HasType
  <1>12. CASE GenBreak \/ GenContinue
    <2>1. PICK k \in {"stop", "cont"} : Generating({k}) /\ AtStatement({k}) /\ loopStack = <<>>
      BY <1>3, <1>12 DEF GenBreak, GenContinue, Leave, AtStatement, mainVars
    <2>2. cpc \in Nodes /\ prog[cpc].k \in {"stop", "cont"} /\ LoopsAround(cpc) # {}
      BY <1>4, <2>1 DEF WellFormed
    <2>3. LoopsAround(cpc) = OpenLoops(prog, cpc)
      BY <1>1, <2>2, LoopsAreOpen
    <2>4. Stacked(loopStack, OpenLoops(prog, cpc))
      BY <1>1 DEF StackOK
    <2>5. PICK a : a \in OpenLoops(prog, cpc)
      BY <2>2, <2>3
    <2>6. \E j \in 1..Len(loopStack) : loopStack[j] = LoopInfo(a)
      BY <2>4, <2>5 DEF Stacked
    <2> QED BY <2>1, <2>6
  <1>13. CASE GenIf \/ GenLoop
    <2>1. PICK k \in {"if", "loop"} : Generating({k}) /\ AtStatement({k}) /\ UndeclaredUse(Here.u)
      BY <1>3, <1>13 DEF GenIf, GenLoop, AtStatement, mainVars
    <2>2. HasType(Here.u, cpc, "int")
      BY <1>4, <2>1 DEF WellFormed
    <2> QED BY <1>5, <2>1, <2>2 DEF HasType
  <1>14. CASE GenEndFunction
    <2>1. Generating({"endfn"}) /\ frames = <<>> /\ ~Verified(DefaultReturn, cfn) /\ GenThrow("CodegenFailure")
      BY <1>3, <1>14 DEF GenEndFunction, mainVars
    <2>2. ~(\A i \in Within(cfn) : ~ReturnsVoidValue(i))
      BY <1>4, <2>1, FunctionVerifies DEF AllWell
    <2> QED BY <1>2, <2>1, <2>2 DEF RefusalOK
  <1>15. ~(SkipRest \/ GenFunction \/ GenElse \/ GenEndIf \/ GenEndLoop \/ GenDone)
    BY <1>3 DEF SkipRest, GenFunction, GenElse, GenEndIf, GenEndLoop, GenDone, mainVars
  <1> QED BY <1>7, <1>8, <1>9, <1>10, <1>11, <1>12, <1>13, <1>14, <1>15 DEF GenNext

-----------------------------------------------------------------------------
(* Writes and slots *)

StoresOK == \A b, x : Holds(body, b, x) => WriteFits(x) /\ (x.k = "alloca" => b[2] = "entry")

(* Each step leaves them so.                                                *)
LEMMA GenerateStores ==
  ASSUME PlaceInv, UNCHANGED prog, AllWell, StoresOK, GenNext, phase' = "gen"
  PROVE  StoresOK'
  <1>1. /\ cpc \in Nodes /\ Grows /\ Here \in AnyNode /\ Here = prog[cpc] /\ WellFormed(cpc)
        /\ Here.k = "part" => Here.v \in Vars
    BY GenMoves, NodeDepths DEF PlaceInv, NestInv, FlowInv, TypeOK, ParserTypeOK, Nodes, Here, AllWell
  <1>2. \A x : WriteFits(x)' <=> WriteFits(x)
    <2>1. \A v, i : TheDecl(v, i)' = TheDecl(v, i)
      BY SameMeaning
    <2>2. \A j : DeclType(j)' = DeclType(j)
      BY DEF DeclType
    <2> QED BY <2>1, <2>2 DEF WriteFits
  <1>3. ASSUME NEW b, NEW x, <<b, x>> \in NewCode PROVE WriteFits(x)
    <2>1. x.at = cpc /\ prog[x.at] = Here
      BY <1>1, <1>3, CodeFacts
    <2>2. CASE x.k = "store"
      <3>1. Here.k \in {"fn", "decl", "assign"} /\ x.v = Here.v
        BY <1>1, <1>3, <2>2, CodeFacts
      <3>2. CASE Here.k = "assign"
        BY <1>1, <2>1, <2>2, <3>1, <3>2 DEF WellFormed, WriteFits
      <3> QED BY <2>1, <2>2, <3>1, <3>2 DEF WriteFits
    <2>3. CASE x.k = "pstore"
      <3>1. Here.k = "part" /\ x.v = Here.v
        BY <1>1, <1>3, <2>3, CodeFacts
      <3>2. HasType(Here.v, cpc, "agg") /\ Here.v \in Vars
        BY <1>1, <3>1 DEF WellFormed
      <3> QED BY <2>1, <2>3, <3>1, <3>2 DEF HasType, WriteFits
    <2> QED BY <2>2, <2>3 DEF WriteFits
  <1>4. ASSUME NEW b, NEW x, <<b, x>> \in NewCode, x.k = "alloca" PROVE b[2] = "entry"
    <2>1. b = IF Here.k = "fn" THEN <<cpc, "entry">> ELSE Entry
      BY <1>1, <1>4, CodeFacts
    <2> QED BY <2>1 DEF Entry
  <1>5. \A b, x : Holds(body', b, x) <=> Holds(body, b, x) \/ <<b, x>> \in NewCode
    <2>1. Adds(body, body', NewCode)
      BY <1>1 DEF Grows
    <2> QED BY <2>1 DEF Adds
  <1> QED BY <1>2, <1>3, <1>4, <1>5 DEF StoresOK

-----------------------------------------------------------------------------
(* The invariant *)

\* in the middle of the generator's walk
WalkingOK == /\ phase = "gen" => WaitOK /\ (cpc \in Nodes => LiveOK)
             /\ Walking => VarsOK /\ SlotsOK /\ RetsOK

\* of all that the walk is past
PassedOK == phase \in {"gen", "done"} => EmittedOK /\ VerdictOK /\ StoresOK

OutcomeOK == /\ phase = "done" => cpc > Len(prog)
             /\ err.stage = "gen" => phase = "failed" /\ RefusalOK(err)

AgreeInv == CheckInv /\ WalkingOK /\ PassedOK /\ OutcomeOK

(* When the generator starts nothing is lowered.                            *)
LEMMA WalkStarts ==
  ASSUME PlaceInv', phase' = "gen", cpc' = 1, frames' = <<>>, \A b, x : ~Holds(body', b, x)
  PROVE  WalkingOK' /\ PassedOK'
  <1>1. Len(frames') = 0 /\ Awaited(frames)' = {}
    BY EmptySeq DEF Awaited
  <1>2. WaitOK'
    BY <1>1 DEF WaitOK, Ordered
  <1>3. cpc' \in Nodes' => Here.k' = "fn"
    BY DEF PlaceInv, NestInv, FlowInv, TreeOK, Nodes, Here
  <1>4. ~Walking'
    BY <1>3 DEF Walking
  <1>5. \A i \in Nodes' : i \in Nat /\ ~(i < 1)
    BY DEF Nodes
  <1>6. cpc' \in Nodes' => LiveOK'
    BY <1>3, <1>5 DEF LiveOK, Ends, Statements, Simple
  <1>7. EmittedOK' /\ VerdictOK' /\ StoresOK'
    BY <1>4, <1>5 DEF EmittedOK, VerdictOK, StoresOK, SimpleAt
  <1> QED BY <1>2, <1>4, <1>6, <1>7 DEF WalkingOK, PassedOK

(* A tree that stays as it is has the same dead code and the same uses of   *)
(* it.                                                                      *)
LEMMA SameVerdicts ==
  ASSUME prog' = prog
  PROVE  /\ \A i : Dead(i)' <=> Dead(i)
         /\ \A i : UsesDeadDecl(i)' <=> UsesDeadDecl(i)
         /\ \A i : ReturnsVoidValue(i)' <=> ReturnsVoidValue(i)
         /\ \A f : Within(f)' = Within(f)
         /\ \A kinds : SimpleAt(kinds)' = SimpleAt(kinds)
         /\ \A x : WriteFits(x)' <=> WriteFits(x)
  <1>1. Nodes' = Nodes /\ \A i : Dead(i)' <=> Dead(i)
    BY DEF Dead, Ends, Nodes
  <1>2. \A v, i : TheDecl(v, i)' = TheDecl(v, i) /\ (Declared(v, i)' <=> Declared(v, i))
    BY SameMeaning
  <1>3. \A i : Uses(i)' = Uses(i)
    BY DEF Uses
  <1>4. ASSUME NEW i PROVE UsesDeadDecl(i)' <=> UsesDeadDecl(i)
    BY <1>1, <1>2, <1>3 DEF UsesDeadDecl
  <1>5. \A i : ReturnsVoidValue(i)' <=> ReturnsVoidValue(i)
    BY <1>1 DEF ReturnsVoidValue
  <1>6. \A f : Within(f)' = Within(f)
    <2>1. \A i : FunctionOf(i)' = FunctionOf(i)
      BY SameTree
    <2> QED BY <1>1, <2>1 DEF Within
  <1>7. \A kinds : SimpleAt(kinds)' = SimpleAt(kinds)
    BY <1>1 DEF SimpleAt
  <1>8. \A x : WriteFits(x)' <=> WriteFits(x)
    BY <1>2 DEF WriteFits, DeclType
  <1> QED BY <1>1, <1>4, <1>5, <1>6, <1>7, <1>8

(* What was passed stays so in a step that moves nothing.                   *)
LEMMA PassedStill ==
  ASSUME UNCHANGED <<prog, cpc, cfn, body>>, Walking' <=> Walking, EmittedOK, VerdictOK, StoresOK
  PROVE  EmittedOK' /\ VerdictOK' /\ StoresOK'
  <1>1. Nodes' = Nodes
    BY DEF Nodes
  <1>2. EmittedOK'
    <2>1. SimpleAt(Emitting)' = SimpleAt(Emitting) /\ \A i : Dead(i)' <=> Dead(i)
      BY SameVerdicts
    <2>2. cpc' = cpc /\ body' = body
      OBVIOUS
    <2> QED BY <1>1, <2>1, <2>2 DEF EmittedOK
  <1>3. VerdictOK'
    <2>1. \A i : /\ UsesDeadDecl(i)' <=> UsesDeadDecl(i)
                 /\ ReturnsVoidValue(i)' <=> ReturnsVoidValue(i)
      BY SameVerdicts
    <2>2. cpc' = cpc /\ cfn' = cfn
      OBVIOUS
    <2> QED BY <1>1, <2>1, <2>2 DEF VerdictOK
  <1>4. StoresOK'
    <2>1. \A x : WriteFits(x)' <=> WriteFits(x)
      BY SameVerdicts
    <2>2. body' = body
      OBVIOUS
    <2> QED BY <2>1, <2>2 DEF StoresOK
  <1> QED BY <1>2, <1>3, <1>4

(* The parser and the checker throw errors of their own.                    *)
LEMMA EarlierErrors ==
  ASSUME Parse \/ Check
  PROVE  err' = err \/ err'.stage \in {"parse", "check"}
  <1>1. CASE Parse
    <2>1. CASE ParseModule \/ ParseFails
      BY <2>1 DEF ParseModule, ParseFails, Throw
    <2>2. CASE ParseFunction \/ ParseEndFunction \/ ParseElse \/ ParseEndIf \/ ParseEndLoop
      BY <2>2 DEF ParseFunction, ParseEndFunction, ParseElse, ParseEndIf, ParseEndLoop, Closing, mainVars
    <2>3. CASE ParseVarDecl \/ ParseAssignOrExpr \/ ParseReturn \/ ParseBreak \/ ParseContinue
      BY <2>3 DEF ParseVarDecl, ParseAssignOrExpr, ParseReturn, ParseBreak, ParseContinue, Simply, mainVars
    <2>4. CASE ParseIf \/ ParseLoop
      BY <2>4 DEF ParseIf, ParseLoop, Opening, mainVars
    <2> QED BY <1>1, <2>1, <2>2, <2>3, <2>4 DEF Parse, ParserNext
  <1>2. CASE Check
    BY <1>2 DEF Check, CheckerNext, CheckFn, CheckVarDecl, CheckAssign, CheckPartAssign,
                CheckExpr, CheckReturn, CheckIf, CheckLoop, CheckEndLoop, CheckBreak,
                CheckContinue, CheckListEnd, CheckDone, Verdict, Throw, mainVars
  <1> QED BY <1>1, <1>2

(* Once the checker is done, the whole program is known to be well formed.  *)
LEMMA Accepted ==
  ASSUME CheckInv, phase \in {"gen", "done"}
  PROVE  AllWell
  <1>1. tpc > Len(prog) /\ \A i \in Nodes : i < tpc => WellFormed(i)
    BY DEF CheckInv, CheckOK
  <1>2. \A i \in Nodes : i \in Nat /\ i <= Len(prog)
    BY DEF Nodes
  <1>3. tpc \in Nat /\ Len(prog) \in Nat
    BY NodeDepths DEF CheckInv, BranchInv, PlaceInv, NestInv, FlowInv, TypeOK, CheckerTypeOK
  <1>4. \A i \in Nodes : i < tpc
    BY <1>1, <1>2, <1>3
  <1> QED BY <1>1, <1>4 DEF AllWell

(* Every step of the generator keeps the invariant.                         *)
LEMMA AgreeGenerate ==
  ASSUME AgreeInv, CheckInv', Generate
  PROVE  AgreeInv'
  <1>1. /\ PlaceInv /\ PlaceInv' /\ BranchInv /\ NodesOK /\ GenNext /\ UNCHANGED prog
        /\ phase = "gen" /\ phase' \in {"gen", "done", "failed"}
        /\ WaitOK /\ (cpc \in Nodes => LiveOK) /\ (Walking => VarsOK /\ SlotsOK /\ RetsOK)
        /\ EmittedOK /\ VerdictOK /\ StoresOK /\ err = NoError
    BY Stage DEF AgreeInv, CheckInv, CheckOK, BranchInv, WalkingOK, PassedOK, Generate, parserVars
  <1>2. AllWell
    BY <1>1, Accepted DEF AgreeInv
  <1>3. CASE phase' = "gen"
    <2>1. cpc \in Nodes /\ LiveOK
      BY <1>1, <1>3, GenMoves
    <2>2. WaitOK'
      BY <1>1, <1>3, GenerateWait
    <2>3. cpc' \in Nodes' => LiveOK'
      <3>1. Nodes' = Nodes
        BY <1>1 DEF Nodes
      <3> QED BY <1>1, <1>3, <2>2, <3>1, GenerateLive
    <2>4. Walking' => VarsOK' /\ SlotsOK' /\ RetsOK'
      BY <1>1, <1>3, <2>1, GenerateVars, GenerateSlots, GenerateRets
    <2>5. EmittedOK' /\ VerdictOK' /\ StoresOK'
      BY <1>1, <1>2, <1>3, <2>1, GenerateEmitted, GenerateVerdict, GenerateStores
    <2>6. err' = NoError
      BY <1>3 DEF CheckInv, CheckOK
    <2>7. OutcomeOK'
      BY <1>3, <2>6 DEF OutcomeOK, NoError
    <2> QED BY <2>2, <2>3, <2>4, <2>5, <2>7 DEF AgreeInv, WalkingOK, PassedOK
  <1>4. CASE phase' = "done"
    <2>1. UNCHANGED <<cpc, cfn, body>>
      BY <1>1, <1>4, StopsStill DEF genVars
    <2>2. cpc > Len(prog)
      <3>1. ~(phase' = phase)
        BY <1>1, <1>4
      <3>2. ASSUME NEW code, GenThrow(code) PROVE FALSE
        BY <1>4, <3>2 DEF GenThrow, Throw
      <3>3. GenDone
        BY <1>1, <3>1, <3>2 DEF GenNext, SkipRest, GenFunction, GenVarDecl, GenAssign, GenPartAssign,
             GenExprStmt, GenReturn, GenBreak, GenContinue, Leave, GenIf, GenLoop, GenElse, GenEndIf,
             GenEndLoop, GenEndFunction, UndeclaredUse, mainVars
      <3> QED BY <3>3 DEF GenDone
    <2>3. ~Walking /\ ~Walking'
      <3>1. \A i \in Nodes : i <= Len(prog) /\ i \in Nat
        BY DEF Nodes
      <3>2. Len(prog) \in Nat
        BY <1>1, NodeDepths DEF PlaceInv, NestInv, FlowInv
      <3>3. cpc \notin Nodes
        BY <2>2, <3>1, <3>2
      <3> QED BY <1>4, <3>3 DEF Walking
    <2>4. EmittedOK' /\ VerdictOK' /\ StoresOK'
      BY <1>1, <2>1, <2>3, PassedStill
    <2>5. err' = NoError
      BY <1>4 DEF CheckInv, CheckOK
    <2>6. OutcomeOK'
      BY <1>1, <2>1, <2>2, <2>5 DEF OutcomeOK, NoError
    <2> QED BY <1>4, <2>3, <2>4, <2>6 DEF AgreeInv, WalkingOK, PassedOK
  <1>5. CASE phase' = "failed"
    <2>1. UNCHANGED <<cpc, cfn>>
      BY <1>1, <1>5, StopsStill DEF genVars
    <2>2. RefusalOK(err')
      BY <1>1, <1>2, <1>5, GenerateRefuses
    <2>3. UsesDeadDecl(cpc)' <=> UsesDeadDecl(cpc)
      BY <1>1, <2>1, SameVerdicts
    <2>4. Within(cfn)' = Within(cfn) /\ \A i : ReturnsVoidValue(i)' <=> ReturnsVoidValue(i)
      BY <1>1, <2>1, SameVerdicts
    <2>5. RefusalOK(err)'
      BY <2>2, <2>3, <2>4 DEF RefusalOK
    <2> QED BY <1>5, <2>5 DEF AgreeInv, WalkingOK, PassedOK, OutcomeOK, Walking
  <1> QED BY <1>1, <1>3, <1>4, <1>5

(* So do the stages before it, and a compiler that has returned.            *)
LEMMA AgreeStep == AgreeInv /\ [Next]_vars => AgreeInv'
  <1> SUFFICES ASSUME AgreeInv, [Next]_vars PROVE AgreeInv'
    OBVIOUS
  <1>1. CheckInv /\ CheckInv' /\ PlaceInv /\ PlaceInv'
    BY CheckStep DEF AgreeInv, CheckInv, BranchInv
  <1>2. CASE Parse \/ Check
    <2>1. /\ phase \in {"parse", "check"} /\ phase' \in {"parse", "check", "gen", "failed"}
          /\ UNCHANGED genVars
      BY <1>2, Stage
    <2>2. err = NoError
      BY <1>1, <2>1 DEF CheckInv, CheckOK
    <2>3. err'.stage # "gen"
      BY <1>2, <2>2, EarlierErrors DEF NoError
    <2>4. CASE phase' # "gen"
      BY <1>1, <2>1, <2>3, <2>4 DEF AgreeInv, WalkingOK, PassedOK, OutcomeOK, Walking
    <2>5. CASE phase' = "gen"
      <3>1. cpc' = 1 /\ frames' = <<>> /\ body' = body
        BY <1>1, <2>1 DEF genVars, PlaceInv, PlaceOK, NestInv, StackOK
      <3>2. \A b, x : ~Holds(body', b, x)
        BY <1>1, <2>1, <3>1, NoCodeYet
      <3>3. WalkingOK' /\ PassedOK'
        BY <1>1, <2>5, <3>1, <3>2, WalkStarts
      <3> QED BY <1>1, <2>3, <2>5, <3>3 DEF AgreeInv, OutcomeOK
    <2> QED BY <2>4, <2>5
  <1>3. CASE Generate
    BY <1>1, <1>3, AgreeGenerate
  <1>4. CASE Finished \/ UNCHANGED vars
    <2>1. UNCHANGED vars
      BY <1>4 DEF Finished
    <2>2. UNCHANGED <<prog, phase, err, cpc, cfn, cvars, ins, body, frames>>
      BY <2>1 DEF vars
    <2>3. Nodes' = Nodes /\ Here' = Here /\ \A i : Dead(i)' <=> Dead(i)
      BY <2>2, SameVerdicts DEF Nodes, Here
    <2>4. Walking' <=> Walking
      BY <2>2, <2>3 DEF Walking
    <2>5. PassedOK'
      BY <2>2, <2>4, PassedStill DEF AgreeInv, PassedOK
    <2>6. WaitOK' <=> WaitOK
      BY <2>2 DEF WaitOK, Ordered, Awaited, Pending, Holds
    <2>7. LiveOK' <=> LiveOK
      BY <2>2, <2>3 DEF LiveOK, Ends, Terminated
    <2>8. (VarsOK' <=> VarsOK) /\ (SlotsOK' <=> SlotsOK) /\ (RetsOK' <=> RetsOK)
      <3>1. VarsOK' <=> VarsOK
        BY <2>2, <2>3 DEF VarsOK, LiveDecl, DeclAt, Info, DeclType
      <3>2. SlotsOK' <=> SlotsOK
        BY <2>2 DEF SlotsOK, Entry, Holds
      <3>3. RetsOK' <=> RetsOK
        <4>1. \A b, x : Holds(body', b, x) <=> Holds(body, b, x)
          BY <2>2
        <4>2. prog' = prog /\ cpc' = cpc /\ cfn' = cfn /\ \A x : Targets(x)' = Targets(x)
          BY <2>2 DEF Targets
        <4>3. \A b, x : ((x.k = "ret" => /\ x.at \in cfn..(cpc - 1) /\ prog[x.at].k = "ret"
                                         /\ x.u = prog[x.at].u /\ ~Dead(x.at))
                         /\ (\A t \in Targets(x) : t[1] >= cfn))'
                   <=> ((x.k = "ret" => /\ x.at \in cfn..(cpc - 1) /\ prog[x.at].k = "ret"
                                        /\ x.u = prog[x.at].u /\ ~Dead(x.at))
                         /\ (\A t \in Targets(x) : t[1] >= cfn))
          BY <2>3, <4>2
        <4> QED BY <2>3, <4>1, <4>2, <4>3 DEF RetsOK
      <3> QED BY <3>1, <3>2, <3>3
    <2>9. WalkingOK'
      BY <2>2, <2>3, <2>4, <2>6, <2>7, <2>8 DEF AgreeInv, WalkingOK
    <2>10. RefusalOK(err)' <=> RefusalOK(err)
      <3>1. UsesDeadDecl(cpc)' <=> UsesDeadDecl(cpc)
        BY <2>2, SameVerdicts
      <3>2. Within(cfn)' = Within(cfn) /\ \A i : ReturnsVoidValue(i)' <=> ReturnsVoidValue(i)
        BY <2>2, SameVerdicts
      <3> QED BY <2>2, <3>1, <3>2 DEF RefusalOK
    <2>11. OutcomeOK'
      BY <2>2, <2>10 DEF AgreeInv, OutcomeOK
    <2> QED BY <1>1, <2>5, <2>9, <2>11 DEF AgreeInv
  <1> QED BY <1>2, <1>3, <1>4 DEF Next

(* The inductive invariant holds throughout a compilation.                  *)
THEOREM AgreementCorrect == Spec => []AgreeInv
  <1>1. Init => AgreeInv
    <2> SUFFICES ASSUME Init PROVE AgreeInv
      OBVIOUS
    <2>1. CheckInv /\ phase = "parse" /\ err = NoError
      BY CheckInit DEF Init
    <2> QED BY <2>1 DEF AgreeInv, WalkingOK, PassedOK, OutcomeOK, Walking, NoError
  <1> QED BY <1>1, AgreeStep, PTL DEF Spec

(* In a finished module the walk is past every node.                        *)
LEMMA WalkOver ==
  ASSUME AgreeInv, phase = "done"
  PROVE  (\A i \in Nodes : i < cpc) /\ ~Walking
  <1>1. \A i \in Nodes : i \in Nat /\ i <= Len(prog)
    BY DEF Nodes
  <1>2. cpc > Len(prog) /\ cpc \in Nat /\ Len(prog) \in Nat
    BY NodeDepths
       DEF AgreeInv, OutcomeOK, CheckInv, BranchInv, PlaceInv, NestInv, FlowInv, TypeOK, GenTypeOK
  <1> QED BY <1>1, <1>2 DEF Walking

(* Just the dead code is left out of a finished module: whatever genStmtList *)
(* skips stands behind a stop, a cont or an r/ of its list or of one around *)
(* it, and every live statement that emits anything is there, for every     *)
(* program.                                                                 *)
THEOREM OnlyDeadCodeIsSkippedCorrect == Spec => []OnlyDeadCodeIsSkipped
  <1>1. ASSUME AgreeInv, phase = "done", NEW i \in SimpleAt(Emitting) PROVE i \in Emitted <=> ~Dead(i)
    <2>1. i \in Nodes /\ i < cpc
      BY <1>1, WalkOver DEF SimpleAt
    <2>2. (\E b, x : Holds(body, b, x) /\ x.at = i) <=> ~Dead(i)
      BY <1>1, <2>1 DEF AgreeInv, PassedOK, EmittedOK
    <2>3. i \in Emitted <=> \E b, x : Holds(body, b, x) /\ x.at = i
      BY DEF Emitted, Holds
    <2> QED BY <2>2, <2>3
  <1>2. AgreeInv => OnlyDeadCodeIsSkipped
    BY <1>1 DEF OnlyDeadCodeIsSkipped, Emitting
  <1> QED BY <1>2, AgreementCorrect, PTL

(* At every live node of a function vars_ of the generator holds what the   *)
(* tree declares in front of it and no declaration that is dead code, with  *)
(* the types and the mutability the checker saw.                            *)
THEOREM TablesAgreeCorrect == Spec => []TablesAgree
  <1>1. ASSUME AgreeInv, Walking
        PROVE  /\ DOMAIN cvars = {v \in Vars : Declared(v, cpc) /\ ~Dead(TheDecl(v, cpc))}
               /\ \A v \in DOMAIN cvars :
                    cvars[v] = [t |-> DeclType(TheDecl(v, cpc)), m |-> prog[TheDecl(v, cpc)].m]
    <2>1. /\ PlaceInv /\ VarsOK /\ CheckInv /\ phase = "gen" /\ DOMAIN cvars \subseteq Vars
      BY <1>1 DEF AgreeInv, WalkingOK, CheckInv, BranchInv, Walking, PlaceInv, NestInv, FlowInv,
                  TypeOK, GenTypeOK
    <2>2. AllWell
      BY <2>1, Accepted
    <2> QED BY <1>1, <2>1, <2>2, LookupFacts DEF AllWell, Info
  <1>2. AgreeInv => TablesAgree
    BY <1>1 DEF TablesAgree, Walking, Here
  <1> QED BY <1>2, AgreementCorrect, PTL

(* Whatever the checker accepts is lowered, but for the live uses of a      *)
(* variable with a dead declaration and the r/ of a void value, and each of *)
(* those is refused: the two passes differ nowhere else, for every program. *)
THEOREM GeneratorVerdictCorrect == Spec => []GeneratorVerdict
  <1>1. ASSUME AgreeInv, phase = "done", NEW i \in Nodes PROVE ~UsesDeadDecl(i) /\ ~ReturnsVoidValue(i)
    BY <1>1, WalkOver DEF AgreeInv, PassedOK, VerdictOK
  <1>2. AgreeInv => GeneratorVerdict
    BY <1>1 DEF GeneratorVerdict, AgreeInv, OutcomeOK, RefusalOK
  <1> QED BY <1>2, AgreementCorrect, PTL

(* In every finished module each write to the slot of a variable is one     *)
(* that its source names: whole by the declaration, or by assignments to a  *)
(* `mut` variable; in a part by an assignment to a part, whatever the       *)
(* declaration says.  A `let` or a parameter without parts is written once. *)
THEOREM WritesAsDeclaredCorrect == Spec => []WritesAsDeclared
  <1>1. AgreeInv => WritesAsDeclared
    BY DEF AgreeInv, PassedOK, StoresOK, Holds, WritesAsDeclared
  <1> QED BY <1>1, AgreementCorrect, PTL
=============================================================================
