----------------------------- MODULE ExecutionProofs -----------------------------
(***************************************************************************)
(* The module the compiler makes runs as the source says, for every        *)
(* program: the machine of Execution refines SourceRun, and never lacks an *)
(* instruction to run.                                                     *)
(*                                                                         *)
(* The argument is about where the blocks stand in the tree.  Every block  *)
(* begins at a node (BeginsAt), each instruction of it does its part of    *)
(* the node that emitted it (Shape), and goes on at the node behind        *)
(* (Chained), so that the branches, which the activations aim at the nodes *)
(* where the tree says the run goes on, are all that is left to follow.    *)
(***************************************************************************)
EXTENDS StorageProofs, Execution, WellFoundedInduction

-----------------------------------------------------------------------------
(* Lists in the tree *)

\* node j ends the list that node a opens
Closes(a, j) == j \in Nodes /\ Opens(prog, a, j) /\ prog[j].d = prog[a].d

\* node i is a literal as a statement, which leaves no instruction
Idle(i) == prog[i].k = "expr" /\ prog[i].u = "lit"

\* from node p on the run gets to node q without doing anything
Reaches(p, q) == p <= q /\ \A k \in p..(q - 1) : Idle(k)

(* A list has one end.                                                      *)
LEMMA ClosesOnce ==
  ASSUME TypeOK, NEW a, NEW i, NEW j, Closes(a, i), Closes(a, j)
  PROVE  i = j
  <1>1. /\ i \in Nat /\ j \in Nat /\ a \in 1..Len(prog) /\ a < i /\ a < j /\ a \in Nat
        /\ prog[a].d \in Nat /\ prog[i].d = prog[a].d /\ prog[j].d = prog[a].d
    BY NodeDepths DEF Closes, Opens, Nodes
  <1>2. CASE i < j
    <2>1. i \in (a + 1)..(j - 1)
      BY <1>1, <1>2
    <2> QED BY <1>1, <2>1 DEF Closes, Opens
  <1>3. CASE j < i
    <2>1. j \in (a + 1)..(i - 1)
      BY <1>1, <1>3
    <2> QED BY <1>1, <2>1 DEF Closes, Opens
  <1> QED BY <1>1, <1>2, <1>3

(* Two lists do not end at the same node.                                   *)
LEMMA ClosedOnce ==
  ASSUME TypeOK, NEW a, NEW b, NEW j, Closes(a, j), Closes(b, j)
  PROVE  a = b
  <1>1. /\ j \in Nat /\ a \in 1..Len(prog) /\ b \in 1..Len(prog) /\ a \in Nat /\ b \in Nat
        /\ Opens(prog, a, j) /\ Opens(prog, b, j) /\ prog[a].d = prog[b].d /\ prog[a].d \in Nat
    BY NodeDepths DEF Closes, Opens, Nodes
  <1>2. a < b => prog[a].d < prog[b].d
    BY <1>1, OpensDeeper
  <1>3. b < a => prog[b].d < prog[a].d
    BY <1>1, OpensDeeper
  <1> QED BY <1>1, <1>2, <1>3

(* In a tree that is complete every list but that of a function has an end. *)
LEMMA ListCloses ==
  ASSUME TypeOK, TreeOK, open = <<>>, NEW a \in Nodes, prog[a].k \in {"if", "else", "loop"}
  PROVE  \E j \in Nodes : Closes(a, j)
  <1> DEFINE S == {j \in (a + 1)..Len(prog) : prog[j].d <= prog[a].d}
             n == Len(prog)
  <1>1. /\ n \in Nat /\ a \in 1..n /\ a \in Nat /\ a <= n /\ n \in 1..n
        /\ \A j \in 1..n : prog[j].d \in Nat
    BY NodeDepths DEF Nodes
  <1>2. Inner(prog[n]) = 0
    <2>1. Len(open) = 0 /\ prog # <<>>
      BY <1>1, EmptySeq DEF TypeOK, ParserTypeOK
    <2> QED BY <2>1 DEF TreeOK
  <1>3. prog[n].d = 0 /\ prog[n].k \notin Openers
    BY <1>1, <1>2 DEF Inner
  <1>4. a # n /\ n \in S
    BY <1>1, <1>3 DEF Openers
  <1> HIDE DEF n
  <1>5. S \in SUBSET Nat
    BY <1>1 DEF n
  <1>6. PICK j \in S : \A k \in S : j <= k
    <2>1. PICK j \in S : \A k \in S : ~(<<k, j>> \in OpToRel(<, Nat))
      BY <1>4, <1>5, NatLessThanWellFounded, WFMin
    <2>2. \A k \in S : ~(k < j)
      BY <1>5, <2>1 DEF OpToRel
    <2>3. j \in Nat /\ \A k \in S : k \in Nat
      BY <1>5
    <2> QED BY <2>2, <2>3
  <1>7. j \in (a + 1)..n /\ j \in 1..n /\ prog[j].d <= prog[a].d /\ a < j
    BY <1>1, <1>6 DEF n
  <1>8. Opens(prog, a, j)
    <2>1. ASSUME NEW k \in (a + 1)..(j - 1) PROVE prog[k].d > prog[a].d
      <3>1. k \notin S /\ k \in (a + 1)..n /\ k \in 1..n
        BY <1>1, <1>6, <1>7
      <3> QED BY <1>1, <3>1 DEF n
    <2> QED BY <1>1, <1>7, <2>1 DEF Opens, Openers, n
  <1>9. Level(prog[j]) >= prog[a].d + 1
    BY <1>7, <1>8, OpensBelow DEF n
  <1>10. prog[j].d = prog[a].d
    BY <1>1, <1>7, <1>9 DEF Level
  <1> QED BY <1>7, <1>8, <1>10 DEF Closes, Nodes, n

(* Where the run gets to from a node.                                       *)
LEMMA ReachFacts ==
  ASSUME NEW p \in Nat
  PROVE  /\ Reaches(p, p)
         /\ \A q \in Nat : Reaches(p, q) /\ Idle(q) => Reaches(p, q + 1)
         /\ \A q \in Nat : Reaches(p, q) /\ ~Idle(p) => q = p
  <1>1. Reaches(p, p)
    BY DEF Reaches
  <1>2. ASSUME NEW q \in Nat, Reaches(p, q), Idle(q) PROVE Reaches(p, q + 1)
    <2>1. \A k \in p..(q + 1 - 1) : k = q \/ k \in p..(q - 1)
      OBVIOUS
    <2> QED BY <1>2, <2>1 DEF Reaches
  <1>3. ASSUME NEW q \in Nat, Reaches(p, q), ~Idle(p) PROVE q = p
    <2>1. p < q => p \in p..(q - 1)
      OBVIOUS
    <2> QED BY <1>3, <2>1 DEF Reaches
  <1> QED BY <1>1, <1>2, <1>3

-----------------------------------------------------------------------------
(* Where blocks begin and how their instructions follow each other *)

\* block b takes the run up at node p: the header of a function with a
\* parameter stores it
BeginsAt(b, p) ==
  /\ b[2] = "entry" => p = IF prog[b[1]].v = None THEN b[1] + 1 ELSE b[1]
  /\ b[2] \in {"then", "body"} => p = b[1] + 1
  /\ b[2] = "cond" => p = b[1]
  /\ b[2] \in {"else", "after"} => \E e \in Nodes : Closes(b[1], e) /\ p = e + 1
  /\ b[2] = "merge" => \E e, f \in Nodes : Closes(b[1], e) /\ Closes(e, f) /\ p = f + 1

Starts(b, q) == \E p \in Nat : BeginsAt(b, p) /\ Reaches(p, q)

\* the operands that take an instruction to evaluate
Computed == Vars \cup {"void", "agg", "input"}

\* y needs no instruction in front of it
Alone(y) == y.k \in {"load", "call"} \/ y.u \notin Computed

\* x evaluates the operand of a statement that has still to use it
Operates(x) == x.k \in {"load", "call"} /\ prog[x.at].k # "expr"

\* y may come next behind x in a block
Follows(x, y) ==
  IF Operates(x) THEN y.at = x.at /\ y.u = prog[x.at].u /\ y.k \notin {"load", "call"}
  ELSE Reaches(x.at + 1, y.at) /\ Alone(y)

\* nothing but slots
Bare(s) == s = <<>> \/ Last(s).k = "alloca"

\* y may be appended to the instructions s of block b
MayFollow(b, s, y) == IF Bare(s) THEN Starts(b, y.at) /\ Alone(y) ELSE Follows(Last(s), y)

\* behind the instructions s of block b the run is at node p
Leads(b, s, p) == IF Bare(s) THEN Starts(b, p)
                  ELSE ~Operates(Last(s)) /\ Reaches(Last(s).at + 1, p)

\* slots, and then one instruction behind the other from where b begins
Chained(b, s) ==
  \E n \in 0..Len(s) :
    /\ \A i \in 1..n : s[i].k = "alloca"
    /\ \A i \in (n + 1)..Len(s) :
         /\ s[i].k # "alloca"
         /\ i = n + 1 => Starts(b, s[i].at) /\ Alone(s[i])
         /\ i # n + 1 => Follows(s[i - 1], s[i])

Laid(bd) == \A b \in DOMAIN bd : Chained(b, bd[b])

\* the two are the same to what comes behind
SameEnd(s, t) == (Bare(s) <=> Bare(t)) /\ (Bare(s) \/ Last(s) = Last(t))

(* No instructions yet.                                                     *)
LEMMA ChainStarts ==
  ASSUME NEW b
  PROVE  Chained(b, <<>>) /\ Bare(<<>>)
  <1>1. Len(<<>>) = 0 /\ 0 \in 0..0 /\ 1..0 = {} /\ (0 + 1)..0 = {}
    OBVIOUS
  <1> QED BY <1>1 DEF Chained, Bare

(* The last of some instructions and one more.                              *)
LEMMA LastBehind ==
  ASSUME NEW s \in Seq(Instr), NEW x \in Instr
  PROVE  /\ s \o <<x>> \in Seq(Instr) /\ s \o <<x>> # <<>> /\ Last(s \o <<x>>) = x
         /\ Len(s \o <<x>>) = Len(s) + 1 /\ (s \o <<x>>)[Len(s) + 1] = x
         /\ \A i \in 1..Len(s) : (s \o <<x>>)[i] = s[i]
  <1>1. PICK n \in Nat : n = Len(s)
    BY LenProperties
  <1>2. PICK t : t = s \o <<x>>
    OBVIOUS
  <1>3. Len(<<x>>) = 1 /\ <<x>> \in Seq(Instr) /\ <<x>>[1] = x
    OBVIOUS
  <1>4. /\ t \in Seq(Instr) /\ Len(t) = n + 1
        /\ \A i \in 1..(n + 1) : t[i] = IF i <= n THEN s[i] ELSE <<x>>[i - n]
    BY <1>1, <1>2, <1>3, ConcatProperties
  <1>5. t[n + 1] = x /\ \A i \in 1..n : t[i] = s[i]
    BY <1>3, <1>4
  <1>6. t # <<>> /\ Last(t) = x
    BY <1>4, <1>5, EmptySeq DEF Last
  <1> QED BY <1>1, <1>2, <1>4, <1>5, <1>6

(* One more instruction behind the others.                                  *)
LEMMA ChainBehind ==
  ASSUME NEW b, NEW s \in Seq(Instr), NEW x \in Instr, x.k # "alloca",
         Chained(b, s), MayFollow(b, s, x)
  PROVE  Chained(b, s \o <<x>>)
  <1>1. PICK l \in Nat : l = Len(s)
    BY LenProperties
  <1>2. PICK t : t = s \o <<x>>
    OBVIOUS
  <1>3. Len(t) = l + 1 /\ t[l + 1] = x /\ \A i \in 1..l : t[i] = s[i]
    BY <1>1, <1>2, LastBehind
  <1>4. PICK n \in 0..l :
          /\ \A i \in 1..n : s[i].k = "alloca"
          /\ \A i \in (n + 1)..l :
               /\ s[i].k # "alloca"
               /\ i = n + 1 => Starts(b, s[i].at) /\ Alone(s[i])
               /\ i # n + 1 => Follows(s[i - 1], s[i])
    BY <1>1 DEF Chained
  <1>5. n \in 0..(l + 1) /\ \A i \in 1..n : t[i].k = "alloca"
    BY <1>3, <1>4
  <1>6. ASSUME NEW i \in (n + 1)..l
        PROVE  /\ t[i].k # "alloca"
               /\ i = n + 1 => Starts(b, t[i].at) /\ Alone(t[i])
               /\ i # n + 1 => Follows(t[i - 1], t[i])
    <2>1. i \in 1..l /\ (i # n + 1 => i - 1 \in 1..l)
      BY <1>4
    <2> QED BY <1>3, <1>4, <2>1
  <1>7. n = l => Bare(s)
    <2>1. CASE l = 0
      BY <1>1, <2>1, EmptySeq DEF Bare
    <2>2. CASE l # 0 /\ n = l
      <3>1. l \in 1..n
        BY <2>2
      <3> QED BY <1>1, <1>4, <3>1 DEF Bare, Last
    <2> QED BY <2>1, <2>2
  <1>8. n # l => ~Bare(s) /\ Last(s) = s[l] /\ l \in 1..l
    <2> SUFFICES ASSUME n # l PROVE ~Bare(s) /\ Last(s) = s[l] /\ l \in 1..l
      OBVIOUS
    <2>1. l \in (n + 1)..l /\ l \in 1..l /\ l # 0
      BY <1>4
    <2>2. s[l].k # "alloca" /\ Last(s) = s[l] /\ s # <<>>
      BY <1>1, <1>4, <2>1, EmptySeq DEF Last
    <2> QED BY <2>1, <2>2 DEF Bare
  <1>9. /\ l + 1 = n + 1 => Starts(b, x.at) /\ Alone(x)
        /\ l + 1 # n + 1 => Follows(t[l + 1 - 1], x)
    <2>1. CASE n = l
      BY <1>7, <2>1 DEF MayFollow
    <2>2. CASE n # l
      <3>1. t[l + 1 - 1] = s[l] /\ l + 1 # n + 1
        BY <1>3, <1>4, <1>8, <2>2
      <3> QED BY <1>8, <2>2, <3>1 DEF MayFollow
    <2> QED BY <2>1, <2>2
  <1>10. \A i \in (n + 1)..(l + 1) : i = l + 1 \/ i \in (n + 1)..l
    BY <1>4
  <1>11. ASSUME NEW i \in (n + 1)..(l + 1)
        PROVE  /\ t[i].k # "alloca"
               /\ i = n + 1 => Starts(b, t[i].at) /\ Alone(t[i])
               /\ i # n + 1 => Follows(t[i - 1], t[i])
    <2>1. CASE i = l + 1
      BY <1>3, <1>9, <2>1
    <2>2. CASE i \in (n + 1)..l
      BY <1>6, <2>2
    <2> QED BY <1>10, <2>1, <2>2
  <1>12. Chained(b, t)
    BY <1>3, <1>5, <1>11 DEF Chained
  <1> QED BY <1>2, <1>12

(* A slot in front of the others.                                           *)
LEMMA ChainInFront ==
  ASSUME NEW b, NEW s \in Seq(Instr), NEW x \in Instr, x.k = "alloca", Chained(b, s)
  PROVE  Chained(b, <<x>> \o s) /\ SameEnd(s, <<x>> \o s)
  <1>1. PICK l \in Nat : l = Len(s)
    BY LenProperties
  <1>2. PICK t : t = <<x>> \o s
    OBVIOUS
  <1>3. Len(t) = 1 + l /\ t[1] = x /\ (\A i \in 1..l : t[1 + i] = s[i])
    <2>1. Len(<<x>>) = 1 /\ <<x>> \in Seq(Instr) /\ <<x>>[1] = x
      OBVIOUS
    <2>2. Len(t) = 1 + l /\ \A i \in 1..(1 + l) : t[i] = IF i <= 1 THEN <<x>>[i] ELSE s[i - 1]
      BY <1>1, <1>2, <2>1, ConcatProperties
    <2> QED BY <2>1, <2>2
  <1>4. PICK n \in 0..l :
          /\ \A i \in 1..n : s[i].k = "alloca"
          /\ \A i \in (n + 1)..l :
               /\ s[i].k # "alloca"
               /\ i = n + 1 => Starts(b, s[i].at) /\ Alone(s[i])
               /\ i # n + 1 => Follows(s[i - 1], s[i])
    BY <1>1 DEF Chained
  <1>5. \A i \in 1..(n + 1) : i = 1 \/ (i - 1 \in 1..n /\ i - 1 \in 1..l /\ 1 + (i - 1) = i)
    BY <1>4
  <1>6. n + 1 \in 0..(1 + l) /\ \A i \in 1..(n + 1) : t[i].k = "alloca"
    <2>1. ASSUME NEW i \in 1..(n + 1) PROVE t[i].k = "alloca"
      <3>1. CASE i = 1
        BY <1>3, <3>1
      <3>2. CASE i # 1
        <4>1. PICK j \in 1..n : j \in 1..l /\ 1 + j = i
          BY <1>5, <3>2
        <4> QED BY <1>3, <1>4, <4>1
      <3> QED BY <3>1, <3>2
    <2> QED BY <1>4, <2>1
  <1>7. ASSUME NEW i \in (n + 1 + 1)..(1 + l)
        PROVE  /\ t[i].k # "alloca"
               /\ i = n + 1 + 1 => Starts(b, t[i].at) /\ Alone(t[i])
               /\ i # n + 1 + 1 => Follows(t[i - 1], t[i])
    <2>1. PICK j \in (n + 1)..l : i = 1 + j
      BY <1>4
    <2>2. j \in 1..l /\ (j # n + 1 => j - 1 \in 1..l /\ i - 1 = 1 + (j - 1)) /\ (i = n + 1 + 1 <=> j = n + 1)
      BY <1>4, <2>1
    <2> QED BY <1>3, <1>4, <2>1, <2>2
  <1>8. Chained(b, t)
    BY <1>3, <1>6, <1>7 DEF Chained
  <1>9. SameEnd(s, t)
    <2>1. Last(t) = t[1 + l] /\ t # <<>>
      BY <1>3, EmptySeq DEF Last
    <2>2. CASE l = 0
      <3>1. s = <<>>
        BY <1>1, <2>2, EmptySeq
      <3>2. 1 + l = 1
        BY <2>2
      <3>3. Last(t) = x
        BY <1>3, <2>1, <3>2
      <3> QED BY <2>1, <3>1, <3>3 DEF SameEnd, Bare
    <2>3. CASE l # 0
      <3>1. Last(s) = s[l] /\ l \in 1..l /\ s # <<>>
        BY <1>1, <2>3, EmptySeq DEF Last
      <3> QED BY <1>3, <2>1, <3>1 DEF SameEnd, Bare
    <2> QED BY <2>2, <2>3
  <1> QED BY <1>2, <1>8, <1>9

(* What comes behind depends on the last instruction only.                  *)
LEMMA SameEndFacts ==
  ASSUME NEW s, NEW t, SameEnd(s, t), NEW b
  PROVE  /\ \A p : Leads(b, s, p) => Leads(b, t, p)
         /\ \A y : MayFollow(b, s, y) => MayFollow(b, t, y)
  BY DEF SameEnd, Leads, MayFollow

(* Where the run gets to a node, what starts it may be appended.            *)
LEMMA LeadsOn ==
  ASSUME NEW b, NEW s, NEW y, Leads(b, s, y.at), Alone(y)
  PROVE  MayFollow(b, s, y)
  BY DEF Leads, MayFollow, Follows

-----------------------------------------------------------------------------
(* The operations of the builder keep the blocks so *)

(* Appending an instruction that may follow.                                *)
LEMMA EmitLaid ==
  ASSUME NEW bd, Bodies(bd), Laid(bd), NEW b \in DOMAIN bd, NEW x \in Instr, x.k # "alloca",
         MayFollow(b, bd[b], x)
  PROVE  /\ Laid(Emit(bd, b, <<x>>)) /\ Bodies(Emit(bd, b, <<x>>))
         /\ DOMAIN Emit(bd, b, <<x>>) = DOMAIN bd
         /\ ~Bare(Emit(bd, b, <<x>>)[b]) /\ Last(Emit(bd, b, <<x>>)[b]) = x
         /\ \A c \in DOMAIN bd : c # b => Emit(bd, b, <<x>>)[c] = bd[c]
  <1> DEFINE e == Emit(bd, b, <<x>>)
  <1>1. /\ DOMAIN e = DOMAIN bd /\ e[b] = bd[b] \o <<x>>
        /\ \A c \in DOMAIN bd : c # b => e[c] = bd[c]
    BY DEF Emit
  <1> HIDE DEF e
  <1>2. \A c \in DOMAIN bd : bd[c] \in Seq(Instr) /\ c \in Block /\ Chained(c, bd[c])
    BY DEF Bodies, Laid
  <1>3. e[b] \in Seq(Instr) /\ e[b] # <<>> /\ Last(e[b]) = x
    BY <1>1, <1>2, LastBehind
  <1>4. Chained(b, e[b])
    BY <1>1, <1>2, ChainBehind
  <1>5. Bodies(e)
    BY <1>1, <1>2, <1>3 DEF Bodies
  <1>6. Laid(e)
    BY <1>1, <1>2, <1>4 DEF Laid
  <1>7. ~Bare(e[b])
    BY <1>3 DEF Bare
  <1> QED BY <1>1, <1>3, <1>5, <1>6, <1>7 DEF e

(* createAlloca.                                                            *)
LEMMA AddSlotLaid ==
  ASSUME NEW bd, Bodies(bd), Laid(bd), Entry \in DOMAIN bd, cpc \in Nat, NEW v \in Vars \cup {None}
  PROVE  /\ Laid(AddSlot(bd, v)) /\ Bodies(AddSlot(bd, v)) /\ DOMAIN AddSlot(bd, v) = DOMAIN bd
         /\ \A c \in DOMAIN bd : SameEnd(bd[c], AddSlot(bd, v)[c])
  <1> DEFINE e == AddSlot(bd, v)
             x == Alloca(v)
             b == Entry
  <1>1. /\ DOMAIN e = DOMAIN bd /\ e[b] = <<x>> \o bd[b]
        /\ \A c \in DOMAIN bd : c # b => e[c] = bd[c]
    BY DEF AddSlot
  <1>2. x \in Instr /\ x.k = "alloca" /\ b \in DOMAIN bd
    BY DEF Alloca, I, Instr, InstrKind
  <1>3. Bodies(e)
    BY AddSlotType
  <1> HIDE DEF e, x, b
  <1>4. \A c \in DOMAIN bd : bd[c] \in Seq(Instr) /\ Chained(c, bd[c]) /\ SameEnd(bd[c], bd[c])
    BY DEF Bodies, Laid, SameEnd
  <1>5. Chained(b, e[b]) /\ SameEnd(bd[b], e[b])
    BY <1>1, <1>2, <1>4, ChainInFront
  <1>6. Laid(e)
    BY <1>1, <1>4, <1>5 DEF Laid
  <1>7. \A c \in DOMAIN bd : SameEnd(bd[c], e[c])
    BY <1>1, <1>4, <1>5
  <1> QED BY <1>1, <1>3, <1>6, <1>7 DEF e

(* genExpr, of the operand of the node at hand.                             *)
LEMMA GenExprLaid ==
  ASSUME NEW bd, Bodies(bd), Laid(bd), Entry \in DOMAIN bd, NEW b \in DOMAIN bd, cpc \in Nat,
         NEW u \in Operand \cup {None}, Leads(b, bd[b], cpc)
  PROVE  /\ Laid(GenExpr(bd, b, u)) /\ Bodies(GenExpr(bd, b, u))
         /\ DOMAIN GenExpr(bd, b, u) = DOMAIN bd
         /\ \A c \in DOMAIN bd : c # b => SameEnd(bd[c], GenExpr(bd, b, u)[c])
         /\ u \in Computed => /\ ~Bare(GenExpr(bd, b, u)[b])
                              /\ Last(GenExpr(bd, b, u)[b]).at = cpc
                              /\ Last(GenExpr(bd, b, u)[b]).k \in {"load", "call"}
         /\ u \notin Computed => GenExpr(bd, b, u) = bd
  <1>1. u \in Vars => u \notin {"void", "agg", "input", "lit", None}
    BY ProgramAssumption DEF Literals
  <1>2. Call(u) \in Instr /\ Call(u).k = "call" /\ Call(u).at = cpc
    BY DEF Call, I, Instr, InstrKind
  <1>3. \A c \in DOMAIN bd : SameEnd(bd[c], bd[c])
    BY DEF SameEnd
  <1>4. CASE u \in Vars
    <2>1. Load(u) \in Instr /\ Load(u).k = "load" /\ Load(u).at = cpc
      BY <1>4 DEF Load, I, Instr, InstrKind
    <2>2. GenExpr(bd, b, u) = Emit(bd, b, <<Load(u)>>)
      BY <1>1, <1>4 DEF GenExpr
    <2>3. MayFollow(b, bd[b], Load(u))
      BY <2>1, LeadsOn DEF Alone
    <2> PICK x \in Instr : x = Load(u)
      BY <2>1
    <2>4. /\ Laid(Emit(bd, b, <<x>>)) /\ Bodies(Emit(bd, b, <<x>>))
          /\ DOMAIN Emit(bd, b, <<x>>) = DOMAIN bd
          /\ ~Bare(Emit(bd, b, <<x>>)[b]) /\ Last(Emit(bd, b, <<x>>)[b]) = x
          /\ \A c \in DOMAIN bd : c # b => Emit(bd, b, <<x>>)[c] = bd[c]
      BY <2>1, <2>3, EmitLaid
    <2> QED BY <1>3, <1>4, <2>1, <2>2, <2>4 DEF Computed
  <1>5. CASE u = "void"
    <2>1. GenExpr(bd, b, u) = Emit(bd, b, <<Call(u)>>)
      BY <1>5, ProgramAssumption DEF GenExpr, Literals
    <2>2. MayFollow(b, bd[b], Call(u))
      BY <1>2, LeadsOn DEF Alone
    <2> PICK x \in Instr : x = Call(u)
      BY <1>2
    <2>3. /\ Laid(Emit(bd, b, <<x>>)) /\ Bodies(Emit(bd, b, <<x>>))
          /\ DOMAIN Emit(bd, b, <<x>>) = DOMAIN bd
          /\ ~Bare(Emit(bd, b, <<x>>)[b]) /\ Last(Emit(bd, b, <<x>>)[b]) = x
          /\ \A c \in DOMAIN bd : c # b => Emit(bd, b, <<x>>)[c] = bd[c]
      BY <1>2, <2>2, EmitLaid
    <2> QED BY <1>2, <1>3, <1>5, <2>1, <2>3 DEF Computed
  <1>6. CASE u \in {"agg", "input"}
    <2> DEFINE e == AddSlot(bd, None)
    <2>1. GenExpr(bd, b, u) = Emit(e, b, <<Call(u)>>)
      BY <1>6, ProgramAssumption DEF GenExpr, Literals
    <2>2. /\ Laid(e) /\ Bodies(e) /\ DOMAIN e = DOMAIN bd
          /\ \A c \in DOMAIN bd : SameEnd(bd[c], e[c])
      BY AddSlotLaid
    <2> HIDE DEF e
    <2>3. Leads(b, e[b], cpc)
      BY <2>2, SameEndFacts
    <2>4. MayFollow(b, e[b], Call(u))
      BY <1>2, <2>3, LeadsOn DEF Alone
    <2> PICK x \in Instr : x = Call(u)
      BY <1>2
    <2>5. /\ Laid(Emit(e, b, <<x>>)) /\ Bodies(Emit(e, b, <<x>>))
          /\ DOMAIN Emit(e, b, <<x>>) = DOMAIN e
          /\ ~Bare(Emit(e, b, <<x>>)[b]) /\ Last(Emit(e, b, <<x>>)[b]) = x
          /\ \A c \in DOMAIN e : c # b => Emit(e, b, <<x>>)[c] = e[c]
      BY <1>2, <2>2, <2>4, EmitLaid
    <2> QED BY <1>2, <1>6, <2>1, <2>2, <2>5 DEF Computed
  <1>7. CASE u \in {"lit", None}
    <2>1. GenExpr(bd, b, u) = bd
      BY <1>1, <1>7, ProgramAssumption DEF GenExpr, Literals
    <2>2. u \notin Computed
      BY <1>1, <1>7, ProgramAssumption DEF Computed, Literals
    <2> QED BY <1>3, <2>1, <2>2
  <1> QED BY <1>4, <1>5, <1>6, <1>7 DEF Operand, Literals

(* What uses the operand may follow it.                                     *)
LEMMA UseFollows ==
  ASSUME NEW b, NEW s, NEW t, Leads(b, s, cpc), NEW u, u = Here.u, Here.k # "expr",
         u \in Computed => ~Bare(t) /\ Last(t).at = cpc /\ Last(t).k \in {"load", "call"},
         u \notin Computed => t = s,
         NEW x, x.at = cpc, x.u = u, x.k \notin {"load", "call"}
  PROVE  MayFollow(b, t, x)
  <1>1. CASE u \in Computed
    <2>1. Operates(Last(t)) /\ Last(t).at = cpc /\ prog[cpc].u = x.u
      BY <1>1 DEF Operates, Here
    <2> QED BY <1>1, <2>1 DEF MayFollow, Follows
  <1>2. CASE u \notin Computed
    BY <1>2, LeadsOn DEF Alone
  <1> QED BY <1>1, <1>2

(* A statement that evaluates its operand and uses it.                      *)
LEMMA EvalLaid ==
  ASSUME NEW bd, Bodies(bd), Laid(bd), Entry \in DOMAIN bd, NEW b \in DOMAIN bd, cpc \in Nat,
         NEW u \in Operand \cup {None}, u = Here.u, Here.k # "expr", Leads(b, bd[b], cpc),
         NEW x \in Instr, x.at = cpc, x.u = u, x.k \notin {"load", "call", "alloca"}
  PROVE  /\ Laid(Emit(GenExpr(bd, b, u), b, <<x>>)) /\ Bodies(Emit(GenExpr(bd, b, u), b, <<x>>))
         /\ DOMAIN Emit(GenExpr(bd, b, u), b, <<x>>) = DOMAIN bd
         /\ ~Bare(Emit(GenExpr(bd, b, u), b, <<x>>)[b])
         /\ Last(Emit(GenExpr(bd, b, u), b, <<x>>)[b]) = x
         /\ \A c \in DOMAIN bd : c # b => SameEnd(bd[c], Emit(GenExpr(bd, b, u), b, <<x>>)[c])
  <1> DEFINE e == GenExpr(bd, b, u)
  <1>1. /\ Laid(e) /\ Bodies(e) /\ DOMAIN e = DOMAIN bd
        /\ \A c \in DOMAIN bd : c # b => SameEnd(bd[c], e[c])
        /\ u \in Computed => ~Bare(e[b]) /\ Last(e[b]).at = cpc /\ Last(e[b]).k \in {"load", "call"}
        /\ u \notin Computed => e = bd
    BY GenExprLaid
  <1> HIDE DEF e
  <1>2. MayFollow(b, e[b], x)
    BY <1>1, UseFollows
  <1>3. /\ Laid(Emit(e, b, <<x>>)) /\ Bodies(Emit(e, b, <<x>>))
        /\ DOMAIN Emit(e, b, <<x>>) = DOMAIN e
        /\ ~Bare(Emit(e, b, <<x>>)[b]) /\ Last(Emit(e, b, <<x>>)[b]) = x
        /\ \A c \in DOMAIN e : c # b => Emit(e, b, <<x>>)[c] = e[c]
    BY <1>1, <1>2, EmitLaid
  <1>4. \A c \in DOMAIN bd : c # b => SameEnd(bd[c], Emit(e, b, <<x>>)[c])
    BY <1>1, <1>3
  <1> QED BY <1>1, <1>3, <1>4 DEF e

(* New blocks.                                                              *)
LEMMA CreateLaid ==
  ASSUME NEW bd, Bodies(bd), Laid(bd), NEW new, new \subseteq Block, new \cap DOMAIN bd = {}
  PROVE  /\ Laid(Create(bd, new)) /\ Bodies(Create(bd, new))
         /\ DOMAIN Create(bd, new) = DOMAIN bd \cup new
         /\ \A b \in new : Create(bd, new)[b] = <<>>
         /\ \A b \in DOMAIN bd : Create(bd, new)[b] = bd[b]
  <1> DEFINE e == Create(bd, new)
  <1>1. /\ DOMAIN e = DOMAIN bd \cup new
        /\ \A b \in new : e[b] = <<>>
        /\ \A b \in DOMAIN bd : e[b] = bd[b]
    BY DEF Create
  <1> HIDE DEF e
  <1>2. \A b \in DOMAIN bd : b \in Block /\ bd[b] \in Seq(Instr) /\ Chained(b, bd[b])
    BY DEF Bodies, Laid
  <1>3. Bodies(e)
    BY CreateType DEF e
  <1>4. Laid(e)
    BY <1>1, <1>2, ChainStarts DEF Laid
  <1> QED BY <1>1, <1>3, <1>4 DEF e

-----------------------------------------------------------------------------
(* The activations stand for the lists around the node at hand *)

\* where activation f of depth d came from, when the walk is at node c
Standing(f, d, c) ==
  /\ f.at \in Nodes /\ prog[f.at].d = d
  /\ f.k = "loop" => prog[f.at].k = "loop" /\ Opens(prog, f.at, c)
  /\ f.k = "then" => prog[f.at].k = "if" /\ Opens(prog, f.at, c)
  /\ f.k = "else" => /\ prog[f.at].k = "if"
                     /\ \E e \in Nodes : prog[e].k = "else" /\ Closes(f.at, e) /\ Opens(prog, e, c)

FramesAt(fs, c) == /\ Level(prog[c]) = Len(fs) + 1
                   /\ \A i \in 1..Len(fs) : Standing(fs[i], i, c)

(* An activation goes on standing until a node of its depth or less.        *)
LEMMA StandsOn ==
  ASSUME TypeOK, NEW f, NEW d \in Nat, NEW c \in Nodes, Standing(f, d, c),
         NEW j \in Nodes, c < j, \A k \in c..(j - 1) : prog[k].d > d
  PROVE  Standing(f, d, j)
  <1>1. /\ c \in Nat /\ j \in Nat /\ Nodes = 1..Len(prog)
        /\ \A k \in Nodes : k \in Nat /\ prog[k].d \in Nat
    BY NodeDepths DEF Nodes
  <1>2. ASSUME NEW a \in Nodes, Opens(prog, a, c), prog[a].d = d PROVE Opens(prog, a, j)
    <2>1. /\ a \in 1..Len(prog) /\ a < c /\ a \in Nat /\ prog[a].k \in Openers
          /\ \A k \in (a + 1)..(c - 1) : prog[k].d > prog[a].d
      BY <1>1, <1>2 DEF Opens
    <2>2. ASSUME NEW k \in (a + 1)..(j - 1) PROVE prog[k].d > prog[a].d
      <3>1. k \in (a + 1)..(c - 1) \/ k \in c..(j - 1)
        BY <1>1, <2>1
      <3> QED BY <1>2, <2>1, <3>1
    <2> QED BY <1>1, <2>1, <2>2 DEF Opens
  <1>3. \A e : Closes(f.at, e) => prog[e].d = d
    BY DEF Standing, Closes
  <1> QED BY <1>2, <1>3 DEF Standing

(* The level of the next node.                                              *)
LEMMA NextLevel ==
  ASSUME TypeOK, TreeOK, NEW i \in Nodes, i + 1 \in Nodes
  PROVE  Level(prog[i + 1]) = Inner(prog[i])
  <1>1. PICK m \in Nodes : m = i + 1
    OBVIOUS
  <1>2. i \in Nat /\ m # 1 /\ m - 1 = i
    BY <1>1, NodeDepths DEF Nodes
  <1> QED BY <1>1, <1>2 DEF TreeOK

(* A list that is left early is left at its end.                            *)
LEMMA SkipLevel ==
  ASSUME TypeOK, TreeOK, NEW i \in Nodes, prog[i].k \in Statements, NEW j \in ListEnds(i)
  PROVE  /\ j \in Nodes /\ i < j /\ Level(prog[j]) = Level(prog[i])
         /\ \A k \in i..(j - 1) : prog[k].d >= Level(prog[i])
  <1>1. /\ Nodes = 1..Len(prog) /\ Len(prog) \in Nat
        /\ \A k \in Nodes : k \in Nat /\ prog[k].d \in Nat
    BY NodeDepths DEF Nodes
  <1>2. /\ j \in (i + 1)..Len(prog) /\ prog[j].d < prog[i].d
        /\ \A k \in i..(j - 1) : prog[k].d >= prog[i].d
    BY DEF ListEnds
  <1>3. Level(prog[i]) = prog[i].d
    BY DEF Level, Closers, Statements, Simple
  <1>4. j \in Nodes /\ i < j /\ j - 1 \in Nodes /\ j - 1 \in i..(j - 1) /\ (j - 1) + 1 = j
    BY <1>1, <1>2
  <1>5. Level(prog[j]) = Inner(prog[j - 1])
    BY <1>4, NextLevel
  <1>6. prog[j - 1].d >= prog[i].d /\ prog[j - 1].d \in Nat /\ prog[j].d \in Nat /\ prog[i].d \in Nat
    BY <1>1, <1>2, <1>4
  <1>7. Level(prog[j]) = prog[i].d
    <2>1. Inner(prog[j - 1]) \in Int /\ Inner(prog[j - 1]) >= prog[j - 1].d
      BY <1>6 DEF Inner
    <2>2. Level(prog[j]) = prog[j].d \/ Level(prog[j]) = prog[j].d + 1
      BY DEF Level
    <2>3. prog[j].d < prog[i].d
      BY <1>2
    <2> QED BY <1>5, <1>6, <2>1, <2>2, <2>3
  <1> QED BY <1>2, <1>3, <1>4, <1>7

(* The activations stand so wherever the walk goes.                         *)
LEMMA GenerateFrames ==
  ASSUME PlaceInv, Walking => FramesAt(frames, cpc), GenNext, phase' = "gen", cpc' \in Nodes,
         prog[cpc'].k # "fn"
  PROVE  FramesAt(frames', cpc')
  <1> DEFINE n == Len(frames)
  <1>1. /\ TypeOK /\ TreeOK /\ cpc \in Nodes /\ cpc \in Nat /\ phase = "gen" /\ (Skips \/ Advances)
        /\ Here \in AnyNode /\ Here.d \in Nat /\ frames \in Seq(Frame) /\ n \in Nat
        /\ Nodes = 1..Len(prog) /\ Here = prog[cpc]
    BY GenMoves, NodeDepths, LenProperties DEF PlaceInv, NestInv, FlowInv, TypeOK, GenTypeOK, Nodes, Here
  <1>2. CASE Skips
    <2>1. Here.k \in Statements /\ cpc' \in ListEnds(cpc) /\ frames' = frames
      BY <1>2 DEF Skips, Skipping
    <2>2. FramesAt(frames, cpc)
      BY <1>1, <2>1 DEF Walking, Statements, Simple
    <2>3. /\ cpc < cpc' /\ Level(prog[cpc']) = Level(Here)
          /\ \A k \in cpc..(cpc' - 1) : prog[k].d >= Level(Here)
      BY <1>1, <2>1, SkipLevel
    <2>4. ASSUME NEW i \in 1..n PROVE Standing(frames[i], i, cpc')
      <3>1. Level(Here) = n + 1
        BY <1>1, <2>2 DEF FramesAt
      <3>2. ASSUME NEW k \in cpc..(cpc' - 1) PROVE prog[k].d > i
        <4>1. k \in 1..Len(prog) /\ prog[k].d \in Nat
          <5>1. PICK l \in Nat : l = Len(prog)
            BY <1>1, NodeDepths
          <5>2. cpc' \in 1..l /\ cpc \in 1..l
            BY <1>1, <5>1
          <5>3. k \in 1..l
            BY <5>2
          <5> QED BY <1>1, <5>1, <5>3, NodeDepths
        <4>2. prog[k].d >= n + 1
          BY <2>3, <3>1
        <4> QED BY <1>1, <4>1, <4>2
      <3>3. Standing(frames[i], i, cpc) /\ i \in Nat
        BY <2>2 DEF FramesAt
      <3> QED BY <1>1, <2>3, <3>2, <3>3, StandsOn
    <2> QED BY <1>1, <2>1, <2>2, <2>3, <2>4 DEF FramesAt
  <1>3. CASE Advances
    <2>1. cpc' = cpc + 1 /\ frames' = NewFrames /\ cpc + 1 \in Nodes
      BY <1>3 DEF Advances
    <2>2. Level(prog[cpc + 1]) = Inner(Here)
      BY <1>1, <2>1, NextLevel
    <2>3. Here.k # "endfn"
      BY <1>1, <2>1, AfterFunction
    <2>4. Here.k # "fn" => FramesAt(frames, cpc) /\ Level(Here) = n + 1
      BY <1>1 DEF Walking, FramesAt
    <2>5. ASSUME Here.k # "fn", NEW i \in 1..n, i < Here.d PROVE Standing(frames[i], i, cpc + 1)
      <3>1. Standing(frames[i], i, cpc) /\ i \in Nat
        BY <2>4, <2>5 DEF FramesAt
      <3>2. \A k \in cpc..((cpc + 1) - 1) : prog[k].d > i
        BY <1>1, <2>5
      <3> QED BY <1>1, <2>1, <3>1, <3>2, StandsOn
    <2>6. ASSUME Here.k \in Openers PROVE Opens(prog, cpc, cpc + 1)
      <3>1. (cpc + 1)..((cpc + 1) - 1) = {}
        BY <1>1
      <3> QED BY <1>1, <2>6, <3>1 DEF Opens
    <2>7. CASE Here.k = "fn"
      <3>1. frames = <<>> /\ frames' = frames
        BY <1>1, <2>1, <2>7 DEF PlaceInv, PlaceOK, NewFrames, Simple
      <3>2. Level(Here) = 0
        BY <1>1, <2>7 DEF TreeOK
      <3>3. Level(prog[cpc + 1]) = 0 + 1 /\ Len(frames) = 0
        BY <2>2, <2>7, <3>1, <3>2 DEF Level, Inner, Openers, Closers
      <3> QED BY <2>1, <3>1, <3>3 DEF FramesAt
    <2>8. CASE Here.k \in Simple
      <3>1. frames' = frames /\ Here.k \notin Openers \cup Closers /\ Here.k # "fn"
        BY <2>1, <2>8 DEF NewFrames, Simple, Openers, Closers
      <3>2. Here.d = n + 1 /\ Level(prog[cpc + 1]) = n + 1
        BY <2>2, <2>4, <3>1 DEF Level, Inner
      <3>3. ASSUME NEW i \in 1..n PROVE Standing(frames[i], i, cpc + 1)
        <4>1. i < Here.d
          BY <1>1, <3>2
        <4> QED BY <2>5, <3>1, <4>1
      <3> QED BY <2>1, <3>1, <3>2, <3>3 DEF FramesAt
    <2>9. CASE Here.k \in {"if", "loop"}
      <3> DEFINE f == [k |-> IF Here.k = "if" THEN "then" ELSE "loop", at |-> cpc]
      <3>1. frames' = Append(frames, f) /\ Here.k \in Openers \ Closers /\ Here.k # "fn"
        BY <2>1, <2>9 DEF NewFrames, Simple, Openers, Closers
      <3>2. Here.d = n + 1 /\ Level(prog[cpc + 1]) = n + 1 + 1
        BY <2>2, <2>4, <3>1 DEF Level, Inner
      <3>3. f.at = cpc /\ (f.k = "then" <=> Here.k = "if") /\ (f.k = "loop" <=> Here.k = "loop") /\ f.k # "else"
        BY <2>9
      <3>4. f \in Frame
        BY <1>1, <2>9 DEF Frame
      <3> HIDE DEF f
      <3>5. /\ Len(frames') = n + 1 /\ frames'[n + 1] = f
            /\ \A i \in 1..n : frames'[i] = frames[i]
        BY <1>1, <3>1, <3>4, AppendProperties
      <3>6. Standing(f, n + 1, cpc + 1)
        BY <1>1, <2>6, <2>9, <3>1, <3>2, <3>3 DEF Standing
      <3>7. ASSUME NEW i \in 1..(n + 1) PROVE Standing(frames'[i], i, cpc + 1)
        <4>1. CASE i = n + 1
          BY <3>5, <3>6, <4>1
        <4>2. CASE i # n + 1
          <5>1. i \in 1..n /\ i < Here.d
            BY <1>1, <3>2, <4>2
          <5> QED BY <2>5, <3>1, <3>5, <5>1
        <4> QED BY <4>1, <4>2
      <3> QED BY <2>1, <3>2, <3>5, <3>7 DEF FramesAt
    <2>10. CASE Here.k \in {"else", "endif", "endloop"}
      <3> DEFINE f == Last(frames)
                 fs == Front(frames)
                 g == [k |-> "else", at |-> f.at]
      <3>1. /\ frames # <<>> /\ Here.k \in Closers /\ Here.k # "fn"
            /\ Here.k = "else" => f.k = "then"
        BY <1>1, <2>10, ActionAt DEF Closers
      <3>2. n # 0 /\ n \in 1..n /\ f = frames[n] /\ f \in Frame
        BY <1>1, <3>1, EmptySeq, FrontFacts DEF Last
      <3>3. fs \in Seq(Frame) /\ Len(fs) = n - 1 /\ \A i \in 1..(n - 1) : fs[i] = frames[i]
        BY <1>1, <3>1, FrontFacts
      <3>4. Here.d = n
        BY <1>1, <2>4, <3>1 DEF Level
      <3>5. ASSUME NEW i \in 1..(n - 1) PROVE Standing(fs[i], i, cpc + 1)
        <4>1. i \in 1..n /\ i < Here.d
          BY <1>1, <3>4
        <4> QED BY <2>5, <3>1, <3>3, <4>1
      <3>6. CASE Here.k = "else"
        <4>1. frames' = Append(fs, g) /\ g \in Frame /\ g.k = "else" /\ g.at = f.at
          BY <2>1, <3>2, <3>6 DEF NewFrames, Simple, Frame
        <4>2. Standing(f, n, cpc)
          BY <2>4, <3>1, <3>2 DEF FramesAt
        <4>3. f.k = "then" /\ prog[f.at].k = "if" /\ Opens(prog, f.at, cpc) /\ prog[f.at].d = n /\ f.at \in Nodes
          BY <3>1, <3>6, <4>2 DEF Standing
        <4>4. Closes(f.at, cpc)
          BY <1>1, <3>4, <4>3 DEF Closes
        <4>5. Opens(prog, cpc, cpc + 1)
          BY <2>6, <3>6 DEF Openers
        <4> HIDE DEF f, g, fs
        <4>6. Standing(g, n, cpc + 1)
          BY <1>1, <3>6, <4>1, <4>3, <4>4, <4>5 DEF Standing
        <4>7. /\ Len(frames') = n /\ frames'[n] = g
              /\ \A i \in 1..(n - 1) : frames'[i] = fs[i]
          BY <1>1, <3>3, <4>1, AppendProperties
        <4>8. ASSUME NEW i \in 1..n PROVE Standing(frames'[i], i, cpc + 1)
          <5>1. i = n \/ i \in 1..(n - 1)
            BY <1>1
          <5> QED BY <3>5, <4>6, <4>7, <5>1
        <4>9. Level(prog[cpc + 1]) = n + 1
          BY <2>2, <3>4, <3>6 DEF Inner, Openers
        <4> QED BY <2>1, <4>7, <4>8, <4>9 DEF FramesAt
      <3>7. CASE Here.k \in {"endif", "endloop"}
        <4>1. frames' = fs
          BY <2>1, <3>7 DEF NewFrames, Simple
        <4>2. Level(prog[cpc + 1]) = n
          BY <2>2, <3>4, <3>7 DEF Inner, Openers
        <4> QED BY <1>1, <2>1, <3>3, <3>5, <4>1, <4>2 DEF FramesAt
      <3> QED BY <2>10, <3>6, <3>7
    <2> QED BY <1>1, <2>3, <2>7, <2>8, <2>9, <2>10 DEF AnyNode, NodeKind, Openers, Closers
  <1> QED BY <1>1, <1>2, <1>3

(* The list that ends is that of the activation on top.                     *)
LEMMA ListOnTop ==
  ASSUME PlaceInv, Walking => FramesAt(frames, cpc), GenNext, phase' = "gen",
         Here.k \in {"else", "endif", "endloop"}
  PROVE  /\ frames # <<>> /\ Last(frames) \in Frame /\ Last(frames).at \in Nodes
         /\ Here.k = "else" => prog[Last(frames).at].k = "if" /\ Closes(Last(frames).at, cpc)
         /\ Here.k = "endif" => /\ prog[Last(frames).at].k = "if"
                                /\ \E e \in Nodes : /\ prog[e].k = "else" /\ Closes(e, cpc)
                                                    /\ Closes(Last(frames).at, e)
         /\ Here.k = "endloop" => prog[Last(frames).at].k = "loop" /\ Closes(Last(frames).at, cpc)
  <1> DEFINE n == Len(frames)
             f == Last(frames)
  <1>1. /\ TypeOK /\ cpc \in Nodes /\ cpc \in Nat /\ phase = "gen"
        /\ Here \in AnyNode /\ Here.d \in Nat /\ frames \in Seq(Frame) /\ n \in Nat
        /\ Nodes = 1..Len(prog) /\ Here = prog[cpc]
    BY GenMoves, NodeDepths, LenProperties DEF PlaceInv, NestInv, FlowInv, TypeOK, GenTypeOK, Nodes, Here
  <1>2. /\ frames # <<>> /\ Here.k \in Closers /\ Here.k # "fn"
        /\ f.k = CASE Here.k = "else" -> "then" [] Here.k = "endif" -> "else"
                   [] Here.k = "endloop" -> "loop"
    BY ActionAt DEF Closers
  <1>3. n # 0 /\ n \in 1..n /\ f = frames[n] /\ f \in Frame
    BY <1>1, <1>2, EmptySeq, FrontFacts DEF Last
  <1>4. FramesAt(frames, cpc)
    BY <1>1, <1>2 DEF Walking
  <1>5. Here.d = n
    BY <1>1, <1>2, <1>4 DEF FramesAt, Level
  <1>6. Standing(f, n, cpc)
    BY <1>3, <1>4 DEF FramesAt
  <1> HIDE DEF f
  <1>7. f.at \in Nodes /\ prog[f.at].d = n
    BY <1>6 DEF Standing
  <1>8. CASE Here.k = "else"
    <2>1. prog[f.at].k = "if" /\ Opens(prog, f.at, cpc)
      BY <1>2, <1>6, <1>8 DEF Standing
    <2>2. Closes(f.at, cpc)
      BY <1>1, <1>5, <1>7, <2>1 DEF Closes
    <2> QED BY <1>2, <1>3, <1>7, <1>8, <2>1, <2>2 DEF f
  <1>9. CASE Here.k = "endloop"
    <2>1. prog[f.at].k = "loop" /\ Opens(prog, f.at, cpc)
      BY <1>2, <1>6, <1>9 DEF Standing
    <2>2. Closes(f.at, cpc)
      BY <1>1, <1>5, <1>7, <2>1 DEF Closes
    <2> QED BY <1>2, <1>3, <1>7, <1>9, <2>1, <2>2 DEF f
  <1>10. CASE Here.k = "endif"
    <2>1. prog[f.at].k = "if"
      BY <1>2, <1>6, <1>10 DEF Standing
    <2>2. PICK e \in Nodes : prog[e].k = "else" /\ Closes(f.at, e) /\ Opens(prog, e, cpc)
      BY <1>2, <1>6, <1>10 DEF Standing
    <2>3. Closes(e, cpc)
      BY <1>1, <1>5, <1>7, <2>2 DEF Closes
    <2> QED BY <1>2, <1>3, <1>7, <1>10, <2>1, <2>2, <2>3 DEF f
  <1> QED BY <1>8, <1>9, <1>10

-----------------------------------------------------------------------------
(* Every step of the generator keeps the blocks so *)

\* the insertion block, unless it has ended, goes on at the node at hand
Due(bd, b, p) == ~Terminated(bd, b) => Leads(b, bd[b], p)

\* what a step leaves
StepLaid(j) == Laid(body') /\ (j \in Nodes /\ prog[j].k # "fn" => Due(body', ins', j))

(* Behind what a node has emitted the run is at the next.                   *)
LEMMA LeadsBehind ==
  ASSUME NEW b, NEW s, NEW p \in Nat, ~Bare(s), Last(s).at = p, Last(s).k \notin {"load", "call"}
  PROVE  Leads(b, s, p + 1)
  <1>1. Reaches(p + 1, p + 1)
    BY ReachFacts
  <1> QED BY <1>1 DEF Leads, Operates

(* At the start of a block it is at the node at which the block begins.     *)
LEMMA LeadsFirst ==
  ASSUME NEW b, NEW s, NEW p \in Nat, Bare(s), BeginsAt(b, p)
  PROVE  Leads(b, s, p)
  <1>1. Reaches(p, p)
    BY ReachFacts
  <1> QED BY <1>1 DEF Leads, Starts

(* It passes over a literal.                                                *)
LEMMA LeadsOver ==
  ASSUME NEW b, NEW s \in Seq(Instr), NEW p \in Nat, Leads(b, s, p), Idle(p)
  PROVE  Leads(b, s, p + 1)
  <1>1. CASE Bare(s)
    <2>1. PICK q \in Nat : BeginsAt(b, q) /\ Reaches(q, p)
      BY <1>1 DEF Leads, Starts
    <2>2. Reaches(q, p + 1)
      BY <2>1, ReachFacts
    <2> QED BY <1>1, <2>1, <2>2 DEF Leads, Starts
  <1>2. CASE ~Bare(s)
    <2>1. s # <<>>
      BY <1>2 DEF Bare
    <2>2. Last(s) \in Instr
      BY <2>1, FrontFacts
    <2>3. Last(s).at + 1 \in Nat
      BY <2>2 DEF Instr
    <2>4. Reaches(Last(s).at + 1, p) /\ ~Operates(Last(s))
      BY <1>2 DEF Leads
    <2>5. Reaches(Last(s).at + 1, p + 1)
      BY <2>3, <2>4, ReachFacts
    <2> QED BY <1>2, <2>4, <2>5 DEF Leads
  <1> QED BY <1>1, <1>2

(* What is known where a statement is lowered.                              *)
LEMMA StatementLaid ==
  ASSUME PlaceInv, Laid(body), Walking => Due(body, ins, cpc), NEW kinds, AtStatement(kinds), "fn" \notin kinds
  PROVE  /\ Bodies(body) /\ cpc \in Nat /\ cpc \in Nodes /\ Here = prog[cpc] /\ Leads(ins, body[ins], cpc)
         /\ Entry \in DOMAIN body /\ ins \in DOMAIN body /\ Here.k \in kinds
         /\ Here.u \in Operand \cup {None}
         /\ Here.k \in {"decl", "assign", "part"} => Here.v \in Vars
         /\ \A r \in Roles : <<cpc, r>> \in Block /\ <<cpc, r>> \notin DOMAIN body
  <1>1. Generating(kinds) /\ ~Terminated(body, ins) /\ Walking
    BY StatementFacts DEF AtStatement
  <1>2. Leads(ins, body[ins], cpc)
    BY <1>1 DEF Due
  <1> QED BY <1>1, <1>2, GenPlace, StatementFacts DEF Here

(* A statement that ends in an instruction of its own.                      *)
LEMMA LastLaid ==
  ASSUME cpc \in Nat, NEW bd, ~Bare(bd[ins]), Last(bd[ins]).at = cpc, Last(bd[ins]).k \notin {"load", "call"},
         Laid(bd), body' = bd, ins' = ins
  PROVE  StepLaid(cpc + 1)
  <1>1. Leads(ins, bd[ins], cpc + 1)
    BY LeadsBehind
  <1> QED BY <1>1 DEF StepLaid, Due

(* The statements without a list of their own.                              *)
LEMMA SimpleLaid ==
  ASSUME PlaceInv, NodesOK, Laid(body), Walking => Due(body, ins, cpc), phase' # "failed",
         \/ GenVarDecl \/ GenAssign \/ GenPartAssign \/ GenExprStmt \/ GenReturn
         \/ GenBreak \/ GenContinue
  PROVE  StepLaid(cpc + 1)
  <1>1. ASSUME NEW code, GenThrow(code) PROVE FALSE
    BY <1>1 DEF GenThrow, Throw
  <1>2. ASSUME NEW kinds, AtStatement(kinds), "fn" \notin kinds, Here.k # "expr",
               NEW bd, Bodies(bd), Laid(bd), DOMAIN bd = DOMAIN body, Leads(ins, bd[ins], cpc),
               NEW x \in Instr, x.at = cpc, x.u = Here.u, x.k \notin {"load", "call", "alloca"},
               body' = Emit(GenExpr(bd, ins, Here.u), ins, <<x>>), ins' = ins
        PROVE  StepLaid(cpc + 1)
    <2>1. /\ cpc \in Nat /\ Entry \in DOMAIN bd /\ ins \in DOMAIN bd
          /\ Here.u \in Operand \cup {None}
      BY <1>2, StatementLaid
    <2> PICK u \in Operand \cup {None} : u = Here.u
      BY <2>1
    <2> DEFINE e == Emit(GenExpr(bd, ins, u), ins, <<x>>)
    <2>2. Laid(e) /\ ~Bare(e[ins]) /\ Last(e[ins]) = x
      BY <1>2, <2>1, EvalLaid
    <2>3. body' = e
      BY <1>2
    <2> HIDE DEF e
    <2> QED BY <1>2, <2>1, <2>2, <2>3, LastLaid
  <1>3. CASE GenVarDecl
    <2>1. /\ AtStatement({"decl"}) /\ ins' = ins
          /\ body' = Emit(GenExpr(AddSlot(body, Here.v), ins, Here.u),
                          ins, <<Store(Here.v, Here.u)>>)
      BY <1>1, <1>3 DEF GenVarDecl, UndeclaredUse
    <2>2. /\ Bodies(body) /\ cpc \in Nat /\ Entry \in DOMAIN body /\ ins \in DOMAIN body
          /\ Here.u \in Operand \cup {None} /\ Here.v \in Vars /\ Here.k = "decl"
          /\ Leads(ins, body[ins], cpc)
      BY <2>1, StatementLaid
    <2> DEFINE x == Store(Here.v, Here.u)
               e == AddSlot(body, Here.v)
    <2>3. x \in Instr /\ x.k = "store" /\ x.at = cpc /\ x.u = Here.u
      BY <2>2 DEF Store, I, Instr, InstrKind
    <2>4. /\ Laid(e) /\ Bodies(e) /\ DOMAIN e = DOMAIN body
          /\ \A c \in DOMAIN body : SameEnd(body[c], e[c])
      BY <2>2, AddSlotLaid
    <2>5. body' = Emit(GenExpr(e, ins, Here.u), ins, <<x>>)
      BY <2>1
    <2> HIDE DEF x, e
    <2>6. Leads(ins, e[ins], cpc)
      BY <2>2, <2>4, SameEndFacts
    <2> QED BY <1>2, <2>1, <2>2, <2>3, <2>4, <2>5, <2>6
  <1>4. CASE GenAssign
    <2>1. /\ AtStatement({"assign"}) /\ ins' = ins
          /\ body' = Emit(GenExpr(body, ins, Here.u), ins, <<Store(Here.v, Here.u)>>)
      BY <1>1, <1>4 DEF GenAssign, UndeclaredUse
    <2>2. /\ Here.u \in Operand \cup {None} /\ Here.v \in Vars /\ cpc \in Nat /\ Here.k = "assign"
          /\ Bodies(body) /\ Leads(ins, body[ins], cpc)
      BY <2>1, StatementLaid
    <2> DEFINE x == Store(Here.v, Here.u)
    <2>3. x \in Instr /\ x.k = "store" /\ x.at = cpc /\ x.u = Here.u
      BY <2>2 DEF Store, I, Instr, InstrKind
    <2> HIDE DEF x
    <2> QED BY <1>2, <2>1, <2>2, <2>3 DEF x
  <1>5. CASE GenPartAssign
    <2>1. /\ AtStatement({"part"}) /\ ins' = ins
          /\ body' = Emit(GenExpr(body, ins, Here.u), ins, <<StorePart(Here.v, Here.u)>>)
      BY <1>1, <1>5 DEF GenPartAssign, UndeclaredUse
    <2>2. /\ Here.u \in Operand \cup {None} /\ Here.v \in Vars /\ cpc \in Nat /\ Here.k = "part"
          /\ Bodies(body) /\ Leads(ins, body[ins], cpc)
      BY <2>1, StatementLaid
    <2> DEFINE x == StorePart(Here.v, Here.u)
    <2>3. x \in Instr /\ x.k = "pstore" /\ x.at = cpc /\ x.u = Here.u
      BY <2>2 DEF StorePart, I, Instr, InstrKind
    <2> HIDE DEF x
    <2> QED BY <1>2, <2>1, <2>2, <2>3 DEF x
  <1>6. CASE GenReturn
    <2>1. /\ AtStatement({"ret"}) /\ ins' = ins
          /\ body' = Emit(GenExpr(body, ins, Here.u), ins, <<Ret(Here.u)>>)
      BY <1>1, <1>6 DEF GenReturn, UndeclaredUse
    <2>2. /\ Here.u \in Operand \cup {None} /\ cpc \in Nat /\ Here.k = "ret"
          /\ Bodies(body) /\ Leads(ins, body[ins], cpc)
      BY <2>1, StatementLaid
    <2> DEFINE x == Ret(Here.u)
    <2>3. x \in Instr /\ x.k = "ret" /\ x.at = cpc /\ x.u = Here.u
      BY <2>2 DEF Ret, I, Instr, InstrKind
    <2> HIDE DEF x
    <2> QED BY <1>2, <2>1, <2>2, <2>3 DEF x
  <1>7. CASE GenExprStmt
    <2>1. AtStatement({"expr"}) /\ body' = GenExpr(body, ins, Here.u) /\ ins' = ins
      BY <1>1, <1>7 DEF GenExprStmt, UndeclaredUse
    <2>2. /\ Bodies(body) /\ cpc \in Nat /\ Entry \in DOMAIN body /\ ins \in DOMAIN body
          /\ Here.k = "expr" /\ Leads(ins, body[ins], cpc) /\ cpc \in Nodes /\ Here = prog[cpc]
      BY <2>1, StatementLaid
    <2> PICK u \in Operand : u = Here.u
      BY <2>2 DEF NodesOK
    <2> DEFINE e == GenExpr(body, ins, u)
    <2>3. /\ Laid(e)
          /\ u \in Computed => ~Bare(e[ins]) /\ Last(e[ins]).at = cpc
          /\ u \notin Computed => e = body
      BY <2>2, GenExprLaid
    <2>4. body' = e
      BY <2>1
    <2> HIDE DEF e
    <2>5. Leads(ins, e[ins], cpc + 1)
      <3>1. CASE u \in Computed
        <4>1. ~Operates(Last(e[ins])) /\ ~Bare(e[ins])
          BY <2>2, <2>3, <3>1 DEF Operates
        <4>2. Reaches(cpc + 1, cpc + 1)
          BY <2>2, ReachFacts
        <4> QED BY <2>3, <3>1, <4>1, <4>2 DEF Leads
      <3>2. CASE u \notin Computed
        <4>1. Idle(cpc)
          BY <2>2, <3>2 DEF Idle, Operand, Literals, Computed
        <4>2. body[ins] \in Seq(Instr)
          BY <2>2 DEF Bodies
        <4> QED BY <2>2, <2>3, <3>2, <4>1, <4>2, LeadsOver
      <3> QED BY <3>1, <3>2
    <2> QED BY <2>1, <2>3, <2>4, <2>5 DEF StepLaid, Due
  <1>8. ASSUME NEW kind \in {"stop", "cont"}, NEW target \in {"breakBB", "continueBB"},
               NEW code, Leave(kind, target, code)
        PROVE  StepLaid(cpc + 1)
    <2>1. /\ AtStatement({kind}) /\ loopStack # <<>> /\ ins' = ins
          /\ body' = Emit(body, ins, <<Br(Last(loopStack)[target])>>)
      BY <1>1, <1>8 DEF Leave
    <2>2. /\ Bodies(body) /\ cpc \in Nat /\ ins \in DOMAIN body /\ Leads(ins, body[ins], cpc)
      BY <2>1, StatementLaid
    <2>3. Last(loopStack) \in [continueBB : Block, breakBB : Block]
      BY <2>1, FrontFacts DEF PlaceInv, NestInv, FlowInv, TypeOK, GenTypeOK
    <2>4. Last(loopStack)[target] \in Block
      BY <2>3
    <2> DEFINE x == Br(Last(loopStack)[target])
    <2>5. x \in Instr /\ x.k = "br" /\ x.at = cpc /\ x.u = None
      BY <2>2, <2>4 DEF Br, I, Instr, InstrKind
    <2> HIDE DEF x
    <2>6. Alone(x)
      BY <2>5, ProgramAssumption DEF Alone, Computed, Literals
    <2>7. MayFollow(ins, body[ins], x)
      BY <2>2, <2>5, <2>6, LeadsOn
    <2> DEFINE e == Emit(body, ins, <<x>>)
    <2>8. Laid(e) /\ ~Bare(e[ins]) /\ Last(e[ins]) = x
      BY <2>2, <2>5, <2>7, EmitLaid
    <2>9. body' = e
      BY <2>1 DEF x
    <2> HIDE DEF e
    <2> QED BY <2>1, <2>2, <2>5, <2>8, <2>9, LastLaid
  <1> QED BY <1>3, <1>4, <1>5, <1>6, <1>7, <1>8 DEF GenBreak, GenContinue

(* genIf.                                                                   *)
LEMMA IfLaid ==
  ASSUME PlaceInv, Laid(body), Walking => Due(body, ins, cpc), phase' # "failed", GenIf
  PROVE  StepLaid(cpc + 1)
  <1> DEFINE new == {<<cpc, "then">>, <<cpc, "else">>, <<cpc, "merge">>}
             x == CondBr(Here.u, <<cpc, "then">>, <<cpc, "else">>)
             e == GenExpr(body, ins, Here.u)
             b == <<cpc, "then">>
  <1>1. AtStatement({"if"}) /\ body' = Emit(Create(e, new), ins, <<x>>) /\ ins' = b
    BY DEF GenIf, UndeclaredUse, GenThrow, Throw
  <1>2. /\ Bodies(body) /\ cpc \in Nat /\ Entry \in DOMAIN body /\ ins \in DOMAIN body
        /\ Leads(ins, body[ins], cpc) /\ Here.u \in Operand \cup {None} /\ Here.k = "if"
        /\ \A r \in Roles : <<cpc, r>> \in Block /\ <<cpc, r>> \notin DOMAIN body
    BY <1>1, StatementLaid
  <1>3. x \in Instr /\ x.k = "br" /\ x.at = cpc /\ x.u = Here.u
    BY <1>2 DEF CondBr, I, Instr, InstrKind, Roles
  <1>4. /\ new \subseteq Block /\ new \cap DOMAIN body = {} /\ b \in new /\ b \notin DOMAIN body
        /\ b[1] = cpc /\ b[2] = "then"
    BY <1>2 DEF Roles
  <1> HIDE DEF new, x, e, b
  <1>5. /\ Laid(e) /\ Bodies(e) /\ DOMAIN e = DOMAIN body
        /\ Here.u \in Computed => ~Bare(e[ins]) /\ Last(e[ins]).at = cpc /\ Last(e[ins]).k \in {"load", "call"}
        /\ Here.u \notin Computed => e = body
    <2> PICK u \in Operand \cup {None} : u = Here.u
      BY <1>2
    <2> QED BY <1>2, GenExprLaid DEF e
  <1> DEFINE c == Create(e, new)
  <1>6. /\ Laid(c) /\ Bodies(c) /\ DOMAIN c = DOMAIN e \cup new
        /\ c[b] = <<>> /\ c[ins] = e[ins]
    <2>1. new \cap DOMAIN e = {} /\ ins \in DOMAIN e
      BY <1>2, <1>4, <1>5
    <2>2. /\ Laid(c) /\ Bodies(c) /\ DOMAIN c = DOMAIN e \cup new
          /\ \A d \in new : c[d] = <<>>
          /\ \A d \in DOMAIN e : c[d] = e[d]
      BY <1>4, <1>5, <2>1, CreateLaid
    <2> HIDE DEF c
    <2> QED BY <1>4, <2>1, <2>2
  <1> HIDE DEF c
  <1>7. MayFollow(ins, c[ins], x)
    <2>1. MayFollow(ins, e[ins], x)
      BY <1>2, <1>3, <1>5, UseFollows
    <2> QED BY <1>6, <2>1
  <1>8. Laid(Emit(c, ins, <<x>>)) /\ Emit(c, ins, <<x>>)[b] = <<>>
    <2>1. b # ins /\ b \in DOMAIN c /\ ins \in DOMAIN c
      BY <1>2, <1>4, <1>5, <1>6
    <2> QED BY <1>3, <1>6, <1>7, <2>1, EmitLaid
  <1>9. body'[ins'] = <<>> /\ Laid(body') /\ ins' = b
    BY <1>1, <1>8 DEF c
  <1>10. Leads(b, <<>>, cpc + 1)
    <2>1. BeginsAt(b, cpc + 1)
      BY <1>4 DEF BeginsAt
    <2> QED BY <1>2, <2>1, LeadsFirst DEF Bare
  <1> QED BY <1>9, <1>10 DEF StepLaid, Due

(* genLoop.                                                                 *)
LEMMA LoopLaid ==
  ASSUME PlaceInv, Laid(body), Walking => Due(body, ins, cpc), phase' # "failed", GenLoop
  PROVE  StepLaid(cpc + 1)
  <1> DEFINE cond == <<cpc, "cond">>
             b == <<cpc, "body">>
             new == {cond, b, <<cpc, "after">>}
             y == Br(cond)
             x == CondBr(Here.u, b, <<cpc, "after">>)
             e == Create(body, new)
  <1>1. /\ AtStatement({"loop"}) /\ ins' = b
        /\ body' = Emit(GenExpr(Emit(e, ins, <<y>>), cond, Here.u), cond, <<x>>)
    BY DEF GenLoop, UndeclaredUse, GenThrow, Throw
  <1>2. /\ Bodies(body) /\ cpc \in Nat /\ Entry \in DOMAIN body /\ ins \in DOMAIN body
        /\ Leads(ins, body[ins], cpc) /\ Here.u \in Operand \cup {None} /\ Here.k = "loop"
        /\ \A r \in Roles : <<cpc, r>> \in Block /\ <<cpc, r>> \notin DOMAIN body
    BY <1>1, StatementLaid
  <1>3. /\ x \in Instr /\ x.k = "br" /\ x.at = cpc /\ x.u = Here.u
        /\ y \in Instr /\ y.k = "br" /\ y.at = cpc /\ y.u = None
    BY <1>2 DEF CondBr, Br, I, Instr, InstrKind, Roles
  <1>4. /\ new \subseteq Block /\ new \cap DOMAIN body = {} /\ cond \in new /\ b \in new
        /\ cond \notin DOMAIN body /\ b \notin DOMAIN body /\ b # cond
        /\ b[1] = cpc /\ b[2] = "body" /\ cond[1] = cpc /\ cond[2] = "cond"
    BY <1>2 DEF Roles
  <1> HIDE DEF new, x, y, e, cond, b
  <1>5. /\ Laid(e) /\ Bodies(e) /\ DOMAIN e = DOMAIN body \cup new
        /\ e[cond] = <<>> /\ e[b] = <<>> /\ e[ins] = body[ins]
    <2>1. /\ Laid(e) /\ Bodies(e) /\ DOMAIN e = DOMAIN body \cup new
          /\ \A d \in new : e[d] = <<>>
          /\ \A d \in DOMAIN body : e[d] = body[d]
      BY <1>2, <1>4, CreateLaid DEF e
    <2> QED BY <1>2, <1>4, <2>1
  <1> DEFINE c == Emit(e, ins, <<y>>)
  <1>6. Alone(y)
    BY <1>3, ProgramAssumption DEF Alone, Computed, Literals
  <1>7. MayFollow(ins, e[ins], y)
    BY <1>2, <1>3, <1>5, <1>6, LeadsOn
  <1>8. /\ Laid(c) /\ Bodies(c) /\ DOMAIN c = DOMAIN e /\ c[cond] = <<>> /\ c[b] = <<>>
    <2>1. ins \in DOMAIN e /\ cond # ins /\ b # ins /\ cond \in DOMAIN e /\ b \in DOMAIN e
      BY <1>2, <1>4, <1>5
    <2> QED BY <1>3, <1>5, <1>7, <2>1, EmitLaid
  <1> HIDE DEF c
  <1>9. Leads(cond, c[cond], cpc)
    <2>1. BeginsAt(cond, cpc)
      BY <1>4 DEF BeginsAt
    <2> QED BY <1>2, <1>8, <2>1, LeadsFirst DEF Bare
  <1>10. /\ Laid(Emit(GenExpr(c, cond, Here.u), cond, <<x>>))
         /\ SameEnd(c[b], Emit(GenExpr(c, cond, Here.u), cond, <<x>>)[b])
    <2>1. cond \in DOMAIN c /\ b \in DOMAIN c /\ Entry \in DOMAIN c /\ Here.k # "expr"
      BY <1>2, <1>4, <1>5, <1>8
    <2> PICK u \in Operand \cup {None} : u = Here.u
      BY <1>2
    <2> QED BY <1>2, <1>3, <1>4, <1>8, <1>9, <2>1, EvalLaid
  <1>11. Bare(body'[ins']) /\ Laid(body') /\ ins' = b
    BY <1>1, <1>8, <1>10 DEF c, SameEnd, Bare
  <1>12. Leads(b, body'[b], cpc + 1)
    <2>1. BeginsAt(b, cpc + 1)
      BY <1>4 DEF BeginsAt
    <2> QED BY <1>2, <1>11, <2>1, LeadsFirst
  <1> QED BY <1>11, <1>12 DEF StepLaid, Due

(* A block that nothing is in.                                              *)
LEMMA HoldsNothing ==
  ASSUME NEW bd, Bodies(bd), NEW b \in DOMAIN bd, \A x : ~Holds(bd, b, x)
  PROVE  bd[b] = <<>>
  <1>1. bd[b] \in Seq(Instr)
    BY DEF Bodies
  <1>2. PICK n \in Nat : n = Len(bd[b])
    BY <1>1, LenProperties
  <1>3. n = 0
    <2>1. n # 0 => 1 \in 1..n
      OBVIOUS
    <2>2. 1 \in 1..Len(bd[b]) => Holds(bd, b, bd[b][1])
      BY DEF Holds
    <2> QED BY <1>2, <2>1, <2>2
  <1> QED BY <1>1, <1>2, <1>3, EmptySeq

(* Closing a block whose end is due here.                                   *)
LEMMA CloseLaid ==
  ASSUME Bodies(body), Laid(body), ins \in DOMAIN body, Due(body, ins, cpc), cpc \in Nat,
         NEW x \in Instr, x.at = cpc, x.k \in Terminators, x.u \in {None, "zero"},
         NEW bd, bd = IF Terminated(body, ins) THEN body ELSE Emit(body, ins, <<x>>)
  PROVE  Laid(bd) /\ \A c \in DOMAIN body : c # ins => bd[c] = body[c]
  <1>1. CASE Terminated(body, ins)
    BY <1>1
  <1>2. CASE ~Terminated(body, ins)
    <2>1. Alone(x)
      BY ProgramAssumption DEF Alone, Computed, Literals
    <2>2. MayFollow(ins, body[ins], x)
      BY <1>2, <2>1, LeadsOn DEF Due
    <2>3. x.k # "alloca"
      BY DEF Terminators
    <2> QED BY <1>2, <2>2, <2>3, EmitLaid
  <1> QED BY <1>1, <1>2

(* The end of a list.                                                       *)
LEMMA ListEndLaid ==
  ASSUME PlaceInv, Laid(body), Walking => Due(body, ins, cpc), Walking => FramesAt(frames, cpc), WaitOK,
         GenNext, phase' = "gen", GenElse \/ GenEndIf \/ GenEndLoop
  PROVE  StepLaid(cpc + 1)
  <1> DEFINE f == Last(frames)
             r == IF Here.k = "endloop" THEN "cond" ELSE "merge"
             x == Br(<<f.at, r>>)
             b == NewIns
  <1>1. /\ Here.k \in {"else", "endif", "endloop"} /\ Generating({Here.k}) /\ ins' = b
        /\ body' = IF Terminated(body, ins) THEN body ELSE Emit(body, ins, <<x>>)
    BY DEF GenElse, GenEndIf, GenEndLoop, ListEnd, FallTo, Generating, NewIns, Simple
  <1>2. /\ cpc \in Nodes /\ cpc \in Nat /\ Bodies(body) /\ ins \in DOMAIN body /\ InsideOK /\ Walking
    <2>1. "fn" \notin {Here.k}
      BY <1>1
    <2>2. /\ cpc \in Nodes /\ cpc \in Nat /\ Bodies(body) /\ ins \in DOMAIN body /\ InsideOK /\ phase = "gen"
      BY <1>1, <2>1, GenPlace
    <2> QED BY <1>1, <2>2 DEF Walking
  <1>3. /\ frames # <<>> /\ f \in Frame /\ f.at \in Nodes
        /\ Here.k = "else" => prog[f.at].k = "if" /\ Closes(f.at, cpc)
        /\ Here.k = "endif" => /\ prog[f.at].k = "if"
                               /\ \E e \in Nodes : prog[e].k = "else" /\ Closes(e, cpc) /\ Closes(f.at, e)
        /\ Here.k = "endloop" => prog[f.at].k = "loop" /\ Closes(f.at, cpc)
    BY <1>1, ListOnTop
  <1>4. f.k = CASE Here.k = "else" -> "then" [] Here.k = "endif" -> "else" [] Here.k = "endloop" -> "loop"
    BY <1>1, ActionAt
  <1>5. b = <<f.at, CASE Here.k = "else" -> "else" [] Here.k = "endif" -> "merge"
                      [] Here.k = "endloop" -> "after">>
    BY <1>1 DEF NewIns, Simple
  <1>6. x \in Instr /\ x.at = cpc /\ x.k = "br" /\ x.u = None
    <2>1. <<f.at, r>> \in Block
      BY <1>3 DEF Frame, Block, Roles
    <2> QED BY <1>2, <2>1 DEF Br, I, Instr, InstrKind
  <1> HIDE DEF x, b
  <1>7. b \in Awaited(frames) /\ b \in DOMAIN body
    <2>1. frames \in Seq(Frame) /\ Len(frames) \in 1..Len(frames) /\ f = frames[Len(frames)]
      <3>1. frames \in Seq(Frame)
        BY DEF PlaceInv, NestInv, FlowInv, TypeOK, GenTypeOK
      <3> QED BY <1>3, <3>1, FrontFacts DEF Last
    <2>2. b \in Pending(f)
      BY <1>1, <1>4, <1>5 DEF Pending
    <2> HIDE DEF f
    <2>3. Pending(f) \subseteq Awaited(frames)
      BY <2>1 DEF Awaited
    <2>4. Enters(f) \subseteq DOMAIN body
      BY <1>2, <2>1 DEF InsideOK
    <2> QED BY <2>2, <2>3, <2>4 DEF Enters
  <1>8. b # ins /\ body[b] = <<>>
    BY <1>2, <1>7, HoldsNothing DEF WaitOK
  <1>9. Laid(body') /\ body'[b] = <<>>
    BY <1>1, <1>2, <1>6, <1>7, <1>8, CloseLaid DEF Terminators
  <1>10. BeginsAt(b, cpc + 1)
    <2>1. b[1] = f.at
      BY <1>5
    <2>2. CASE Here.k \in {"else", "endloop"}
      <3>1. b[2] \in {"else", "after"} /\ Closes(b[1], cpc)
        BY <1>3, <1>5, <2>1, <2>2
      <3> QED BY <1>2, <3>1 DEF BeginsAt
    <2>3. CASE Here.k = "endif"
      <3>1. b[2] = "merge" /\ \E e \in Nodes : Closes(b[1], e) /\ Closes(e, cpc)
        BY <1>3, <1>5, <2>1, <2>3
      <3> QED BY <1>2, <3>1 DEF BeginsAt
    <2> QED BY <1>1, <2>2, <2>3
  <1>11. Leads(b, <<>>, cpc + 1)
    BY <1>2, <1>10, LeadsFirst DEF Bare
  <1> QED BY <1>1, <1>9, <1>11 DEF StepLaid, Due

(* The end of a function.                                                   *)
LEMMA EndFunctionLaid ==
  ASSUME PlaceInv, Laid(body), Walking => Due(body, ins, cpc), phase' # "failed", GenEndFunction
  PROVE  StepLaid(cpc + 1)
  <1> DEFINE x == Ret(IF prog[cfn].t = "void" THEN None ELSE "zero")
  <1>1. Generating({"endfn"}) /\ body' = DefaultReturn
    BY DEF GenEndFunction, GenThrow, Throw
  <1>2. /\ cpc \in Nodes /\ cpc \in Nat /\ Bodies(body) /\ ins \in DOMAIN body /\ Here.k = "endfn" /\ Walking
        /\ TypeOK /\ TreeOK
    BY <1>1, GenPlace DEF Walking
  <1>3. x \in Instr /\ x.at = cpc /\ x.k = "ret" /\ x.u \in {None, "zero"}
    BY <1>2 DEF Ret, I, Instr, InstrKind
  <1> HIDE DEF x
  <1>4. body' = IF Terminated(body, ins) THEN body ELSE Emit(body, ins, <<x>>)
    BY <1>1 DEF DefaultReturn, x
  <1>5. Laid(body')
    BY <1>2, <1>3, <1>4, CloseLaid DEF Terminators
  <1>6. cpc + 1 \in Nodes => prog[cpc + 1].k = "fn"
    BY <1>2, AfterFunction DEF Here
  <1> QED BY <1>5, <1>6 DEF StepLaid

(* defineFn.                                                                *)
LEMMA FunctionLaid ==
  ASSUME PlaceInv, Laid(body), phase' # "failed", GenFunction
  PROVE  StepLaid(cpc + 1)
  <1> DEFINE b == <<cpc, "entry">>
             e == Create(body, {b})
             x == Alloca(Here.v)
             y == Store(Here.v, "arg")
             code == <<x, y>>
  <1>1. /\ Generating({"fn"}) /\ ins' = b
        /\ body' = IF Here.v = None THEN e ELSE Emit(e, b, code)
    BY DEF GenFunction
  <1>2. /\ Bodies(body) /\ cpc \in Nat /\ cpc \in Nodes /\ Here.v \in Vars \cup {None} /\ Here = prog[cpc]
        /\ Here.k = "fn" /\ \A r \in Roles : <<cpc, r>> \in Block /\ <<cpc, r>> \notin DOMAIN body
    BY <1>1, GenPlace DEF Here
  <1>3. {b} \subseteq Block /\ {b} \cap DOMAIN body = {} /\ b[1] = cpc /\ b[2] = "entry"
    BY <1>2 DEF Roles
  <1>4. Here.v # None => x \in Instr /\ y \in Instr
    BY <1>2 DEF Alloca, Store, I, Instr, InstrKind
  <1>5. x.k = "alloca" /\ y.k = "store" /\ y.at = cpc /\ y.u = "arg"
    BY DEF Alloca, Store, I
  <1>6. Here.v # None => code \in Seq(Instr) /\ Len(code) = 2 /\ code[1] = x /\ code[2] = y
    BY <1>4
  <1> HIDE DEF b, e, x, y, code
  <1>7. /\ Laid(e) /\ Bodies(e) /\ DOMAIN e = DOMAIN body \cup {b} /\ e[b] = <<>>
    <2>1. \A d \in {b} : e[d] = <<>>
      BY <1>2, <1>3, CreateLaid DEF e
    <2> QED BY <1>2, <1>3, <2>1, CreateLaid DEF e
  <1>8. CASE Here.v = None
    <2>1. BeginsAt(b, cpc + 1)
      BY <1>2, <1>3, <1>8 DEF BeginsAt
    <2>2. Leads(b, <<>>, cpc + 1)
      BY <1>2, <2>1, LeadsFirst DEF Bare
    <2> QED BY <1>1, <1>7, <1>8, <2>2 DEF StepLaid, Due
  <1>9. CASE Here.v # None
    <2> DEFINE c == Emit(e, b, code)
    <2>1. c[b] = code /\ DOMAIN c = DOMAIN e /\ \A d \in DOMAIN e : d # b => c[d] = e[d]
      BY <1>6, <1>7, <1>9, ConcatEmptySeq DEF Emit
    <2> HIDE DEF c
    <2>2. BeginsAt(b, cpc)
      BY <1>2, <1>3, <1>9 DEF BeginsAt
    <2>3. Starts(b, cpc)
      BY <1>2, <2>2, ReachFacts DEF Starts
    <2>4. Alone(y)
      BY <1>5, ProgramAssumption DEF Alone, Computed
    <2>5. Chained(b, code)
      <3>1. 1 \in 0..2 /\ (\A i \in 1..1 : i = 1) /\ \A i \in (1 + 1)..2 : i = 2 /\ i = 1 + 1
        OBVIOUS
      <3>2. \A i \in 1..1 : code[i].k = "alloca"
        BY <1>5, <1>6, <1>9, <3>1
      <3>3. ASSUME NEW i \in (1 + 1)..2
            PROVE  /\ code[i].k # "alloca"
                   /\ i = 1 + 1 => Starts(b, code[i].at) /\ Alone(code[i])
                   /\ i # 1 + 1 => Follows(code[i - 1], code[i])
        BY <1>5, <1>6, <1>9, <2>3, <2>4, <3>1
      <3> QED BY <1>6, <1>9, <3>1, <3>2, <3>3 DEF Chained
    <2>6. Laid(c)
      BY <1>7, <2>1, <2>5 DEF Laid
    <2>7. Leads(b, code, cpc + 1)
      <3>1. code # <<>> /\ Last(code) = y
        BY <1>6, <1>9, EmptySeq DEF Last
      <3>2. ~Bare(code)
        BY <1>5, <3>1 DEF Bare
      <3> QED BY <1>2, <1>5, <3>1, <3>2, LeadsBehind
    <2>8. body' = c /\ ins' = b
      BY <1>1, <1>9 DEF c
    <2> QED BY <2>1, <2>6, <2>7, <2>8 DEF StepLaid, Due
  <1> QED BY <1>8, <1>9

(* Every action that goes on.                                               *)
LEMMA GenerateLaid ==
  ASSUME PlaceInv, NodesOK, Laid(body), Walking => Due(body, ins, cpc), Walking => FramesAt(frames, cpc),
         WaitOK, GenNext, phase' = "gen"
  PROVE  StepLaid(cpc')
  <1>1. CASE SkipRest
    <2>1. body' = body /\ ins' = ins /\ Terminated(body, ins)
      BY <1>1 DEF SkipRest
    <2> QED BY <2>1 DEF StepLaid, Due
  <1>2. ~GenDone
    BY DEF GenDone
  <1>3. CASE ~SkipRest
    <2>1. StepLaid(cpc + 1)
      BY <1>2, <1>3, SimpleLaid, IfLaid, LoopLaid, ListEndLaid, EndFunctionLaid, FunctionLaid DEF GenNext
    <2>2. cpc' = cpc + 1
      <3>1. ASSUME NEW code, GenThrow(code) PROVE FALSE
        BY <3>1 DEF GenThrow, Throw
      <3> QED BY <1>2, <1>3, <3>1
          DEF GenNext, GenFunction, GenVarDecl, GenAssign, GenPartAssign, GenExprStmt, GenReturn, GenBreak,
              GenContinue, Leave, GenIf, GenLoop, GenElse, GenEndIf, GenEndLoop, GenEndFunction,
              UndeclaredUse, Ahead
    <2> QED BY <2>1, <2>2
  <1> QED BY <1>1, <1>3

-----------------------------------------------------------------------------
(* Each instruction does its part of the node that emitted it *)

\* a branch goes where the node that emitted it, of kind k, sends the run
Branches(x, k) ==
  /\ k \in {"if", "loop", "else", "endif", "endloop", "stop", "cont"}
  /\ k = "if" => x.u = prog[x.at].u /\ x.to = << <<x.at, "then">>, <<x.at, "else">> >>
  /\ k = "loop" => \/ x.to = << <<x.at, "cond">> >>
                   \/ x.u = prog[x.at].u /\ x.to = << <<x.at, "body">>, <<x.at, "after">> >>
  /\ k = "else" => \E a \in Nodes : Closes(a, x.at) /\ x.to = << <<a, "merge">> >>
  /\ k = "endif" => \E a, e \in Nodes : Closes(a, e) /\ Closes(e, x.at) /\ x.to = << <<a, "merge">> >>
  /\ k = "endloop" => \E a \in Nodes : /\ prog[a].k = "loop" /\ Closes(a, x.at)
                                       /\ x.to = << <<a, "cond">> >>
  /\ k \in {"stop", "cont"} =>
       \E a \in OpenLoops(prog, x.at) :
         /\ \A c \in OpenLoops(prog, x.at) : c <= a
         /\ x.to = << <<a, IF k = "stop" THEN "after" ELSE "cond">> >>

\* instruction x of block b is what the node at x.at, of kind k, emits
Does(b, x, k) ==
  /\ x.at \in Nodes
  /\ x.k = "load" => k \in Evaluating /\ x.v = prog[x.at].u /\ x.v \in Vars
  /\ x.k = "call" => k \in Evaluating /\ x.u = prog[x.at].u /\ x.u \in {"void", "agg", "input"}
  /\ x.k = "store" => /\ k \in {"fn", "decl", "assign"} /\ x.v = prog[x.at].v /\ x.v \in Vars
                      /\ x.u = IF k = "fn" THEN "arg" ELSE prog[x.at].u
  /\ x.k = "pstore" => /\ k = "part" /\ x.v = prog[x.at].v /\ x.v \in Vars
                       /\ x.u = prog[x.at].u
  /\ x.k = "ret" => \/ k = "ret" /\ x.u = prog[x.at].u
                    \/ k = "endfn" /\ x.u = IF prog[FunctionOf(x.at)].t = "void" THEN None ELSE "zero"
  /\ x.k = "br" => Branches(x, k)
  /\ k = "fn" => b = <<x.at, "entry">> /\ x.k \in {"alloca", "store"}

Shape(b, x) == Does(b, x, prog[x.at].k)

(* The fields of the instructions a step makes.                             *)
LEMMA InstrFields ==
  \A v, u, t, f :
    /\ Alloca(v).k = "alloca" /\ Alloca(v).at = cpc
    /\ Load(v).k = "load" /\ Load(v).v = v /\ Load(v).at = cpc
    /\ Store(v, u).k = "store" /\ Store(v, u).v = v /\ Store(v, u).u = u /\ Store(v, u).at = cpc
    /\ StorePart(v, u).k = "pstore" /\ StorePart(v, u).v = v /\ StorePart(v, u).u = u
    /\ StorePart(v, u).at = cpc
    /\ Call(u).k = "call" /\ Call(u).u = u /\ Call(u).at = cpc
    /\ Br(t).k = "br" /\ Br(t).at = cpc /\ Br(t).to = <<t>>
    /\ CondBr(u, t, f).k = "br" /\ CondBr(u, t, f).u = u /\ CondBr(u, t, f).at = cpc
    /\ CondBr(u, t, f).to = <<t, f>>
    /\ Ret(u).k = "ret" /\ Ret(u).u = u /\ Ret(u).at = cpc
  BY DEF Alloca, Load, Store, StorePart, Call, Br, CondBr, Ret, I

(* What evaluates the operand of a node.                                    *)
LEMMA ExprShape ==
  ASSUME cpc \in Nodes, Here.k \in Evaluating, NEW b, NEW x, NEW c, <<b, x>> \in ExprCode(c, Here.u)
  PROVE  Does(b, x, Here.k)
  <1>1. Here = prog[cpc] /\ Here.k # "fn"
    BY DEF Here, Evaluating
  <1>2. CASE Here.u \in Vars /\ x = Load(Here.u)
    BY <1>1, <1>2, InstrFields DEF Does
  <1>3. CASE Here.u \in {"void", "agg", "input"} /\ x = Call(Here.u)
    BY <1>1, <1>3, InstrFields DEF Does
  <1>4. CASE x = Alloca(None)
    BY <1>1, <1>4, InstrFields DEF Does
  <1> QED BY <1>2, <1>3, <1>4 DEF ExprCode

(* A branch out of a loop goes where the innermost loop says.               *)
LEMMA LeaveShape ==
  ASSUME PlaceInv, GenNext, phase' = "gen", Here.k \in {"stop", "cont"}, ~Skipping,
         NEW b, NEW x, <<b, x>> \in LeaveCode
  PROVE  Branches(x, Here.k)
  <1>1. /\ cpc \in Nodes /\ phase = "gen" /\ cpc \in 1..Len(prog) /\ cpc \in Nat
        /\ TypeOK /\ StackOK /\ loopStack \in Seq([continueBB : Block, breakBB : Block])
    BY GenerateCode, NodeDepths DEF Nodes, PlaceInv, NestInv, FlowInv, TypeOK, GenTypeOK
  <1> DEFINE t == Last(loopStack)[IF Here.k = "stop" THEN "breakBB" ELSE "continueBB"]
  <1>2. x = Br(t)
    BY DEF LeaveCode
  <1>3. PICK a \in OpenLoops(prog, cpc) :
          Last(loopStack) = LoopInfo(a) /\ \A c \in OpenLoops(prog, cpc) : c <= a
    <2>1. Stacked(loopStack, OpenLoops(prog, cpc)) /\ OpenLoops(prog, cpc) \subseteq Nat
      BY <1>1, OpenLoopsFinite DEF StackOK
    <2>2. loopStack # <<>>
      BY ActionAt
    <2> QED BY <1>1, <2>1, <2>2, StackTop
  <1>4. t = <<a, IF Here.k = "stop" THEN "after" ELSE "cond">>
    BY <1>3 DEF LoopInfo
  <1> HIDE DEF t
  <1>5. x.at = cpc /\ x.to = <<t>>
    BY <1>2, InstrFields
  <1> QED BY <1>3, <1>4, <1>5 DEF Branches

(* What a step emits is the node's.                                         *)
LEMMA NewCodeShape ==
  ASSUME PlaceInv, Walking => FramesAt(frames, cpc), GenNext, phase' = "gen", NEW b, NEW x, <<b, x>> \in NewCode
  PROVE  Shape(b, x)
  <1>1. /\ cpc \in Nodes /\ cpc \in Nat /\ phase = "gen" /\ Here = prog[cpc] /\ Here \in AnyNode
        /\ Here.k \in {"decl", "assign", "part"} => Here.v \in Vars
    BY GenMoves, NodeDepths DEF PlaceInv, NestInv, FlowInv, TypeOK, ParserTypeOK, GenTypeOK, Nodes, Here
  <1>2. ~Skipping /\ x.at = cpc
    BY <1>1, CodeFacts
  <1>3. Does(b, x, Here.k)
    <2>1. CASE Here.k = "fn"
      <3>1. b = <<cpc, "entry">> /\ Here.v # None /\ (x = Alloca(Here.v) \/ x = Store(Here.v, "arg"))
        BY <1>2, <2>1 DEF NewCode, HeadCode
      <3>2. Here.v \in Vars
        BY <1>1, <3>1 DEF AnyNode
      <3> QED BY <1>1, <2>1, <3>1, <3>2, InstrFields DEF Does
    <2>2. ASSUME NEW c, <<b, x>> \in ExprCode(c, Here.u), Here.k \in Evaluating
          PROVE  Does(b, x, Here.k)
      BY <1>1, <2>2, ExprShape
    <2>3. CASE Here.k \in {"decl", "assign", "part", "expr", "ret"}
      <3>1. \/ <<b, x>> \in ExprCode(ins, Here.u)
            \/ Here.k = "decl" /\ x = Alloca(Here.v)
            \/ Here.k \in {"decl", "assign"} /\ x = Store(Here.v, Here.u)
            \/ Here.k = "part" /\ x = StorePart(Here.v, Here.u)
            \/ Here.k = "ret" /\ x = Ret(Here.u)
        <4>1. CASE Here.k = "decl"
          BY <1>2, <4>1 DEF NewCode
        <4>2. CASE Here.k = "assign"
          BY <1>2, <4>2 DEF NewCode
        <4>3. CASE Here.k = "part"
          BY <1>2, <4>3 DEF NewCode
        <4>4. CASE Here.k = "expr"
          BY <1>2, <4>4 DEF NewCode
        <4>5. CASE Here.k = "ret"
          BY <1>2, <4>5 DEF NewCode
        <4> QED BY <2>3, <4>1, <4>2, <4>3, <4>4, <4>5
      <3>2. CASE <<b, x>> \in ExprCode(ins, Here.u)
        BY <2>2, <2>3, <3>2 DEF Evaluating
      <3>3. CASE Here.k = "decl" /\ x = Alloca(Here.v)
        BY <1>1, <3>3, InstrFields DEF Does
      <3>4. CASE Here.k \in {"decl", "assign"} /\ x = Store(Here.v, Here.u)
        BY <1>1, <3>4, InstrFields DEF Does
      <3>5. CASE Here.k = "part" /\ x = StorePart(Here.v, Here.u)
        BY <1>1, <3>5, InstrFields DEF Does
      <3>6. CASE Here.k = "ret" /\ x = Ret(Here.u)
        BY <1>1, <3>6, InstrFields DEF Does
      <3> QED BY <3>1, <3>2, <3>3, <3>4, <3>5, <3>6
    <2>4. CASE Here.k \in {"stop", "cont"}
      <3>1. <<b, x>> \in LeaveCode
        BY <1>2, <2>4 DEF NewCode
      <3>2. Branches(x, Here.k)
        BY <1>2, <2>4, <3>1, LeaveShape
      <3>3. x.k = "br"
        BY <3>1, InstrFields DEF LeaveCode
      <3> QED BY <1>1, <1>2, <2>4, <3>2, <3>3 DEF Does
    <2>5. CASE Here.k = "if"
      <3>1. \/ <<b, x>> \in ExprCode(ins, Here.u)
            \/ x = CondBr(Here.u, <<cpc, "then">>, <<cpc, "else">>)
        BY <1>2, <2>5 DEF NewCode, IfCode
      <3>2. CASE x = CondBr(Here.u, <<cpc, "then">>, <<cpc, "else">>)
        <4>1. x.k = "br" /\ x.u = prog[x.at].u /\ x.to = << <<x.at, "then">>, <<x.at, "else">> >>
          BY <1>1, <3>2, InstrFields
        <4>2. Branches(x, Here.k)
          BY <2>5, <4>1 DEF Branches
        <4> QED BY <1>1, <1>2, <2>5, <4>1, <4>2 DEF Does
      <3> QED BY <2>2, <2>5, <3>1, <3>2 DEF Evaluating
    <2>6. CASE Here.k = "loop"
      <3>1. \/ <<b, x>> \in ExprCode(<<cpc, "cond">>, Here.u)
            \/ x = CondBr(Here.u, <<cpc, "body">>, <<cpc, "after">>)
            \/ x = Br(<<cpc, "cond">>)
        BY <1>2, <2>6 DEF NewCode, LoopCode
      <3>2. CASE x = CondBr(Here.u, <<cpc, "body">>, <<cpc, "after">>)
        <4>1. x.k = "br" /\ x.u = prog[x.at].u /\ x.to = << <<x.at, "body">>, <<x.at, "after">> >>
          BY <1>1, <3>2, InstrFields
        <4>2. Branches(x, Here.k)
          BY <2>6, <4>1 DEF Branches
        <4> QED BY <1>1, <1>2, <2>6, <4>1, <4>2 DEF Does
      <3>3. CASE x = Br(<<cpc, "cond">>)
        <4>1. x.k = "br" /\ x.to = << <<x.at, "cond">> >>
          BY <1>1, <3>3, InstrFields
        <4>2. Branches(x, Here.k)
          BY <2>6, <4>1 DEF Branches
        <4> QED BY <1>1, <1>2, <2>6, <4>1, <4>2 DEF Does
      <3> QED BY <2>2, <2>6, <3>1, <3>2, <3>3 DEF Evaluating
    <2>7. CASE Here.k \in {"else", "endif", "endloop"}
      <3> DEFINE a == Last(frames).at
      <3>1. x = Br(<<a, IF Here.k = "endloop" THEN "cond" ELSE "merge">>)
        <4>1. CASE Here.k \in {"else", "endif"}
          BY <1>2, <4>1 DEF NewCode, EndCode
        <4>2. CASE Here.k = "endloop"
          BY <1>2, <4>2 DEF NewCode, EndCode
        <4> QED BY <2>7, <4>1, <4>2
      <3>2. /\ a \in Nodes
            /\ Here.k = "else" => Closes(a, cpc)
            /\ Here.k = "endif" => \E e \in Nodes : Closes(e, cpc) /\ Closes(a, e)
            /\ Here.k = "endloop" => prog[a].k = "loop" /\ Closes(a, cpc)
        BY <2>7, ListOnTop
      <3> HIDE DEF a
      <3>3. x.k = "br" /\ x.to = << <<a, IF Here.k = "endloop" THEN "cond" ELSE "merge">> >>
        BY <3>1, InstrFields
      <3>4. Branches(x, Here.k)
        BY <1>2, <2>7, <3>2, <3>3 DEF Branches
      <3> QED BY <1>1, <1>2, <2>7, <3>3, <3>4 DEF Does
    <2>8. CASE Here.k = "endfn"
      <3>1. x = Ret(IF prog[cfn].t = "void" THEN None ELSE "zero")
        BY <1>2, <2>8 DEF NewCode, EndCode
      <3>2. FunctionOf(cpc) = cfn
        <4>1. cpc \in cfn..cpc
          BY <1>1, <2>8, InFunctionFacts DEF Walking
        <4> QED BY <1>1, <2>8, <4>1, InFunctionFacts DEF Walking
      <3> QED BY <1>1, <2>8, <3>1, <3>2, InstrFields DEF Does
    <2> QED BY <1>1, <2>1, <2>3, <2>4, <2>5, <2>6, <2>7, <2>8
            DEF AnyNode, NodeKind, Openers, Closers, Simple
  <1> QED BY <1>1, <1>2, <1>3 DEF Shape

-----------------------------------------------------------------------------
(* The invariant of the compilation *)

\* every function the walk has come to has its entry block
EntriesOK == \A f \in Nodes : f < cpc /\ prog[f].k = "fn" => <<f, "entry">> \in DOMAIN body

\* the blocks laid out along the tree, up to the node the walk is at
LayInv == /\ StorageInv
          /\ Laid(body) /\ (\A b, x : Holds(body, b, x) => Shape(b, x))
          /\ Walking => FramesAt(frames, cpc) /\ Due(body, ins, cpc)
          /\ phase \in {"gen", "done"} => EntriesOK

(* A tree that stays as it is has the same lists ...                        *)
LEMMA SameLists ==
  ASSUME prog' = prog
  PROVE  /\ \A a, j : Closes(a, j)' <=> Closes(a, j)
         /\ \A p, q : Reaches(p, q)' <=> Reaches(p, q)
         /\ \A x : Operates(x)' <=> Operates(x)
         /\ \A i : OpenLoops(prog, i)' = OpenLoops(prog, i)
         /\ Nodes' = Nodes
  BY DEF Closes, Opens, Nodes, Reaches, Idle, Operates, OpenLoops

(* ... blocks laid out in the same way ...                                  *)
LEMMA SameLayout ==
  ASSUME prog' = prog
  PROVE  /\ \A bd : Laid(bd)' <=> Laid(bd)
         /\ \A bd, b, p : Due(bd, b, p)' <=> Due(bd, b, p)
  <1>1. \A b, p : BeginsAt(b, p)' <=> BeginsAt(b, p)
    BY SameLists DEF BeginsAt
  <1>2. \A b, q : Starts(b, q)' <=> Starts(b, q)
    BY <1>1, SameLists DEF Starts
  <1>3. \A x : Alone(x)' <=> Alone(x)
    BY DEF Alone, Computed
  <1>4. \A x, y : Follows(x, y)' <=> Follows(x, y)
    BY <1>3, SameLists DEF Follows
  <1>5. \A b, s : Chained(b, s)' <=> Chained(b, s)
    BY <1>2, <1>3, <1>4 DEF Chained
  <1>6. \A b, s, p : Leads(b, s, p)' <=> Leads(b, s, p)
    BY <1>2, SameLists DEF Leads, Bare
  <1> QED BY <1>5, <1>6 DEF Laid, Due, Terminated

(* ... and the same parts for the instructions and the activations.         *)
LEMMA SameShape ==
  ASSUME prog' = prog
  PROVE  /\ \A b, x : Shape(b, x)' <=> Shape(b, x)
         /\ \A fs, c : FramesAt(fs, c)' <=> FramesAt(fs, c)
  <1>1. \A x, k : Branches(x, k)' <=> Branches(x, k)
    BY SameLists DEF Branches
  <1>2. \A b, x, k : Does(b, x, k)' <=> Does(b, x, k)
    BY <1>1, SameLists, SameTree DEF Does
  <1>3. \A f, d, c : Standing(f, d, c)' <=> Standing(f, d, c)
    BY SameLists DEF Standing, Opens
  <1> QED BY <1>2, <1>3 DEF Shape, FramesAt, Level

(* A function header makes the entry block.                                 *)
LEMMA GenerateEntries ==
  ASSUME PlaceInv, EntriesOK, GenNext, phase' = "gen", UNCHANGED prog
  PROVE  EntriesOK'
  <1>1. /\ cpc \in Nodes /\ cpc \in Nat /\ (Skips \/ Advances) /\ TypeOK /\ TreeOK /\ Here = prog[cpc]
        /\ DOMAIN body' = DOMAIN body \cup NewBlocks /\ \A k \in Nodes : k \in Nat /\ prog[k].d \in Nat
    BY GenMoves, NodeDepths DEF PlaceInv, NestInv, FlowInv, TypeOK, GenTypeOK, Nodes, Here, Grows
  <1>2. ASSUME NEW f \in Nodes, f < cpc', prog[f].k = "fn" PROVE <<f, "entry">> \in DOMAIN body'
    <2>1. CASE f < cpc
      BY <1>1, <1>2, <2>1 DEF EntriesOK
    <2>2. CASE ~(f < cpc) /\ Advances
      <3>1. f = cpc
        BY <1>1, <1>2, <2>2 DEF Advances
      <3>2. NewBlocks = {<<cpc, "entry">>}
        BY <1>1, <1>2, <2>2, <3>1 DEF NewBlocks, Advances
      <3> QED BY <1>1, <3>1, <3>2
    <2>3. CASE ~(f < cpc) /\ Skips
      <3>1. Here.k \in Statements /\ cpc' \in ListEnds(cpc)
        BY <2>3 DEF Skips, Skipping
      <3>2. \A k \in cpc..(cpc' - 1) : prog[k].d >= Level(Here)
        BY <1>1, <3>1, SkipLevel
      <3>3. cpc' \in Nat
        BY <1>1, <3>1, SkipLevel
      <3>4. f \in cpc..(cpc' - 1)
        <4>1. f \in Nat /\ cpc \in Nat /\ ~(f < cpc) /\ f < cpc'
          BY <1>1, <1>2, <2>3
        <4>2. \A i, m, n \in Nat : ~(i < m) /\ i < n => i \in m..(n - 1)
          OBVIOUS
        <4> QED BY <4>1, <4>2, <3>3
      <3>5. prog[f].d = 0
        <4>1. Level(prog[f]) = 0
          BY <1>1, <1>2 DEF TreeOK
        <4> QED BY <1>2, <4>1 DEF Level, Closers
      <3>6. Level(Here) # 0 /\ Level(Here) \in Nat
        <4>1. Here.k # "fn"
          BY <3>1 DEF Statements, Simple
        <4> QED BY <1>1, <4>1 DEF TreeOK, Level
      <3>7. 0 >= Level(Here)
        BY <3>2, <3>4, <3>5
      <3> QED BY <3>6, <3>7
    <2> QED BY <1>1, <2>1, <2>2, <2>3
  <1> QED BY <1>2 DEF EntriesOK, Nodes

(* What earlier proofs know wherever the blocks are laid out.               *)
LEMMA LayParts ==
  ASSUME LayInv
  PROVE  /\ PlaceInv /\ NodesOK /\ CheckInv /\ BranchOK /\ TypeOK /\ TreeOK /\ MatchOK /\ Bodies(body)
         /\ phase = "gen" => WaitOK
  <1>1. StorageInv
    BY DEF LayInv
  <1>2. AgreeInv
    BY <1>1 DEF StorageInv
  <1>3. CheckInv /\ WalkingOK
    BY <1>2 DEF AgreeInv
  <1>4. BranchInv /\ NodesOK
    BY <1>3 DEF CheckInv
  <1>5. PlaceInv /\ BranchOK
    BY <1>4 DEF BranchInv
  <1>6. FlowInv /\ MatchOK
    BY <1>5 DEF PlaceInv, NestInv
  <1>7. TypeOK /\ TreeOK
    BY <1>6 DEF FlowInv
  <1> QED BY <1>3, <1>4, <1>5, <1>6, <1>7 DEF WalkingOK, TypeOK, GenTypeOK, Bodies

(* A step of the generator lays out what it emits.                          *)
LEMMA GenerateLayout ==
  ASSUME LayInv, Generate, phase' = "gen", StorageInv'
  PROVE  LayInv'
  <1>1. GenNext /\ prog' = prog /\ UNCHANGED prog
    BY DEF Generate, parserVars
  <1>2. PlaceInv /\ NodesOK
    BY LayParts
  <1>3. Grows /\ cpc \in Nodes /\ phase = "gen"
    BY <1>1, <1>2, GenerateCode
  <1>4. WaitOK /\ EntriesOK /\ Laid(body) /\ \A b, x : Holds(body, b, x) => Shape(b, x)
    BY <1>3, LayParts DEF LayInv
  <1>5. Walking => FramesAt(frames, cpc) /\ Due(body, ins, cpc)
    BY DEF LayInv
  <1>6. StepLaid(cpc')
    BY <1>1, <1>2, <1>4, <1>5, GenerateLaid
  <1> PICK bd : bd = body'
    OBVIOUS
  <1> PICK c : c = cpc'
    OBVIOUS
  <1> PICK i : i = ins'
    OBVIOUS
  <1> PICK fs : fs = frames'
    OBVIOUS
  <1>7. Laid(bd)' /\ (c \in Nodes /\ prog[c].k # "fn" => Due(bd, i, c)')
    BY <1>1, <1>6, SameLayout DEF StepLaid
  <1>8. c \in Nodes /\ prog[c].k # "fn" => FramesAt(fs, c)'
    <2>1. c \in Nodes /\ prog[c].k # "fn" => FramesAt(fs, c)
      BY <1>1, <1>2, <1>5, GenerateFrames
    <2> QED BY <1>1, <2>1, SameShape
  <1>9. ASSUME NEW b, NEW x, Holds(bd, b, x) PROVE Shape(b, x)'
    <2>1. Holds(body, b, x) \/ <<b, x>> \in NewCode
      BY <1>3, <1>9 DEF Grows, Adds
    <2>2. Shape(b, x)
      BY <1>1, <1>2, <1>4, <1>5, <2>1, NewCodeShape
    <2> QED BY <1>1, <2>2, SameShape
  <1>10. EntriesOK'
    BY <1>1, <1>2, <1>4, GenerateEntries
  <1>11. Laid(body)' /\ \A b, x : Holds(body, b, x)' => Shape(b, x)'
    <2>1. \A b, x : Holds(body, b, x)' <=> Holds(bd, b, x)
      BY DEF Holds
    <2>2. Laid(body)'
      BY <1>7 DEF Laid, Chained
    <2> QED BY <1>9, <2>1, <2>2
  <1>12. Walking' => FramesAt(frames, cpc)' /\ Due(body, ins, cpc)'
    <2> SUFFICES ASSUME Walking' PROVE FramesAt(frames, cpc)' /\ Due(body, ins, cpc)'
      OBVIOUS
    <2>1. c \in Nodes /\ prog[c].k # "fn"
      BY <1>1 DEF Walking, Here, Nodes
    <2>2. FramesAt(fs, c)' /\ Due(bd, i, c)'
      BY <1>7, <1>8, <2>1
    <2>3. FramesAt(frames, cpc)'
      BY <2>2 DEF FramesAt, Standing, Level
    <2>4. Due(body, ins, cpc)'
      BY <2>2 DEF Due, Terminated, Leads, Bare
    <2> QED BY <2>3, <2>4
  <1> QED BY <1>10, <1>11, <1>12 DEF LayInv

(* Before anything is generated there is nothing to lay out.                *)
LEMMA NothingLaid ==
  ASSUME StorageInv', DOMAIN body' = {}, phase' \notin {"gen", "done"}
  PROVE  LayInv'
  <1>1. Laid(body)' /\ \A b, x : ~Holds(body', b, x)
    BY DEF Laid, Holds
  <1> QED BY <1>1 DEF LayInv, Walking

(* The first node is the header of a function.                              *)
LEMMA LayingStarts ==
  ASSUME LayInv, Check, phase' = "gen", StorageInv'
  PROVE  LayInv'
  <1>1. phase = "check" /\ body' = body /\ prog' = prog /\ cpc' = cpc
    BY Stage DEF genVars, parserVars
  <1>2. PlaceInv /\ PlaceInv'
    BY LayParts DEF StorageInv, AgreeInv, CheckInv, BranchInv
  <1>3. DOMAIN body = {} /\ cpc = 1
    BY <1>1, <1>2 DEF PlaceInv, NestInv, FlowInv, WalkOK, StackOK
  <1>4. Laid(body)' /\ \A b, x : ~Holds(body', b, x)
    BY <1>1, <1>3 DEF Laid, Holds
  <1>5. TreeOK' /\ cpc' = 1
    BY <1>1, <1>2, <1>3 DEF PlaceInv, NestInv, FlowInv
  <1>6. ~Walking'
    <2> SUFFICES ASSUME Walking' PROVE FALSE
      OBVIOUS
    <2>1. cpc' \in Nodes' /\ prog'[cpc'].k # "fn"
      BY DEF Walking, Here
    <2> QED BY <1>5, <2>1 DEF TreeOK, Level
  <1>7. EntriesOK'
    <2>1. \A f \in Nodes' : ~(f < cpc')
      BY <1>5 DEF Nodes
    <2> QED BY <2>1 DEF EntriesOK
  <1> QED BY <1>4, <1>6, <1>7 DEF LayInv

(* The module stays laid out while it stays as it is.                       *)
LEMMA LayingStays ==
  ASSUME LayInv, StorageInv', UNCHANGED <<prog, genVars>>,
         Walking' => Walking, phase' \in {"gen", "done"} => phase \in {"gen", "done"}
  PROVE  LayInv'
  <1>0. prog' = prog /\ body' = body /\ ins' = ins /\ cpc' = cpc /\ frames' = frames
    BY DEF genVars
  <1>1. Laid(body)'
    <2> PICK bd : bd = body
      OBVIOUS
    <2>1. Laid(bd)'
      BY <1>0, SameLayout DEF LayInv
    <2> QED BY <1>0, <2>1 DEF Laid, Chained
  <1>2. \A b, x : Holds(body, b, x)' => Shape(b, x)'
    BY <1>0, SameShape DEF LayInv, Holds
  <1>3. Walking' => FramesAt(frames, cpc)' /\ Due(body, ins, cpc)'
    <2> SUFFICES ASSUME Walking' PROVE FramesAt(frames, cpc)' /\ Due(body, ins, cpc)'
      OBVIOUS
    <2> PICK bd : bd = body
      OBVIOUS
    <2> PICK c : c = cpc
      OBVIOUS
    <2> PICK i : i = ins
      OBVIOUS
    <2> PICK fs : fs = frames
      OBVIOUS
    <2>1. FramesAt(fs, c)' /\ Due(bd, i, c)'
      BY <1>0, SameLayout, SameShape DEF LayInv
    <2>2. FramesAt(frames, cpc)'
      BY <1>0, <2>1 DEF FramesAt, Standing, Level
    <2>3. Due(body, ins, cpc)'
      BY <1>0, <2>1 DEF Due, Terminated, Leads, Bare
    <2> QED BY <2>2, <2>3
  <1>4. phase' \in {"gen", "done"} => EntriesOK'
    BY <1>0 DEF LayInv, EntriesOK, Nodes
  <1> QED BY <1>1, <1>2, <1>3, <1>4 DEF LayInv

(* Every step of the pipeline keeps the layout.                             *)
LEMMA LayStep == LayInv /\ [Next]_vars => LayInv'
  <1> SUFFICES ASSUME LayInv, [Next]_vars PROVE LayInv'
    OBVIOUS
  <1>1. StorageInv /\ StorageInv'
    BY StorageStep DEF LayInv
  <1>2. CASE (Parse \/ Check) /\ phase' # "gen"
    <2>1. phase \in {"parse", "check"} /\ body' = body /\ phase' \notin {"gen", "done"}
      BY <1>2, Stage DEF genVars
    <2>2. DOMAIN body = {}
      BY <2>1, LayParts DEF PlaceInv, NestInv, FlowInv, WalkOK
    <2>3. DOMAIN body' = {}
      BY <2>1, <2>2
    <2> QED BY <1>1, <2>1, <2>3, NothingLaid
  <1>3. CASE Check /\ phase' = "gen"
    BY <1>1, <1>3, LayingStarts
  <1>4. CASE Generate /\ phase' = "gen"
    BY <1>1, <1>4, GenerateLayout
  <1>5. CASE Generate /\ phase' # "gen"
    <2>1. UNCHANGED <<prog, genVars>> /\ phase = "gen" /\ GenNext
      BY <1>5, StopsStill, Stage DEF Generate, parserVars
    <2>2. ~Walking'
      BY <1>5 DEF Walking
    <2> QED BY <1>1, <2>1, <2>2, LayingStays
  <1>6. CASE Finished \/ UNCHANGED vars
    <2>1. UNCHANGED <<prog, genVars>> /\ phase' = phase
      BY <1>6 DEF Finished, vars, genVars
    <2>2. Walking' => Walking
      BY <2>1 DEF Walking, Here, Nodes, genVars
    <2> QED BY <1>1, <2>1, <2>2, LayingStays
  <1>7. Parse => phase' # "gen"
    BY Stage
  <1> QED BY <1>2, <1>3, <1>4, <1>5, <1>6, <1>7 DEF Next

(* There are no blocks before anything is parsed.                           *)
LEMMA LayInit == Init => LayInv
  <1> SUFFICES ASSUME Init PROVE LayInv
    OBVIOUS
  <1>1. StorageInv
    BY StorageInit
  <1>2. phase = "parse" /\ DOMAIN body = {}
    BY DEF Init, GenInit
  <1> QED BY <1>1, <1>2 DEF LayInv, Laid, Holds, Walking

(* In every module that is being generated, or is, each block holds slots   *)
(* and then the code of one statement of the source behind the other, and   *)
(* each instruction is one that its node asks for.                          *)
THEOREM LayoutCorrect == Spec => []LayInv
  BY LayInit, LayStep, PTL DEF Spec

-----------------------------------------------------------------------------
(* Running the finished module *)

\* the blocks of the module
Blocks == DOMAIN body

\* every block ends in its one terminator
AllEnd == \A b \in Blocks : body[b] \in Seq(Instr) /\ Ended(body[b]) /\ NoInner(body[b])

(* What the run finds in a finished module.                                 *)
LEMMA ModuleFacts ==
  ASSUME LayInv, phase = "done"
  PROVE  /\ AllEnd /\ Laid(body) /\ TypeOK /\ TreeOK /\ MatchOK /\ NodesOK /\ open = <<>>
         /\ \A f \in Nodes : prog[f].k = "fn" => <<f, "entry">> \in Blocks
         /\ \A b, x : Holds(body, b, x) =>
              /\ Shape(b, x) /\ x \in Instr
              /\ x.k = "alloca" => b[2] = "entry"
              /\ \A t \in Targets(x) : t \in Blocks /\ t[2] # "entry"
  <1>1. /\ PlaceInv /\ NodesOK /\ CheckInv /\ BranchOK /\ TypeOK /\ TreeOK /\ MatchOK /\ Bodies(body)
        /\ StorageInv /\ AgreeInv /\ FlowInv
    BY LayParts DEF LayInv, StorageInv, PlaceInv, NestInv
  <1>2. (\A i \in Nodes : i < cpc) /\ cpc \notin Nodes
    <2>1. \A i \in Nodes : i < cpc
      BY <1>1, WalkOver
    <2>2. cpc \in Nat
      BY <1>1 DEF TypeOK, GenTypeOK
    <2> QED BY <2>1, <2>2
  <1>3. AllEnd
    <2>1. BlocksOK
      BY <1>1, FlowParts DEF FlowInv
    <2>2. ~Inside
      BY <1>2 DEF Inside
    <2> QED BY <1>1, <2>1, <2>2 DEF BlocksOK, AllEnd, Blocks, Bodies
  <1>4. open = <<>>
    BY <1>1 DEF TreeOK
  <1>5. \A f \in Nodes : prog[f].k = "fn" => <<f, "entry">> \in Blocks
    BY <1>2 DEF LayInv, EntriesOK, Blocks
  <1>6. ASSUME NEW b, NEW x, Holds(body, b, x)
        PROVE  /\ Shape(b, x) /\ x \in Instr
               /\ x.k = "alloca" => b[2] = "entry"
               /\ \A t \in Targets(x) : t \in Blocks /\ t[2] # "entry"
    <2>1. Shape(b, x)
      BY <1>6 DEF LayInv
    <2>2. x \in Instr
      BY <1>1, <1>6 DEF Holds, Bodies
    <2>3. x.k = "alloca" => b[2] = "entry"
      BY <1>1, <1>6 DEF StorageInv, SlotsAtEntry
    <2>4. \A t \in Targets(x) : t \in Blocks /\ t[2] # "entry"
      BY <1>1, <1>6 DEF BranchOK, Goes, Blocks
    <2> QED BY <2>1, <2>2, <2>3, <2>4
  <1> QED BY <1>1, <1>3, <1>4, <1>5, <1>6 DEF LayInv

(* What stands behind an instruction, and what in front of it.              *)
LEMMA ChainAt ==
  ASSUME NEW b, NEW s \in Seq(Instr), Chained(b, s), NEW i \in 1..Len(s), s[i].k # "alloca"
  PROVE  /\ i < Len(s) => /\ i + 1 \in 1..Len(s) /\ s[i + 1].k # "alloca"
                          /\ Follows(s[i], s[i + 1])
         /\ i = 1 => Starts(b, s[i].at) /\ Alone(s[i])
  <1> PICK l \in Nat : l = Len(s)
    OBVIOUS
  <1> PICK n \in 0..l :
        /\ \A j \in 1..n : s[j].k = "alloca"
        /\ \A j \in (n + 1)..l :
             /\ s[j].k # "alloca"
             /\ j = n + 1 => Starts(b, s[j].at) /\ Alone(s[j])
             /\ j # n + 1 => Follows(s[j - 1], s[j])
    BY DEF Chained
  <1>1. i \in 1..l /\ i \in (n + 1)..l
    OBVIOUS
  <1>2. i < l => i + 1 \in (n + 1)..l /\ i + 1 # n + 1 /\ (i + 1) - 1 = i
    BY <1>1
  <1>3. i = 1 => i = n + 1
    BY <1>1
  <1>4. i < l => s[i + 1].k # "alloca" /\ Follows(s[i], s[i + 1])
    BY <1>2
  <1> QED BY <1>1, <1>3, <1>4

(* The run starts behind the slots.                                         *)
LEMMA SlotsInFront ==
  ASSUME AllEnd, Laid(body), NEW b \in Blocks
  PROVE  \E n \in 0..(Len(body[b]) - 1) :
           /\ Cardinality(Slots(b)) = n /\ body[b][n + 1].k # "alloca"
           /\ Starts(b, body[b][n + 1].at) /\ Alone(body[b][n + 1])
  <1>1. body[b] \in Seq(Instr) /\ Ended(body[b]) /\ Chained(b, body[b])
    BY DEF AllEnd, Laid, Blocks
  <1> PICK s \in Seq(Instr) : s = body[b]
    BY <1>1
  <1> PICK l \in Nat : l = Len(s)
    OBVIOUS
  <1> PICK n \in 0..l :
        /\ \A j \in 1..n : s[j].k = "alloca"
        /\ \A j \in (n + 1)..l :
             /\ s[j].k # "alloca"
             /\ j = n + 1 => Starts(b, s[j].at) /\ Alone(s[j])
             /\ j # n + 1 => Follows(s[j - 1], s[j])
    BY <1>1 DEF Chained
  <1>2. l # 0 /\ s[l].k # "alloca"
    BY <1>1 DEF Ended, Last, Terminators
  <1>3. n < l
    BY <1>2
  <1>4. n + 1 \in (n + 1)..l
    BY <1>3
  <1>5. Slots(b) = 1..n
    <2>1. Slots(b) = {i \in 1..l : \A j \in 1..i : s[j].k = "alloca"}
      BY DEF Slots
    <2>2. \A i \in 1..l : (\A j \in 1..i : s[j].k = "alloca") <=> i <= n
      <3> SUFFICES ASSUME NEW i \in 1..l PROVE (\A j \in 1..i : s[j].k = "alloca") <=> i <= n
        OBVIOUS
      <3>1. i \in 1..i /\ (~(i <= n) => i \in (n + 1)..l)
        OBVIOUS
      <3>2. i <= n => \A j \in 1..i : j \in 1..n
        OBVIOUS
      <3> QED BY <3>1, <3>2
    <2> QED BY <1>3, <2>1, <2>2
  <1>6. Cardinality(1..n) = n
    BY FS_Interval
  <1> QED BY <1>3, <1>4, <1>5, <1>6

\* the run stands at an instruction, behind the slots, with what it needs
AtWork == /\ blk \in Blocks /\ idx \in 1..Len(body[blk]) /\ Insn.k # "alloca"
          /\ ~Alone(Insn) => reg \in Source!Values(mem, Insn.u)

MachineOK == /\ mem \in [Vars -> Source!Value]
             /\ phase # "done" => blk = NoBlock /\ result = "none"
             /\ blk # NoBlock => phase = "done" /\ result = "none" /\ AtWork

RunInv == LayInv /\ MachineOK

(* What an operand may be is a value.                                       *)
LEMMA ValuesType ==
  ASSUME mem \in [Vars -> Source!Value], NEW u \in Operand \cup {None, "arg", "zero"}
  PROVE  /\ Source!Values(mem, u) \subseteq Source!Value
         /\ u \in Vars => Source!Values(mem, u) = {mem[u]}
         /\ u = "agg" => Source!Values(mem, u) = {"one"}
         /\ u = "input" => Source!Values(mem, u) = Known
         /\ u = "void" => Source!Values(mem, u) = {"undef"}
         /\ "none" \notin Source!Value
  <1>1. CASE u \in Vars
    BY <1>1, ProgramAssumption DEF Source!Values, Source!Value, Source!Known, Literals, Known
  <1>2. CASE u \notin Vars
    BY <1>2, ProgramAssumption
       DEF Source!Values, Source!Value, Source!Known, Operand, Literals, Known
  <1> QED BY <1>1, <1>2

(* An instruction uses a value that its operand may have.                   *)
LEMMA UsedValue ==
  ASSUME mem \in [Vars -> Source!Value], NEW x \in Instr, x.k \notin {"load", "call"},
         ~Alone(x) => reg \in Source!Values(mem, x.u)
  PROVE  Used(x.u) \subseteq Source!Values(mem, x.u)
  <1>0. x.u \in Operand \cup {None, "arg", "zero"}
    BY DEF Instr
  <1>1. CASE x.u \in Computed
    <2>1. Used(x.u) = {reg}
      BY <1>1, ProgramAssumption DEF Used, Computed, Literals
    <2> QED BY <1>1, <2>1 DEF Alone
  <1>2. CASE x.u \notin Computed
    <2>1. x.u \notin Vars /\ x.u \in {"lit", "zero", "arg", None}
      BY <1>0, <1>2 DEF Computed, Operand, Literals
    <2> QED BY <2>1, ProgramAssumption DEF Used, Source!Values, Known, Source!Known, Literals
  <1> QED BY <1>1, <1>2

(* The instruction at which the run stands.                                 *)
LEMMA AtWorkFacts ==
  ASSUME RunInv, blk # NoBlock
  PROVE  /\ phase = "done" /\ result = "none" /\ AtWork /\ mem \in [Vars -> Source!Value]
         /\ Insn \in Instr /\ Holds(body, blk, Insn) /\ Shape(blk, Insn)
         /\ Insn.k \in Terminators <=> idx = Len(body[blk])
         /\ idx \in Nat /\ Len(body[blk]) \in Nat
         /\ idx # Len(body[blk]) =>
              /\ idx + 1 \in 1..Len(body[blk]) /\ body[blk][idx + 1].k # "alloca"
              /\ Follows(Insn, body[blk][idx + 1])
         /\ \A t \in Targets(Insn) : t \in Blocks /\ t[2] # "entry" /\ t # NoBlock
  <1>1. phase = "done" /\ result = "none" /\ AtWork /\ mem \in [Vars -> Source!Value] /\ LayInv
    BY DEF RunInv, MachineOK
  <1> PICK s \in Seq(Instr) : s = body[blk]
    BY <1>1, ModuleFacts DEF AtWork, AllEnd
  <1>2. Ended(s) /\ NoInner(s) /\ Chained(blk, s)
    BY <1>1, ModuleFacts DEF AtWork, AllEnd, Laid, Blocks
  <1> PICK l \in Nat : l = Len(s)
    OBVIOUS
  <1> PICK i \in 1..l : i = idx
    BY <1>1 DEF AtWork
  <1>3. Insn = s[i] /\ s[i] \in Instr /\ s[i].k # "alloca" /\ blk \in Blocks
    BY <1>1 DEF AtWork, Insn
  <1>4. Holds(body, blk, Insn)
    BY <1>3 DEF Holds, Blocks
  <1>5. Shape(blk, Insn) /\ \A t \in Targets(Insn) : t \in Blocks /\ t[2] # "entry" /\ t # NoBlock
    BY <1>1, <1>4, ModuleFacts DEF NoBlock
  <1>6. Insn.k \in Terminators <=> i = l
    <2>1. s[l].k \in Terminators
      BY <1>2 DEF Ended, Last
    <2>2. i # l => i \in 1..(l - 1)
      OBVIOUS
    <2>3. i # l => s[i].k \notin Terminators
      BY <1>2, <2>2 DEF NoInner
    <2> QED BY <1>3, <2>1, <2>3
  <1>7. i # l => i + 1 \in 1..l /\ s[i + 1].k # "alloca" /\ Follows(s[i], s[i + 1])
    <2>1. i # l => i < l
      OBVIOUS
    <2> QED BY <1>2, <1>3, <2>1, ChainAt
  <1> QED BY <1>1, <1>3, <1>4, <1>5, <1>6, <1>7

(* The next instruction of the block has what it needs.                     *)
LEMMA WorksOn ==
  ASSUME RunInv, blk # NoBlock, UNCHANGED vars, blk' = blk, idx' = idx + 1, result' = result,
         mem' \in [Vars -> Source!Value], Insn.k \notin Terminators,
         LET y == body[blk][idx + 1] IN ~Alone(y) => reg' \in Source!Values(mem', y.u)
  PROVE  MachineOK'
  <1> PICK y : y = body[blk][idx + 1]
    OBVIOUS
  <1>1. phase' = phase /\ body' = body
    BY DEF vars
  <1>2. /\ phase = "done" /\ result = "none" /\ blk \in Blocks
        /\ idx + 1 \in 1..Len(body[blk]) /\ y.k # "alloca"
    BY AtWorkFacts DEF AtWork
  <1>3. Insn' = y
    BY <1>1 DEF Insn
  <1>4. Blocks' = Blocks /\ (Alone(y)' <=> Alone(y))
    BY <1>1 DEF Blocks, Alone, Computed
  <1>5. ~Alone(y) => reg' \in Source!Values(mem', y.u)
    OBVIOUS
  <1>6. ~Alone(Insn)' => (reg \in Source!Values(mem, Insn.u))'
    BY <1>3, <1>5 DEF Alone, Computed
  <1>7. AtWork'
    BY <1>1, <1>2, <1>3, <1>4, <1>6 DEF AtWork
  <1> QED BY <1>1, <1>2, <1>7 DEF MachineOK

(* What a load or a call leaves is what the statement uses.                 *)
LEMMA OperandReady ==
  ASSUME RunInv, blk # NoBlock, Insn.k \in {"load", "call"}, NEW w,
         Insn.k = "load" => w = mem[Insn.v],
         Insn.k = "call" => w \in CASE Insn.u = "input" -> Known
                                    [] Insn.u = "agg"   -> {"one"}
                                    [] Insn.u = "void"  -> {"undef"}
  PROVE  LET y == body[blk][idx + 1] IN ~Alone(y) => w \in Source!Values(mem, y.u)
  <1> PICK y : y = body[blk][idx + 1]
    OBVIOUS
  <1> SUFFICES ASSUME ~Alone(y) PROVE w \in Source!Values(mem, y.u)
    OBVIOUS
  <1>1. Follows(Insn, y) /\ Shape(blk, Insn) /\ mem \in [Vars -> Source!Value]
    BY AtWorkFacts DEF Terminators
  <1>2. Operates(Insn) /\ y.u = prog[Insn.at].u
    BY <1>1 DEF Follows
  <1>3. CASE Insn.k = "load"
    <2>1. y.u \in Vars /\ w = mem[y.u]
      BY <1>1, <1>2, <1>3 DEF Shape, Does
    <2> QED BY <1>1, <2>1, ValuesType DEF Operand
  <1>4. CASE Insn.k = "call"
    <2>1. y.u = Insn.u /\ y.u \in {"void", "agg", "input"}
      BY <1>1, <1>2, <1>4 DEF Shape, Does
    <2>2. y.u \in Operand
      BY <2>1 DEF Operand, Literals
    <2> QED BY <1>1, <1>4, <2>1, <2>2, ValuesType
  <1> QED BY <1>3, <1>4

(* A store, a branch and a return.                                          *)
LEMMA StoreWorks ==
  ASSUME RunInv, ExecStore
  PROVE  MachineOK'
  <1>1. blk # NoBlock /\ Insn.k \in {"store", "pstore"} /\ UNCHANGED vars
    BY DEF ExecStore, Executing
  <1>2. /\ Insn \in Instr /\ AtWork /\ mem \in [Vars -> Source!Value] /\ Insn.k \notin Terminators
        /\ Shape(blk, Insn)
    BY <1>1, AtWorkFacts DEF Terminators
  <1> PICK w \in Used(Insn.u) : mem' = [mem EXCEPT ![Insn.v] = w]
    BY DEF ExecStore
  <1>3. w \in Source!Value
    <2>1. Used(Insn.u) \subseteq Source!Values(mem, Insn.u)
      BY <1>1, <1>2, UsedValue DEF AtWork
    <2>2. Insn.u \in Operand \cup {None, "arg", "zero"}
      BY <1>2 DEF Instr
    <2> QED BY <1>2, <2>1, <2>2, ValuesType
  <1>4. mem' \in [Vars -> Source!Value]
    BY <1>2, <1>3
  <1>5. Follows(Insn, body[blk][idx + 1]) /\ ~Operates(Insn)
    BY <1>1, <1>2, AtWorkFacts DEF Operates, Terminators
  <1>6. Alone(body[blk][idx + 1])
    BY <1>5 DEF Follows
  <1> QED BY <1>1, <1>2, <1>4, <1>6, WorksOn DEF ExecStore

(* A block is entered at its first instruction, but for the slots.          *)
LEMMA BlockStarts ==
  ASSUME RunInv, phase = "done", NEW b \in Blocks, b[2] # "entry"
  PROVE  /\ 1 \in 1..Len(body[b]) /\ body[b][1].k # "alloca"
         /\ Starts(b, body[b][1].at) /\ Alone(body[b][1])
         /\ Holds(body, b, body[b][1]) /\ Shape(b, body[b][1])
  <1>1. /\ body[b] \in Seq(Instr) /\ Ended(body[b]) /\ Chained(b, body[b])
        /\ \A x : Holds(body, b, x) => x.k # "alloca" /\ Shape(b, x)
    BY ModuleFacts DEF RunInv, AllEnd, Laid, Blocks
  <1> PICK s \in Seq(Instr) : s = body[b]
    BY <1>1
  <1>2. 1 \in 1..Len(s)
    BY <1>1 DEF Ended
  <1>3. Holds(body, b, s[1])
    BY <1>2 DEF Holds, Blocks
  <1> QED BY <1>1, <1>2, <1>3, ChainAt

(* A branch comes to the first instruction of its target at work ...        *)
LEMMA BranchWorks ==
  ASSUME RunInv, ExecBranch
  PROVE  MachineOK' /\ blk' \in Targets(Insn)
  <1>1. blk # NoBlock /\ Insn.k = "br" /\ UNCHANGED vars /\ idx' = 1 /\ UNCHANGED <<mem, reg, result>>
    BY DEF ExecBranch, Executing
  <1>2. Insn \in Instr
    BY <1>1, AtWorkFacts
  <1>3. blk' \in Targets(Insn)
    BY <1>2 DEF ExecBranch, Targets, Instr
  <1>4. /\ phase = "done" /\ result = "none" /\ mem \in [Vars -> Source!Value]
        /\ blk' \in Blocks /\ blk'[2] # "entry"
    BY <1>1, <1>3, AtWorkFacts
  <1> PICK b : b = blk'
    OBVIOUS
  <1>5. 1 \in 1..Len(body[b]) /\ body[b][1].k # "alloca" /\ Alone(body[b][1])
    BY <1>4, BlockStarts
  <1>6. body' = body /\ phase' = phase
    BY <1>1 DEF vars
  <1>7. AtWork'
    BY <1>1, <1>4, <1>5, <1>6 DEF AtWork, Insn, Blocks, Alone, Computed
  <1> QED BY <1>1, <1>3, <1>4, <1>6, <1>7 DEF MachineOK

(* ... and so does the call of a function.                                  *)
LEMMA EnterWorks ==
  ASSUME RunInv, Enter
  PROVE  MachineOK'
  <1>1. /\ phase = "done" /\ result = "none" /\ LayInv /\ mem \in [Vars -> Source!Value]
        /\ UNCHANGED <<vars, mem, reg, result>>
    BY DEF Enter, RunInv, MachineOK
  <1> PICK f \in Nodes : /\ prog[f].k = "fn" /\ blk' = <<f, "entry">>
                         /\ idx' = Cardinality(Slots(<<f, "entry">>)) + 1
    BY DEF Enter
  <1> PICK b : b = <<f, "entry">>
    OBVIOUS
  <1>2. b \in Blocks /\ AllEnd /\ Laid(body)
    BY <1>1, ModuleFacts
  <1> PICK n \in 0..(Len(body[b]) - 1) :
        /\ Cardinality(Slots(b)) = n /\ body[b][n + 1].k # "alloca"
        /\ Starts(b, body[b][n + 1].at) /\ Alone(body[b][n + 1])
    BY <1>2, SlotsInFront
  <1>3. n + 1 \in 1..Len(body[b])
    <2>1. Len(body[b]) \in Nat
      BY <1>2 DEF AllEnd
    <2> QED BY <2>1
  <1>4. blk' = b /\ idx' = n + 1 /\ body' = body /\ phase' = phase
    BY <1>1 DEF vars
  <1>5. AtWork'
    BY <1>2, <1>3, <1>4 DEF AtWork, Insn, Blocks, Alone, Computed
  <1> QED BY <1>1, <1>4, <1>5 DEF MachineOK

(* Nothing runs before the module is finished, and then the run keeps to    *)
(* its instructions.                                                        *)
LEMMA RunStep == RunInv /\ [RunNext]_allVars => RunInv'
  <1> SUFFICES ASSUME RunInv, [RunNext]_allVars PROVE RunInv'
    OBVIOUS
  <1>1. LayInv /\ MachineOK
    BY DEF RunInv
  <1>2. [Next]_vars
    <2>1. Compile => Next
      BY DEF Compile, Next
    <2>2. Machine => UNCHANGED vars
      BY DEF Machine, Enter, ExecLoad, ExecCall, ExecStore, ExecBranch, ExecReturn, Executing, vars
    <2>3. Over \/ UNCHANGED allVars => UNCHANGED vars
      BY DEF Over, allVars
    <2> QED BY <2>1, <2>2, <2>3 DEF RunNext
  <1>3. LayInv'
    BY <1>1, <1>2, LayStep
  <1>4. CASE Compile
    <2>1. phase # "done" /\ UNCHANGED machineVars
      BY <1>4, Stage DEF Compile
    <2>2. blk = NoBlock /\ result = "none" /\ mem \in [Vars -> Source!Value]
      BY <1>1, <2>1 DEF MachineOK
    <2> QED BY <1>3, <2>1, <2>2 DEF RunInv, MachineOK, machineVars
  <1>5. CASE Over \/ UNCHANGED allVars
    <2>1. UNCHANGED <<phase, body, blk, idx, mem, reg, result>>
      BY <1>5 DEF Over, allVars, vars, machineVars
    <2> QED BY <1>1, <1>3, <2>1 DEF RunInv, MachineOK, AtWork, Insn, Blocks, Alone, Computed
  <1>6. CASE ExecLoad
    <2>1. /\ blk # NoBlock /\ Insn.k = "load" /\ UNCHANGED vars /\ reg' = mem[Insn.v] /\ mem' = mem
          /\ idx' = idx + 1 /\ blk' = blk /\ result' = result
      BY <1>6 DEF ExecLoad, Executing
    <2>2. mem \in [Vars -> Source!Value] /\ Insn.k \notin Terminators
      BY <1>1, <2>1 DEF MachineOK, Terminators
    <2>3. LET y == body[blk][idx + 1] IN ~Alone(y) => reg' \in Source!Values(mem, y.u)
      BY <2>1, OperandReady
    <2> QED BY <1>3, <2>1, <2>2, <2>3, WorksOn DEF RunInv
  <1>7. CASE ExecCall
    <2>1. /\ blk # NoBlock /\ Insn.k = "call" /\ UNCHANGED vars /\ mem' = mem
          /\ idx' = idx + 1 /\ blk' = blk /\ result' = result
          /\ reg' \in CASE Insn.u = "input" -> Known
                        [] Insn.u = "agg"   -> {"one"}
                        [] Insn.u = "void"  -> {"undef"}
      BY <1>7 DEF ExecCall, Executing
    <2>2. mem \in [Vars -> Source!Value] /\ Insn.k \notin Terminators
      BY <1>1, <2>1 DEF MachineOK, Terminators
    <2>3. LET y == body[blk][idx + 1] IN ~Alone(y) => reg' \in Source!Values(mem, y.u)
      BY <2>1, OperandReady
    <2> QED BY <1>3, <2>1, <2>2, <2>3, WorksOn DEF RunInv
  <1>8. CASE ExecReturn
    <2>1. blk # NoBlock /\ UNCHANGED vars /\ blk' = NoBlock /\ UNCHANGED <<mem, reg>>
      BY <1>8 DEF ExecReturn, Executing
    <2>2. phase = "done" /\ phase' = phase /\ mem \in [Vars -> Source!Value]
      BY <1>1, <2>1 DEF MachineOK, vars
    <2> QED BY <1>3, <2>1, <2>2 DEF RunInv, MachineOK
  <1>9. CASE Enter \/ ExecStore \/ ExecBranch
    BY <1>3, <1>9, EnterWorks, StoreWorks, BranchWorks DEF RunInv
  <1> QED BY <1>4, <1>5, <1>6, <1>7, <1>8, <1>9 DEF RunNext, Machine

(* The machine rests before the module is there.                            *)
LEMMA RunInit == Init /\ MachineInit => RunInv
  <1> SUFFICES ASSUME Init, MachineInit PROVE RunInv
    OBVIOUS
  <1>1. LayInv
    BY LayInit
  <1>2. blk = NoBlock /\ result = "none" /\ mem \in [Vars -> Source!Value]
    BY DEF MachineInit, Source!Value
  <1> QED BY <1>1, <1>2 DEF RunInv, MachineOK

(* What is known of a run holds from the start of the compilation to its    *)
(* end.                                                                     *)
THEOREM RunningCorrect == RunSpec => []RunInv
  BY RunInit, RunStep, PTL DEF RunSpec

(* Control never falls off the end of a block, nor enters one that is not   *)
(* there, for every program the compiler accepts and every input: the       *)
(* blocks genIf, genLoop and defineFn leave all end, and each branch goes   *)
(* to one of them.                                                          *)
THEOREM AlwaysAnInstructionCorrect == RunSpec => []AlwaysAnInstruction
  <1>1. RunInv => AlwaysAnInstruction
    BY DEF RunInv, MachineOK, AtWork, AlwaysAnInstruction, Blocks
  <1> QED BY <1>1, RunningCorrect, PTL

-----------------------------------------------------------------------------
(* The run and the source *)

\* the node of the source at which the run is
Spc == IF result # "none" THEN -1
       ELSE IF blk = NoBlock \/ prog[body[blk][idx].at].k = "fn" THEN 0
       ELSE body[blk][idx].at

\* what SourceRun sees does not change
Same == UNCHANGED <<prog, open, phase, err>> /\ Spc' = Spc /\ UNCHANGED <<mem, result>>

(* Where the source goes on, in terms of the run.                           *)
LEMMA SourceGoes ==
  \A i : Source!GoesTo(i) <=> Spc' = CHOOSE j \in i..Len(prog) : ~Idle(j) /\ \A k \in i..(j - 1) : Idle(k)
  BY DEF Source!GoesTo, Source!Idle, Spc, Idle

(* A step that the source does not see.                                     *)
LEMMA SourceSame == Same => UNCHANGED <<prog, open, phase, err, Source!runVars>>
  BY DEF Same, Spc, Source!runVars

(* The run goes on at the first node from p on that is not passed over.     *)
LEMMA GoesToNode ==
  ASSUME TypeOK, NEW p \in Nat, NEW q \in Nodes, Reaches(p, q), ~Idle(q), Spc' = q
  PROVE  Source!GoesTo(p)
  <1> PICK l \in Nat : l = Len(prog)
    BY NodeDepths
  <1>1. q \in p..l /\ \A k \in p..(q - 1) : Idle(k)
    BY DEF Reaches, Nodes
  <1>2. \A j \in p..l : ~Idle(j) /\ (\A k \in p..(j - 1) : Idle(k)) => j = q
    <2> SUFFICES ASSUME NEW j \in p..l, ~Idle(j), \A k \in p..(j - 1) : Idle(k), j # q
                 PROVE  FALSE
      OBVIOUS
    <2>1. j \in p..(q - 1) \/ q \in p..(j - 1)
      BY <1>1
    <2> QED BY <1>1, <2>1
  <1>3. (CHOOSE j \in p..l : ~Idle(j) /\ \A k \in p..(j - 1) : Idle(k)) = q
    BY <1>1, <1>2
  <1> QED BY <1>3, SourceGoes

(* A list ends where it is closed.                                          *)
LEMMA EndOfList ==
  ASSUME TypeOK, NEW a, NEW e, Closes(a, e)
  PROVE  Source!EndOf(a) = e
  <1> PICK l \in Nat : l = Len(prog)
    BY NodeDepths
  <1>1. /\ a \in 1..l /\ e \in (a + 1)..l /\ prog[e].d = prog[a].d
        /\ \A k \in (a + 1)..(e - 1) : prog[k].d > prog[a].d
    BY DEF Closes, Opens, Nodes
  <1>2. \A k \in 1..l : prog[k].d \in Nat
    BY NodeDepths
  <1>3. \A j \in (a + 1)..l : /\ prog[j].d = prog[a].d
                              /\ \A k \in (a + 1)..(j - 1) : prog[k].d > prog[a].d
                              => j = e
    <2> SUFFICES ASSUME NEW j \in (a + 1)..l, prog[j].d = prog[a].d,
                        \A k \in (a + 1)..(j - 1) : prog[k].d > prog[a].d, j # e
                 PROVE  FALSE
      OBVIOUS
    <2>1. j \in (a + 1)..(e - 1) \/ e \in (a + 1)..(j - 1)
      BY <1>1
    <2> QED BY <1>1, <1>2, <2>1
  <1> DEFINE Ends1(j) == /\ prog[j].d = prog[a].d
                         /\ \A k \in (a + 1)..(j - 1) : prog[k].d > prog[a].d
  <1>4. (CHOOSE j \in (a + 1)..l : Ends1(j)) = e
    <2>1. e \in (a + 1)..l /\ Ends1(e)
      BY <1>1
    <2>2. \A j \in (a + 1)..l : Ends1(j) => j = e
      BY <1>3
    <2> HIDE DEF Ends1
    <2> QED BY <2>1, <2>2
  <1> QED BY <1>4 DEF Source!EndOf

(* The innermost loop around a node, or the one that it closes.             *)
LEMMA TheLoopIs ==
  ASSUME TypeOK, TreeOK, open = <<>>, NEW n \in Nodes, prog[n].k # "loop", Spc = n,
         NEW a \in OpenLoops(prog, n), \A c \in OpenLoops(prog, n) : c <= a
  PROVE  Source!TheLoop = a
  <1> PICK l \in Nat : l = Len(prog)
    BY NodeDepths
  <1>0. n \in 1..l /\ Nodes = 1..l /\ \A k \in 1..l : prog[k].d \in Nat
    BY NodeDepths DEF Nodes
  <1>1. ASSUME NEW c \in 1..l, prog[c].k = "loop", c <= n
        PROVE  Source!EndOf(c) \in Nat /\ (Source!EndOf(c) >= n <=> c \in OpenLoops(prog, n))
    <2> PICK e \in Nodes : Closes(c, e)
      BY <1>0, <1>1, ListCloses
    <2>1. Source!EndOf(c) = e
      BY EndOfList
    <2>2. /\ e \in 1..l /\ c < e /\ prog[e].d = prog[c].d
          /\ \A k \in (c + 1)..(e - 1) : prog[k].d > prog[c].d
      BY <1>0 DEF Closes, Opens
    <2>3. c < n /\ c \in Nat /\ n \in Nat /\ e \in Nat
      BY <1>0, <1>1, <2>2
    <2>4. ASSUME e >= n PROVE c \in OpenLoops(prog, n)
      <3>1. \A k \in (c + 1)..(n - 1) : k \in (c + 1)..(e - 1)
        BY <2>3, <2>4
      <3>2. \A k \in (c + 1)..(n - 1) : prog[k].d > prog[c].d
        BY <2>2, <3>1
      <3> QED BY <1>1, <2>3, <3>2 DEF OpenLoops, Opens, Openers
    <2>5. ASSUME c \in OpenLoops(prog, n), ~(e >= n) PROVE FALSE
      <3>1. e \in (c + 1)..(n - 1)
        BY <2>2, <2>3, <2>5
      <3>2. prog[e].d > prog[c].d
        BY <2>5, <3>1 DEF OpenLoops, Opens
      <3> QED BY <1>0, <2>2, <3>2
    <2> QED BY <2>1, <2>3, <2>4, <2>5
  <1>2. a \in 1..n /\ prog[a].k = "loop" /\ a \in 1..l
    BY <1>0 DEF OpenLoops, Opens
  <1> DEFINE Is(b) == /\ prog[b].k = "loop" /\ Source!EndOf(b) >= n
                      /\ \A c \in (b + 1)..n : prog[c].k = "loop" => Source!EndOf(c) < n
  <1>3. Is(a)
    <2>1. Source!EndOf(a) >= n
      BY <1>1, <1>2, <1>0
    <2>2. ASSUME NEW c \in (a + 1)..n, prog[c].k = "loop" PROVE Source!EndOf(c) < n
      <3>1. c \in 1..l /\ c <= n /\ ~(c <= a)
        BY <1>0, <1>2
      <3>2. c \notin OpenLoops(prog, n)
        BY <3>1
      <3>3. Source!EndOf(c) \in Nat /\ ~(Source!EndOf(c) >= n)
        BY <1>1, <2>2, <3>1, <3>2
      <3> QED BY <1>0, <3>3
    <2> QED BY <1>2, <2>1, <2>2
  <1>4. \A b \in 1..n : Is(b) => b = a
    <2> SUFFICES ASSUME NEW b \in 1..n, Is(b), b # a PROVE FALSE
      OBVIOUS
    <2>1. b \in 1..l /\ b <= n
      BY <1>0
    <2>2. b \in OpenLoops(prog, n)
      BY <1>1, <2>1
    <2>3. b <= a
      BY <2>2
    <2>4. a \in (b + 1)..n
      BY <1>2, <2>3
    <2>5. Source!EndOf(a) < n
      BY <1>2, <2>4
    <2>6. Source!EndOf(a) \in Nat /\ Source!EndOf(a) >= n
      BY <1>0, <1>1, <1>2
    <2> QED BY <1>0, <2>5, <2>6
  <1>5. (CHOOSE b \in 1..n : Is(b)) = a
    <2> HIDE DEF Is
    <2> QED BY <1>2, <1>3, <1>4
  <1> QED BY <1>5 DEF Source!TheLoop, Spc

(* A statement that is passed over emits nothing.                           *)
LEMMA NeverIdle ==
  ASSUME NEW b, NEW x \in Instr, Shape(b, x), x.k # "alloca"
  PROVE  x.at \in Nodes /\ ~Idle(x.at)
  <1>1. x.at \in Nodes /\ x.k \in {"load", "call", "store", "pstore", "ret", "br"}
    BY DEF Shape, Does, Instr, InstrKind
  <1>2. ASSUME prog[x.at].k = "expr" PROVE prog[x.at].u # "lit"
    <2>1. x.k = "load" => x.v = prog[x.at].u /\ x.v \in Vars
      BY DEF Shape, Does
    <2>2. x.k = "call" => x.u = prog[x.at].u /\ x.u \in {"void", "agg", "input"}
      BY DEF Shape, Does
    <2>3. x.k \notin {"store", "pstore", "ret", "br"}
      BY <1>2 DEF Shape, Does, Branches
    <2> QED BY <1>1, <2>1, <2>2, <2>3, ProgramAssumption DEF Literals
  <1> QED BY <1>1, <1>2 DEF Idle

(* Where the run stands in a block that is not at the header of a function. *)
LEMMA AtNode ==
  ASSUME RunInv, blk # NoBlock, prog[Insn.at].k # "fn"
  PROVE  Spc = Insn.at /\ Insn.at \in Nodes /\ Source!S = prog[Insn.at] /\ Spc > 0
  <1>1. Insn.at \in Nodes /\ result = "none"
    BY AtWorkFacts DEF Shape, Does
  <1>2. Spc = Insn.at
    BY <1>1 DEF Spc, Insn
  <1> QED BY <1>1, <1>2 DEF Source!S, Spc, Nodes

(* The instruction behind one in its block is of the same node, or of the   *)
(* node where the run goes on.                                              *)
LEMMA NextNode ==
  ASSUME RunInv, blk # NoBlock, UNCHANGED vars, blk' = blk, idx' = idx + 1, result' = result,
         Insn.k \notin Terminators
  PROVE  IF Operates(Insn) THEN Spc' = Spc ELSE Source!GoesTo(Insn.at + 1)
  <1> PICK x : x = Insn
    OBVIOUS
  <1> PICK y : y = body[blk][idx + 1]
    OBVIOUS
  <1>1. /\ phase = "done" /\ result = "none" /\ blk \in Blocks /\ x \in Instr /\ Shape(blk, x)
        /\ x.k # "alloca" /\ Follows(x, y) /\ idx + 1 \in 1..Len(body[blk]) /\ y.k # "alloca"
        /\ LayInv
    BY AtWorkFacts DEF AtWork, RunInv
  <1>2. Holds(body, blk, y)
    BY <1>1 DEF Holds, Blocks
  <1>3. /\ TypeOK /\ TreeOK /\ Shape(blk, y) /\ y \in Instr
    BY <1>1, <1>2, ModuleFacts
  <1>4. y.at \in Nodes /\ ~Idle(y.at) /\ x.at \in Nodes
    BY <1>1, <1>3, NeverIdle
  <1>5. Spc' = IF prog[y.at].k = "fn" THEN 0 ELSE y.at
    BY <1>1 DEF Spc, vars
  <1>6. CASE Operates(x)
    <2>1. y.at = x.at
      BY <1>1, <1>6 DEF Follows
    <2>2. Spc = IF prog[x.at].k = "fn" THEN 0 ELSE x.at
      BY <1>1 DEF Spc, Insn
    <2> QED BY <1>5, <1>6, <2>1, <2>2
  <1>7. CASE ~Operates(x)
    <2>1. Reaches(x.at + 1, y.at)
      BY <1>1, <1>7 DEF Follows
    <2> PICK l \in Nat : l = Len(prog)
      BY <1>3, NodeDepths
    <2>2. x.at \in 1..l /\ y.at \in 1..l /\ x.at + 1 <= y.at
      BY <1>4, <2>1 DEF Nodes, Reaches
    <2>3. prog[y.at].k # "fn"
      <3> SUFFICES ASSUME prog[y.at].k = "fn" PROVE FALSE
        OBVIOUS
      <3> PICK q \in 1..l : q = y.at - 1
        BY <2>2
      <3>1. Level(prog[y.at]) = 0 /\ Level(prog[y.at]) = Inner(prog[q])
        BY <1>3, <1>4, <2>2 DEF TreeOK
      <3>2. prog[q].d \in Nat /\ q \in Nodes
        BY <1>3, NodeDepths DEF Nodes
      <3>3. CASE q = x.at
        <4>1. prog[x.at].k \notin Openers /\ prog[x.at].d = 0
          <5>1. Inner(prog[q]) = 0
            BY <3>1
          <5>2. prog[q].k \notin Openers /\ prog[q].d = 0
            <6>1. \A n \in Nat : n + 1 # 0
              OBVIOUS
            <6>2. prog[q].d + 1 # 0
              BY <3>2, <6>1
            <6> QED BY <5>1, <6>2 DEF Inner
          <5> QED BY <3>3, <5>2
        <4>2. prog[x.at].k = "fn" <=> Level(prog[x.at]) = 0
          BY <1>3, <1>4 DEF TreeOK
        <4>3. prog[x.at].k \in Closers
          BY <4>1, <4>2 DEF Level, Openers
        <4>4. prog[x.at].k = "endfn"
          BY <1>3, <1>4, <4>1, <4>3 DEF TreeOK
        <4>5. x.k \in {"load", "call", "store", "pstore"}
          BY <1>1 DEF Instr, InstrKind, Terminators
        <4> QED BY <1>1, <4>4, <4>5 DEF Shape, Does, Evaluating
      <3>4. CASE q # x.at
        <4>1. q \in (x.at + 1)..(y.at - 1)
          <5>1. \A i, j, k \in 1..l : i + 1 <= j /\ k = j - 1 /\ k # i => k \in (i + 1)..(j - 1)
            OBVIOUS
          <5> QED BY <2>2, <3>4, <5>1
        <4>2. prog[q].k = "expr"
          BY <2>1, <4>1 DEF Reaches, Idle
        <4>3. Level(prog[q]) = prog[q].d /\ Inner(prog[q]) = prog[q].d
          BY <4>2 DEF Level, Inner, Closers, Openers
        <4> QED BY <1>3, <3>1, <3>2, <4>2, <4>3 DEF TreeOK
      <3> QED BY <3>3, <3>4
    <2>4. x.at + 1 \in Nat
      BY <2>2
    <2>5. Source!GoesTo(x.at + 1)
      BY <1>3, <1>4, <1>5, <2>1, <2>3, <2>4, GoesToNode
    <2> QED BY <1>7, <2>5
  <1> QED BY <1>6, <1>7

(* A branch takes the run to where its target begins.                       *)
LEMMA EntersNode ==
  ASSUME RunInv, ExecBranch
  PROVE  /\ blk' \in Targets(Insn)
         /\ \E p \in Nat : BeginsAt(blk', p) /\ Source!GoesTo(p) /\ (p \in Nodes /\ ~Idle(p) => Spc' = p)
  <1>1. /\ blk # NoBlock /\ UNCHANGED vars /\ idx' = 1 /\ result' = result
        /\ blk' \in Targets(Insn)
    BY BranchWorks DEF ExecBranch, Executing
  <1> PICK b : b = blk'
    OBVIOUS
  <1>2. phase = "done" /\ result = "none" /\ b \in Blocks /\ b[2] # "entry" /\ b # NoBlock /\ LayInv
    BY <1>1, AtWorkFacts DEF RunInv
  <1> PICK y : y = body[b][1]
    OBVIOUS
  <1>3. y.k # "alloca" /\ Starts(b, y.at) /\ Shape(b, y) /\ Holds(body, b, y)
    BY <1>2, BlockStarts
  <1>4. TypeOK /\ y \in Instr
    BY <1>2, <1>3, ModuleFacts
  <1>5. y.at \in Nodes /\ ~Idle(y.at)
    BY <1>3, <1>4, NeverIdle
  <1>6. prog[y.at].k # "fn"
    BY <1>2, <1>3 DEF Shape, Does
  <1>7. Spc' = y.at
    BY <1>1, <1>2, <1>6 DEF Spc, vars
  <1> PICK p \in Nat : BeginsAt(b, p) /\ Reaches(p, y.at)
    BY <1>3 DEF Starts
  <1>8. Source!GoesTo(p)
    BY <1>4, <1>5, <1>7, GoesToNode
  <1>9. ~Idle(p) => y.at = p
    <2>1. y.at \in Nat
      BY <1>5 DEF Nodes
    <2> QED BY <2>1, ReachFacts
  <1>10. BeginsAt(blk', p)
    OBVIOUS
  <1> QED BY <1>1, <1>7, <1>8, <1>9, <1>10

(* Before the run starts the source has not started either.                 *)
LEMMA CompileSource ==
  ASSUME RunInv, Compile
  PROVE  Source!RunNext
  <1>1. phase # "done" /\ UNCHANGED machineVars
    BY Stage DEF Compile
  <1>2. blk = NoBlock /\ result = "none"
    BY <1>1 DEF RunInv, MachineOK
  <1>3. Source!Edit
    BY <1>1, <1>2 DEF Source!Edit, machineVars
  <1> QED BY <1>3 DEF Source!RunNext

(* Entering a function starts the source, unless its parameter has to be    *)
(* stored first.                                                            *)
LEMMA EnterSource ==
  ASSUME RunInv, Enter
  PROVE  Source!RunNext \/ Same
  <1>1. /\ phase = "done" /\ result = "none" /\ LayInv /\ blk = NoBlock /\ TypeOK
        /\ UNCHANGED <<vars, mem, reg, result>>
    BY LayParts DEF Enter, RunInv
  <1> PICK f \in Nodes : /\ prog[f].k = "fn" /\ blk' = <<f, "entry">>
                         /\ idx' = Cardinality(Slots(<<f, "entry">>)) + 1
    BY DEF Enter
  <1> PICK b : b = <<f, "entry">>
    OBVIOUS
  <1>2. b \in Blocks /\ AllEnd /\ Laid(body)
    BY <1>1, ModuleFacts
  <1> PICK n \in 0..(Len(body[b]) - 1) :
        /\ Cardinality(Slots(b)) = n /\ body[b][n + 1].k # "alloca"
        /\ Starts(b, body[b][n + 1].at) /\ Alone(body[b][n + 1])
    BY <1>2, SlotsInFront
  <1>3. n + 1 \in 1..Len(body[b])
    <2>1. Len(body[b]) \in Nat
      BY <1>2 DEF AllEnd
    <2> QED BY <2>1
  <1> PICK y : y = body[b][n + 1]
    OBVIOUS
  <1>4. Holds(body, b, y) /\ y.k # "alloca" /\ Starts(b, y.at)
    BY <1>2, <1>3 DEF Holds, Blocks
  <1>5. Shape(b, y) /\ y \in Instr
    BY <1>1, <1>4, ModuleFacts
  <1>6. y.at \in Nodes /\ ~Idle(y.at)
    BY <1>4, <1>5, NeverIdle
  <1>7. f \in Nat /\ f # 0 /\ b[2] = "entry" /\ b[1] = f
    BY DEF Nodes
  <1>8. blk' # NoBlock
    BY <1>7 DEF NoBlock
  <1>9. Spc = 0 /\ Spc' = IF prog[y.at].k = "fn" THEN 0 ELSE y.at
    <2>1. blk' = b /\ idx' = n + 1 /\ body' = body /\ prog' = prog /\ result' = "none"
      BY <1>1 DEF vars
    <2> QED BY <1>1, <1>8, <2>1 DEF Spc
  <1> PICK p \in Nat : BeginsAt(b, p) /\ Reaches(p, y.at)
    BY <1>4 DEF Starts
  <1>10. CASE prog[f].v # None
    <2>1. p = f /\ ~Idle(f)
      BY <1>7, <1>10 DEF BeginsAt, Idle
    <2>2. y.at = f
      BY <1>6, <2>1, ReachFacts DEF Nodes
    <2> QED BY <1>1, <1>9, <2>2 DEF Same, vars
  <1>11. CASE prog[f].v = None
    <2>1. p = f + 1
      BY <1>7, <1>11 DEF BeginsAt
    <2>2. prog[y.at].k # "fn"
      <3>1. y.at # f
        BY <1>7, <2>1 DEF Reaches
      <3> QED BY <1>5, <1>7, <3>1 DEF Shape, Does
    <2>3. Source!GoesTo(f + 1)
      BY <1>1, <1>6, <1>9, <2>1, <2>2, GoesToNode
    <2>4. Source!Start
      <3>1. f \in 1..Len(prog)
        BY DEF Nodes
      <3>2. UNCHANGED <<prog, open, phase, err, result>> /\ mem' = mem
        BY <1>1 DEF vars
      <3> QED BY <1>1, <1>9, <1>11, <2>3, <3>1, <3>2 DEF Source!Start, Spc
    <2> QED BY <2>4 DEF Source!RunNext
  <1> QED BY <1>10, <1>11

(* A load or a call evaluates an operand: of an expression by itself, or of *)
(* a statement that has still to use it.                                    *)
LEMMA EvaluateSource ==
  ASSUME RunInv, ExecLoad \/ ExecCall
  PROVE  Source!RunNext \/ Same
  <1>1. /\ blk # NoBlock /\ Insn.k \in {"load", "call"} /\ UNCHANGED vars
        /\ blk' = blk /\ idx' = idx + 1 /\ result' = result /\ mem' = mem
    BY DEF ExecLoad, ExecCall, Executing
  <1>2. Shape(blk, Insn) /\ Insn.k \notin Terminators
    BY <1>1, AtWorkFacts DEF Terminators
  <1>3. UNCHANGED <<prog, open, phase, err>>
    BY <1>1 DEF vars
  <1>4. CASE Operates(Insn)
    BY <1>1, <1>2, <1>3, <1>4, NextNode DEF Same
  <1>5. CASE ~Operates(Insn)
    <2>1. prog[Insn.at].k = "expr"
      BY <1>1, <1>5 DEF Operates
    <2>2. Source!GoesTo(Insn.at + 1)
      BY <1>1, <1>2, <1>5, NextNode
    <2>3. Spc = Insn.at /\ Source!S = prog[Insn.at] /\ Spc > 0
      BY <1>1, <2>1, AtNode
    <2>4. Source!Evaluate
      BY <1>1, <1>3, <2>1, <2>2, <2>3 DEF Source!Evaluate, Source!At, Source!Fixed, Spc
    <2> QED BY <2>4 DEF Source!RunNext
  <1> QED BY <1>4, <1>5

(* A store gives a variable its value; that of a parameter starts the       *)
(* source.                                                                  *)
LEMMA StoreSource ==
  ASSUME RunInv, ExecStore
  PROVE  Source!RunNext
  <1>1. /\ blk # NoBlock /\ Insn.k \in {"store", "pstore"} /\ UNCHANGED vars
        /\ blk' = blk /\ idx' = idx + 1 /\ result' = result
    BY DEF ExecStore, Executing
  <1>2. /\ Shape(blk, Insn) /\ Insn.k \notin Terminators /\ Insn \in Instr /\ result = "none"
        /\ phase = "done" /\ mem \in [Vars -> Source!Value] /\ AtWork
    BY <1>1, AtWorkFacts DEF Terminators
  <1>3. UNCHANGED <<prog, open, phase, err>>
    BY <1>1 DEF vars
  <1>4. Source!GoesTo(Insn.at + 1)
    BY <1>1, <1>2, NextNode DEF Operates
  <1> PICK w \in Used(Insn.u) : mem' = [mem EXCEPT ![Insn.v] = w]
    BY DEF ExecStore
  <1>5. Insn.at \in Nodes /\ prog[Insn.at].v = Insn.v /\ Insn.v \in Vars
    BY <1>1, <1>2 DEF Shape, Does
  <1>6. CASE prog[Insn.at].k = "fn"
    <2>1. Insn.u = "arg" /\ w \in Known
      BY <1>1, <1>2, <1>6, ProgramAssumption DEF Shape, Does, Used
    <2>2. Spc = 0
      BY <1>2, <1>6 DEF Spc, Insn
    <2>3. prog[Insn.at].v # None
      BY <1>5, ProgramAssumption
    <2>4. Source!Start
      BY <1>1, <1>2, <1>3, <1>4, <1>5, <1>6, <2>1, <2>2, <2>3
         DEF Source!Start, Source!Known, Known, Nodes, Spc
    <2> QED BY <2>4 DEF Source!RunNext
  <1>7. CASE prog[Insn.at].k # "fn"
    <2>1. Spc = Insn.at /\ Source!S = prog[Insn.at] /\ Spc > 0
      BY <1>1, <1>7, AtNode
    <2>2. Insn.u = prog[Insn.at].u /\ prog[Insn.at].k \in {"decl", "assign", "part"}
      BY <1>1, <1>2, <1>7 DEF Shape, Does
    <2>3. w \in Source!Values(mem, Insn.u)
      BY <1>1, <1>2, UsedValue DEF AtWork
    <2>4. Source!Write
      BY <1>1, <1>3, <1>4, <1>5, <2>1, <2>2, <2>3 DEF Source!Write, Source!At, Source!Fixed, Spc
    <2> QED BY <2>4 DEF Source!RunNext
  <1> QED BY <1>6, <1>7

(* A return leaves the function, at an r/ or at its end.                    *)
LEMMA ReturnSource ==
  ASSUME RunInv, ExecReturn
  PROVE  Source!RunNext
  <1>1. /\ blk # NoBlock /\ Insn.k = "ret" /\ UNCHANGED vars /\ mem' = mem
        /\ result' \in Used(Insn.u)
    BY DEF ExecReturn, Executing
  <1>2. /\ Shape(blk, Insn) /\ Insn \in Instr /\ mem \in [Vars -> Source!Value] /\ AtWork
        /\ NodesOK /\ LayInv
    BY <1>1, AtWorkFacts, LayParts DEF RunInv
  <1>3. UNCHANGED <<prog, open, phase, err>>
    BY <1>1 DEF vars
  <1>4. /\ Insn.at \in Nodes
        /\ \/ prog[Insn.at].k = "ret" /\ Insn.u = prog[Insn.at].u
           \/ /\ prog[Insn.at].k = "endfn"
              /\ Insn.u = IF prog[FunctionOf(Insn.at)].t = "void" THEN None ELSE "zero"
    BY <1>1, <1>2 DEF Shape, Does
  <1>5. Spc = Insn.at /\ Source!S = prog[Insn.at] /\ Spc > 0
    BY <1>1, <1>4, AtNode
  <1>6. result' \in Source!Values(mem, Insn.u)
    BY <1>1, <1>2, UsedValue DEF AtWork
  <1>7. result' # "none"
    BY <1>2, <1>6, ValuesType DEF Instr
  <1>8. Spc' = -1
    BY <1>7 DEF Spc
  <1>9. Source!FunctionOf(Insn.at) = FunctionOf(Insn.at)
    BY DEF Source!FunctionOf, FunctionOf
  <1>10. prog[Insn.at].k = "endfn" => prog[Insn.at].u = None
    BY <1>2, <1>4 DEF NodesOK, Closers
  <1>11. Insn.u = IF Source!S.k = "ret" \/ prog[Source!FunctionOf(Spc)].t = "void"
                  THEN Source!S.u ELSE "zero"
    BY <1>4, <1>5, <1>9, <1>10
  <1>12. Source!Leave
    BY <1>1, <1>3, <1>4, <1>5, <1>6, <1>8, <1>11 DEF Source!Leave, Source!At, Source!Fixed, Spc
  <1> QED BY <1>12 DEF Source!RunNext

(* What the branches find where they are.                                   *)
LEMMA BranchAt ==
  ASSUME RunInv, ExecBranch
  PROVE  /\ Insn.at \in Nodes /\ Branches(Insn, prog[Insn.at].k) /\ prog[Insn.at].k # "fn"
         /\ Spc = Insn.at /\ Source!S = prog[Insn.at] /\ Spc > 0 /\ result = "none"
         /\ UNCHANGED <<prog, open, phase, err>> /\ UNCHANGED <<mem, result>>
         /\ TypeOK /\ TreeOK /\ open = <<>>
         /\ Used(Insn.u) \subseteq Source!Values(mem, Insn.u)
         /\ Used(Insn.u) \subseteq Source!Value
  <1>1. blk # NoBlock /\ Insn.k = "br" /\ UNCHANGED vars /\ UNCHANGED <<mem, result>>
    BY DEF ExecBranch, Executing
  <1>2. /\ Insn \in Instr /\ Shape(blk, Insn) /\ mem \in [Vars -> Source!Value] /\ AtWork
        /\ phase = "done" /\ result = "none" /\ LayInv
    BY <1>1, AtWorkFacts DEF RunInv
  <1>3. Insn.at \in Nodes /\ Branches(Insn, prog[Insn.at].k)
    BY <1>1, <1>2 DEF Shape, Does
  <1>4. prog[Insn.at].k # "fn"
    BY <1>3 DEF Branches
  <1>5. Used(Insn.u) \subseteq Source!Values(mem, Insn.u)
    BY <1>1, <1>2, UsedValue DEF AtWork
  <1>6. Source!Values(mem, Insn.u) \subseteq Source!Value
    BY <1>2, ValuesType DEF Instr
  <1> QED BY <1>1, <1>2, <1>3, <1>4, <1>5, <1>6, AtNode, ModuleFacts DEF vars

(* The test of an if or a loop.                                             *)
LEMMA TestSource ==
  ASSUME RunInv, ExecBranch, prog[Insn.at].k \in {"if", "loop"}, NEW b, NEW c,
         Insn.u = prog[Insn.at].u, Insn.to = <<b, c>>,
         b # c, \A p : BeginsAt(b, p) => p = Insn.at + 1,
         \A p : BeginsAt(c, p) => \E e \in Nodes : Closes(Insn.at, e) /\ p = e + 1
  PROVE  Source!Test
  <1> PICK w \in Used(Insn.u) : (w # "zero" /\ blk' = b) \/ (w # "one" /\ blk' = c)
    <2>1. Len(Insn.to) = 2 /\ Insn.to[1] = b /\ Insn.to[2] = c
      OBVIOUS
    <2> QED BY <2>1 DEF ExecBranch
  <1>2. w \in Source!Values(mem, Insn.u) /\ w \in {"zero", "one", "undef"}
    BY BranchAt DEF Source!Value, Source!Known
  <1> PICK p \in Nat : BeginsAt(blk', p) /\ Source!GoesTo(p)
    BY EntersNode
  <1>3. CASE w # "zero" /\ blk' = b
    <2>1. Source!GoesTo(Insn.at + 1)
      BY <1>3
    <2>2. TRUE \in Source!Truths(w)
      BY <1>2, <1>3 DEF Source!Truths
    <2>3. \E t \in Source!Truths(w) : Source!GoesTo(IF t THEN Insn.at + 1 ELSE Source!EndOf(Insn.at) + 1)
      BY <2>1, <2>2
    <2> QED BY <1>2, <2>3, BranchAt DEF Source!Test, Source!At, Source!Fixed, Spc
  <1>4. CASE w # "one" /\ blk' = c
    <2> PICK e \in Nodes : Closes(Insn.at, e) /\ p = e + 1
      BY <1>4
    <2>1. Source!GoesTo(Source!EndOf(Insn.at) + 1)
      BY BranchAt, EndOfList
    <2>2. FALSE \in Source!Truths(w)
      BY <1>2, <1>4 DEF Source!Truths
    <2>3. \E t \in Source!Truths(w) : Source!GoesTo(IF t THEN Insn.at + 1 ELSE Source!EndOf(Insn.at) + 1)
      BY <2>1, <2>2
    <2> QED BY <1>2, <2>3, BranchAt DEF Source!Test, Source!At, Source!Fixed, Spc
  <1> QED BY <1>3, <1>4

(* The loop that a node closes is the innermost one in front of it.         *)
LEMMA ClosesLast ==
  ASSUME TypeOK, TreeOK, NEW i \in Nodes, prog[i].k = "endloop",
         NEW a \in Nodes, prog[a].k = "loop", Closes(a, i)
  PROVE  a \in OpenLoops(prog, i) /\ \A c \in OpenLoops(prog, i) : c <= a
  <1>1. a \in OpenLoops(prog, i) /\ prog[i].d = prog[a].d
    BY DEF Closes, OpenLoops, Nodes
  <1> SUFFICES ASSUME NEW c \in OpenLoops(prog, i) PROVE c <= a
    BY <1>1
  <1> PICK l \in Nat : l = Len(prog)
    BY NodeDepths
  <1>2. /\ a \in 1..l /\ c \in 1..l /\ i \in 1..l /\ Opens(prog, a, i) /\ Opens(prog, c, i)
        /\ prog[a].d \in Nat /\ prog[c].d \in Nat
    BY <1>1, NodeDepths DEF OpenLoops, Nodes
  <1>3. a < c => prog[a].d < prog[c].d
    <2>1. i \in Nat
      BY <1>2
    <2>2. \A x, y : Opens(prog, x, i) /\ Opens(prog, y, i) /\ x < y => prog[x].d < prog[y].d
      BY <2>1, OpensDeeper
    <2> QED BY <1>2, <2>2
  <1>4. prog[a].d + 1 >= prog[c].d + 1
    <2>1. Level(prog[i]) >= prog[c].d + 1
      BY <1>2, OpensBelow
    <2> QED BY <1>1, <2>1 DEF Level, Closers
  <1> QED BY <1>2, <1>3, <1>4

(* A branch takes the run where the statement or the end of its list takes  *)
(* the source.                                                              *)
LEMMA BranchSource ==
  ASSUME RunInv, ExecBranch
  PROVE  Source!RunNext \/ Same
  <1> PICK i : i = Insn.at
    OBVIOUS
  <1> PICK k : k = prog[i].k
    OBVIOUS
  <1>0. /\ i \in Nodes /\ Branches(Insn, k) /\ Spc = i /\ Source!S = prog[i] /\ Spc > 0
        /\ UNCHANGED <<prog, open, phase, err>> /\ UNCHANGED <<mem, result>>
        /\ TypeOK /\ TreeOK /\ open = <<>>
    BY BranchAt
  <1> PICK p \in Nat : /\ BeginsAt(blk', p) /\ Source!GoesTo(p)
                       /\ p \in Nodes /\ ~Idle(p) => Spc' = p
    BY EntersNode
  <1>1. blk' \in Targets(Insn)
    BY EntersNode
  <1>2. \A b : Insn.to = <<b>> => blk' = b
    BY <1>1 DEF Targets
  <1>3. CASE k = "if"
    <2>1. Insn.u = prog[i].u /\ Insn.to = << <<i, "then">>, <<i, "else">> >>
      BY <1>0, <1>3 DEF Branches
    <2>2. Source!Test
      BY <1>3, <2>1, TestSource DEF BeginsAt
    <2> QED BY <2>2 DEF Source!RunNext
  <1>4. CASE k = "loop" /\ Insn.to = << <<i, "cond">> >>
    <2>1. p = i /\ ~Idle(i)
      BY <1>2, <1>4 DEF BeginsAt, Idle
    <2> QED BY <1>0, <2>1 DEF Same
  <1>5. CASE k = "loop" /\ Insn.to # << <<i, "cond">> >>
    <2>1. Insn.u = prog[i].u /\ Insn.to = << <<i, "body">>, <<i, "after">> >>
      BY <1>0, <1>5 DEF Branches
    <2>2. Source!Test
      BY <1>5, <2>1, TestSource DEF BeginsAt
    <2> QED BY <2>2 DEF Source!RunNext
  <1>6. CASE k = "else"
    <2> PICK a \in Nodes : Closes(a, i) /\ Insn.to = << <<a, "merge">> >>
      BY <1>0, <1>6 DEF Branches
    <2> PICK e \in Nodes, f \in Nodes : Closes(a, e) /\ Closes(e, f) /\ p = f + 1
      BY <1>2 DEF BeginsAt
    <2>1. e = i
      BY <1>0, ClosesOnce
    <2>2. Source!EndOf(i) = f
      BY <1>0, <2>1, EndOfList
    <2>3. Source!SkipElse
      BY <1>0, <1>6, <2>2 DEF Source!SkipElse, Source!At, Source!Fixed, Spc
    <2> QED BY <2>3 DEF Source!RunNext
  <1>7. CASE k = "endif"
    <2> PICK a \in Nodes, e \in Nodes : Closes(a, e) /\ Closes(e, i) /\ Insn.to = << <<a, "merge">> >>
      BY <1>0, <1>7 DEF Branches
    <2> PICK g \in Nodes, f \in Nodes : Closes(a, g) /\ Closes(g, f) /\ p = f + 1
      BY <1>2 DEF BeginsAt
    <2>1. g = e
      BY <1>0, ClosesOnce
    <2>2. f = i
      BY <1>0, <2>1, ClosesOnce
    <2>3. Source!Evaluate
      BY <1>0, <1>7, <2>2 DEF Source!Evaluate, Source!At, Source!Fixed, Spc
    <2> QED BY <2>3 DEF Source!RunNext
  <1>8. CASE k = "endloop"
    <2> PICK a \in Nodes : prog[a].k = "loop" /\ Closes(a, i) /\ Insn.to = << <<a, "cond">> >>
      BY <1>0, <1>8 DEF Branches
    <2>1. p = a /\ Spc' = a
      BY <1>2 DEF BeginsAt, Idle
    <2>2. a \in OpenLoops(prog, i) /\ \A c \in OpenLoops(prog, i) : c <= a
      BY <1>0, <1>8, ClosesLast
    <2>3. Source!TheLoop = a
      BY <1>0, <1>8, <2>2, TheLoopIs
    <2>4. Source!Repeat
      BY <1>0, <1>8, <2>1, <2>3 DEF Source!Repeat, Source!At, Source!Fixed, Spc
    <2> QED BY <2>4 DEF Source!RunNext
  <1>9. CASE k \in {"stop", "cont"}
    <2> PICK a \in OpenLoops(prog, i) :
          /\ \A c \in OpenLoops(prog, i) : c <= a
          /\ Insn.to = << <<a, IF k = "stop" THEN "after" ELSE "cond">> >>
      BY <1>0, <1>9 DEF Branches
    <2>1. Source!TheLoop = a
      BY <1>0, <1>9, TheLoopIs
    <2>2. a \in Nodes /\ prog[a].k = "loop"
      BY DEF OpenLoops, Nodes
    <2>3. CASE k = "cont"
      <3>1. p = a /\ Spc' = a
        BY <1>2, <2>2, <2>3 DEF BeginsAt, Idle
      <3>2. Source!Repeat
        BY <1>0, <2>1, <2>3, <3>1 DEF Source!Repeat, Source!At, Source!Fixed, Spc
      <3> QED BY <3>2 DEF Source!RunNext
    <2>4. CASE k = "stop"
      <3> PICK e \in Nodes : Closes(a, e) /\ p = e + 1
        BY <1>2, <2>4 DEF BeginsAt
      <3>1. Source!EndOf(a) = e
        BY <1>0, EndOfList
      <3>2. Source!LeaveLoop
        BY <1>0, <2>1, <2>4, <3>1 DEF Source!LeaveLoop, Source!At, Source!Fixed, Spc
      <3> QED BY <3>2 DEF Source!RunNext
    <2> QED BY <1>9, <2>3, <2>4
  <1> QED BY <1>0, <1>3, <1>4, <1>5, <1>6, <1>7, <1>8, <1>9 DEF Branches

(* A step of the run is one of the source, or none.                         *)
LEMMA SourceStep ==
  ASSUME RunInv, [RunNext]_allVars
  PROVE  Source!RunNext \/ Same
  <1>1. CASE Over \/ UNCHANGED allVars
    BY <1>1 DEF Over, allVars, vars, machineVars, Same, Spc
  <1> QED BY <1>1, CompileSource, EnterSource, EvaluateSource, StoreSource, ReturnSource, BranchSource
          DEF RunNext, Machine

(* The generated blocks do, step for step, what the source says, for every  *)
(* program the compiler accepts and every input: the same statements in the *)
(* same order with the same values, branch for branch of every mix of if,   *)
(* loop, stop, cont and r/, the same result, and nothing else.              *)
THEOREM RunsAsWrittenCorrect == RunSpec => RunsAsWritten
  <1>1. Init /\ MachineInit => Source!RunInit
    BY DEF MachineInit, Source!RunInit, Source!Blank
  <1>2. RunInv /\ [RunNext]_allVars => [Source!RunNext]_<<prog, open, phase, err, Source!runVars>>
    BY SourceStep, SourceSame
  <1> QED BY <1>1, <1>2, RunningCorrect, PTL DEF RunSpec, RunsAsWritten, Source!RunSpec
=============================================================================
