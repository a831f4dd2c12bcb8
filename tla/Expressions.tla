------------------------------ MODULE Expressions ------------------------------
(***************************************************************************)
(* One statement through the pipeline of main(): an author writes it, the  *)
(* parser reads its tokens, the checker and the generator follow.  The     *)
(* author grows an expression by wrapping it in one more operator, which   *)
(* also makes every shape that the checker rejects at its outermost level, *)
(* and may lose one token when typing it in.  Whole files go as far as the *)
(* parser.  For an unknown name the message looks for a near one.          *)
(*                                                                         *)
(* The properties relate what stands in the source to what is lowered,     *)
(* through references that look at the tree as a whole.                    *)
(***************************************************************************)
EXTENDS Declarations, TokenParser, Suggest

CONSTANTS Modules,     \* declaration lists; expressions are written under Standard
          Standard,
          SourceFiles, \* whole files for the parser
          Leaves,      \* expressions to start from
          Partners,    \* operands and elements to put next to one, for every wrap
          Operations,  \* binary operators
          DeclTypes,   \* types of declarations
          Returns,     \* results of the function around the statement
          Rich,        \* bound: expressions of up to so many wraps go everywhere
          Depth,       \* bound: and of up to so many become statements
          Few          \* bound: names in scope to compare with

VARIABLES mod,       \* the declarations of the file
          ret,       \* the result of the function
          source,    \* the statement as written, <<"becomes", t, v>> for t = v,
                     \* or <<"file", f>>
          wraps,     \* how often it grew
          lost,      \* the token that was left out, 0 for none
          tokens, stage, parsed, verdict, lowered

front == <<mod, structs, fns>>
vars  == <<mod, structs, fns, ret, source, wraps, lost, tokens, stage,
           parsed, verdict, lowered, name, candidates, left, best, bestDist>>

-----------------------------------------------------------------------------
(* The author prints a tree with as few parentheses as it needs *)

LevelOf(op) == CHOOSE n \in DOMAIN Levels : op \in Levels[n]
UnaryLevel   == Len(Levels) + 1
PostfixLevel == Len(Levels) + 2

Digit(n) == CHOOSE d \in DOMAIN Numbers : Numbers[d] = n

InParens(ts, needed) == IF needed THEN <<"(">> \o ts \o <<")">> ELSE ts

WithCommas(tss) == FoldLeft(LAMBDA a, ts : IF a = <<>> THEN ts ELSE a \o <<",">> \o ts, <<>>, tss)

RECURSIVE Shown(_, _), ShownType(_)

\* the tokens of e where an operand of level n is read
Shown(e, n) ==
  CASE e[1] = "int" -> <<Digit(e[2])>>
    [] e[1] = "str" -> <<StrTok>>
    [] e[1] = "id"  -> <<e[2]>>
    [] e[1] = "call" ->
         (IF e[2] = "terminal.pause" THEN <<"terminal", ".", "pause">> ELSE <<e[2]>>)
         \o <<"(">> \o WithCommas([k \in DOMAIN e[3] |-> Shown(e[3][k], 1)]) \o <<")">>
    [] e[1] = "bin" -> LET l == LevelOf(e[2])
                       IN  InParens(Shown(e[3], l) \o <<e[2]>> \o Shown(e[4], l + 1), l < n)
    [] e[1] = "addr"   -> InParens(<<"&">> \o Shown(e[2], UnaryLevel), UnaryLevel < n)
    [] e[1] = "deref"  -> InParens(<<"*">> \o Shown(e[2], UnaryLevel), UnaryLevel < n)
    [] e[1] = "field"  -> Shown(e[2], PostfixLevel) \o <<".", e[3]>>
    [] e[1] = "index"  -> Shown(e[2], PostfixLevel) \o <<"[">> \o Shown(e[3], 1) \o <<"]">>
    [] e[1] = "struct" ->
         <<e[2], "{">> \o WithCommas([k \in DOMAIN e[3] |-> <<e[3][k][1], ":">> \o Shown(e[3][k][2], 1)])
         \o <<"}">>
    [] e[1] = "array"  -> <<"[">> \o WithCommas([k \in DOMAIN e[2] |-> Shown(e[2][k], 1)]) \o <<"]">>

ShownType(t) ==
  CASE t[1] = "ptr"    -> <<"*">> \o ShownType(t[2])
    [] t[1] = "array"  -> <<"[", Digit(t[3]), "]">> \o ShownType(t[2])
    [] t[1] = "struct" -> <<t[2]>>
    [] t[1] = "void"   -> <<"void">>
    [] t[1] = "int"    -> <<CHOOSE n \in DOMAIN IntNames : IntNames[n] = t>>

\* the two spellings of a type: every star in front of it, or the last behind
Spellings(t) == {ShownType(t)} \cup (IF t[1] = "ptr" THEN {Append(ShownType(t[2]), "*")} ELSE {})

WithColon(f) == <<f[1], ":">> \o ShownType(f[2])

RECURSIVE ShownBlock(_, _), ShownStmt(_, _), ShownElse(_, _)

ShownBlock(b, chain) == <<"{">> \o FlattenSeq([k \in DOMAIN b |-> ShownStmt(b[k], chain)]) \o <<"}">>

\* an else block of one if may be chained to it
ShownElse(b, chain) == CASE b = <<>> -> <<>>
                         [] Len(b) = 1 /\ b[1][1] = "if" /\ chain -> <<"else">> \o ShownStmt(b[1], chain)
                         [] OTHER -> <<"else">> \o ShownBlock(b, chain)

ShownStmt(s, chain) ==
  CASE s[1] = "if"   -> <<"if", "(">> \o Shown(s[2], 1) \o <<")">> \o ShownBlock(s[3], chain)
                        \o ShownElse(s[4], chain)
    [] s[1] = "loop" -> <<"loop", "(">> \o Shown(s[2], 1) \o <<")">> \o ShownBlock(s[3], chain)
    [] s[1] \in {"stop", "cont"} -> <<s[1], ";">>
    [] s[1] = "ret"  -> <<"r/">> \o (IF Len(s) = 1 THEN <<>> ELSE Shown(s[2], 1)) \o <<";">>
    [] s[1] = "expr" -> Shown(s[2], 1) \o <<";">>

ShownFile(f, chain) ==
  FlattenSeq([k \in DOMAIN f.structs |->
    <<"struct", f.structs[k].name, "{">>
    \o WithCommas([i \in DOMAIN f.structs[k].fields |-> WithColon(f.structs[k].fields[i])]) \o <<"}">>])
  \o FlattenSeq([k \in DOMAIN f.fns |->
    <<"fn">> \o ShownType(f.fns[k].ret) \o <<f.fns[k].name, "(">>
    \o WithCommas([i \in DOMAIN f.fns[k].params |-> WithColon(f.fns[k].params[i])]) \o <<")">>
    \o ShownBlock(f.fns[k].body, chain)])

\* the ways to type a source in
Printed(s) ==
  IF s[1] = "file" THEN {Append(ShownFile(s[2], chain), "eof") : chain \in BOOLEAN} ELSE
  LET before == CASE s[1] = "expr" -> {<<>>}
                  [] s[1] = "ret"  -> {<<"r/">>}
                  [] s[1] = "decl" -> {<<IF s[4] THEN "var" ELSE "let", "(">> \o ts \o <<")", s[2], "=">> :
                                         ts \in Spellings(s[3])}
                  [] s[1] = "becomes" -> {Shown(s[2], 1) \o <<"=">>}
      value  == IF Len(s) = 1 THEN <<>> ELSE Shown(s[Len(s)], 1)
  IN  {b \o value \o <<";", "eof">> : b \in before}

-----------------------------------------------------------------------------
(* The author *)

Binaries(e, o) == {<<"bin", op, e, o>> : op \in Operations} \cup {<<"bin", op, o, e>> : op \in Operations}

\* operators that take e, and those that only a leaf goes into
Around(e) == {<<"addr", e>>, <<"deref", e>>, <<"array", <<e>>>>, <<"field", e, "f">>, <<"field", e, "pause">>,
              <<"call", "h", <<e>>>>, <<"call", "write", <<e>>>>}
       \cup UNION {{<<"index", e, o>>, <<"index", o, e>>, <<"array", <<e, o>>>>, <<"array", <<o, e>>>>}
                   \cup Binaries(e, o) : o \in Partners[wraps + 1]}

AroundLeaf(e) == {<<"field", e, "u">>, <<"call", "user_input", <<e>>>>, <<"call", "terminal.pause", <<e>>>>}
           \cup {<<"struct", "S", fs>> :
                   fs \in {<<<<"f", e>>, <<"pause", <<"int", 0>>>>>>, <<<<"f", e>>, <<"f", e>>>>, <<<<"f", e>>>>,
                           <<<<"f", <<"int", 1>>>>, <<"pause", e>>>>}}

Targets == {<<"id", "x">>, <<"deref", <<"id", "p">>>>, <<"field", <<"id", "s">>, "f">>,
            <<"index", <<"id", "q">>, <<"call", "h", <<<<"int", 0>>>>>>>>}

\* a leaf is declared and returned with every type, what is grown from one
\* with the type it has, an array literal with any array type
Fitting(e, types) == IF wraps = 0 THEN types
                     ELSE {t \in types : t = Infer(e) \/ (e[1] = "array" /\ t[1] = "array")}

Assignments(e) ==
  {<<"becomes", t, e>> : t \in IF wraps = 0 THEN Targets ELSE {<<"id", "x">>}}
  \cup {<<"becomes", e, v>> : v \in {<<"int", 1>>, <<"call", "h", <<<<"int", 0>>>>>>}}
  \cup {<<"decl", "x", SInt(32), TRUE, e>>}

Statements(e) ==
  {[s |-> <<"ret", e>>, r |-> t] : t \in Fitting(e, Returns)}
  \cup {[s |-> s, r |-> Void] :
          s \in {<<"expr", e>>} \cup {<<"decl", "y", t, FALSE, e>> : t \in Fitting(e, DeclTypes)}
               \cup (IF wraps <= Rich THEN Assignments(e) ELSE {})}

Unread == Ok(<<"none">>, 1)

\* what stands below a list of declarations: nothing of it, or a built-in
Bodies == {<<"expr", <<"int", 0>>>>, <<"expr", <<"call", "terminal.pause", <<>>>>>>}
          \cup {<<"expr", <<"call", f, <<<<"str">>>>>>>> : f \in {"write", "user_input"}}

Init == /\ mod \in Modules /\ structs = StructTable(mod) /\ fns = FnTable(mod)
        /\ source \in IF mod = Standard
                      THEN {<<"expr", e>> : e \in Leaves} \cup {<<"ret">>}
                           \cup {<<"file", f>> : f \in SourceFiles}
                      ELSE Bodies
        /\ ret = Void /\ wraps = 0 /\ lost = 0 /\ tokens = <<>> /\ stage = "writing"
        /\ parsed = Unread /\ verdict = Void /\ lowered = Fails("none") /\ NoSuggestion

later == <<parsed, verdict, lowered>>

\* only what the checker accepts is grown: nothing around the rest is read
Grow == /\ stage = "writing" /\ mod = Standard /\ wraps < Depth
        /\ source[1] = "expr" /\ ~Throws(Infer(source[2]))
        /\ \E e \in Around(source[2]) \cup (IF wraps = 0 THEN AroundLeaf(source[2]) ELSE {}) :
             source' = <<"expr", e>>
        /\ wraps' = wraps + 1
        /\ UNCHANGED <<front, ret, lost, tokens, stage, later, suggestVars>>

Write == /\ stage = "writing"
         /\ \E p \in IF source = <<"ret">> THEN {[s |-> source, r |-> t] : t \in Returns}
                     ELSE IF mod = Standard /\ source[1] = "expr" THEN Statements(source[2])
                     ELSE {[s |-> source, r |-> Void]} :
              /\ source' = p.s /\ ret' = p.r /\ tokens' \in Printed(p.s)
         /\ stage' = "written"
         /\ UNCHANGED <<front, wraps, lost, later, suggestVars>>

\* one token is left out, of a short statement or of a file
Slip == /\ stage = "written" /\ mod = Standard /\ lost = 0 /\ wraps <= Rich
        /\ source[1] \in {"expr", "file"}
        /\ \E i \in 1..(Len(tokens) - 1) : tokens' = RemoveAt(tokens, i) /\ lost' = i
        /\ UNCHANGED <<front, ret, source, wraps, stage, later, suggestVars>>

-----------------------------------------------------------------------------
(* main() *)

Parse == /\ stage = "written"
         /\ parsed' = IF source[1] = "file" THEN FileAt(tokens) ELSE StmtAt(tokens, 1)
         /\ stage' = IF parsed'.err # "none" THEN "failed"
                     ELSE IF lost # 0 \/ source[1] = "file" THEN "read" ELSE "parsed"
         /\ UNCHANGED <<front, ret, source, wraps, lost, tokens, verdict, lowered, suggestVars>>

Check == /\ stage = "parsed"
         /\ verdict' = With(CheckDecls(mod), LAMBDA t : CheckStmt(parsed.tree, ret))
         /\ stage' = IF Throws(verdict') THEN "failed" ELSE "checked"
         /\ UNCHANGED <<front, ret, source, wraps, lost, tokens, parsed, lowered, suggestVars>>

Generate == /\ stage = "checked"
            /\ lowered' = GenDecls(mod, GenStmt(parsed.tree, ret))
            /\ stage' = "done"
            /\ UNCHANGED <<front, ret, source, wraps, lost, tokens, parsed, verdict, suggestVars>>

\* the spelling of the unknown name and of those in scope is looked at here
Search == /\ stage = "failed" /\ mod = Standard /\ wraps = 0 /\ source[1] = "expr"
          /\ verdict \in {Throw("UndeclaredIdentifier"), Throw("UndeclaredFunction")}
          /\ \E n \in Words : \E s \in UNION {kSubset(k, Words \ {n}) : k \in 0..Few} : Ask(n, s)
          /\ stage' = "searching"
          /\ UNCHANGED <<front, ret, source, wraps, lost, tokens, later>>

Look == /\ stage = "searching" /\ Compare
        /\ UNCHANGED <<front, ret, source, wraps, lost, tokens, stage, later>>

Next == Grow \/ Write \/ Slip \/ Parse \/ Check \/ Generate \/ Search \/ Look

Spec == Init /\ [][Next]_vars

-----------------------------------------------------------------------------
(* What the source says, by itself *)

Operands(e) ==
  CASE e[1] = "bin" -> <<e[3], e[4]>>
    [] e[1] = "call"   -> e[3]
    [] e[1] = "array"  -> e[2]
    [] e[1] = "index"  -> <<e[2], e[3]>>
    [] e[1] = "struct" -> [k \in DOMAIN e[3] |-> e[3][k][2]]
    [] e[1] \in {"addr", "deref", "field"} -> <<e[2]>>
    [] OTHER -> <<>>

ExprsOf(s) == CASE Len(s) = 1 -> <<>> [] s[1] = "becomes" -> <<s[2], s[3]>> [] OTHER -> <<s[Len(s)]>>

RECURSIVE Parts(_)
Parts(e) == {e} \cup UNION {Parts(Operands(e)[k]) : k \in DOMAIN Operands(e)}

AllParts(s) == UNION {Parts(ExprsOf(s)[k]) : k \in DOMAIN ExprsOf(s)}

\* the statement that was written, as it looks before e = v is taken apart
Written(s) ==
  CASE s[1] = "assign" -> <<"becomes", <<"id", s[2]>>, s[3]>>
    [] s[1] = "store"  -> <<"becomes", <<"deref", s[2]>>, s[3]>>
    [] s[1] = "put"    -> <<"becomes", <<"field", s[2], s[3]>>, s[4]>>
    [] s[1] = "set"    -> <<"becomes", <<"index", s[2], s[3]>>, s[4]>>
    [] OTHER -> s

Bare(ts) == SelectSeq(ts, LAMBDA t : t \notin {"(", ")"})

-----------------------------------------------------------------------------
(* Type correctness: where the pipeline stands decides what is known, and  *)
(* a parser error lies on a token of the file.                             *)
TypeOK ==
  /\ stage \in {"writing", "written", "read", "parsed", "checked", "done", "failed", "searching"}
  /\ wraps \in 0..Depth /\ lost \in 0..Len(tokens)
  /\ parsed.next \in 1..Max({1, Len(tokens) + 1})
  /\ parsed.err # "none" => parsed.next <= Len(tokens)
  /\ stage = "done" => lowered.code # "none"
  /\ left \subseteq Words /\ best \in Words \cup {<<>>} /\ bestDist \in 0..Far

\* StatementsAreRead: the tree that the parser builds from the tokens of a
\* statement (parser.cpp, stmt() to arrayLiteral()) is the one that was
\* printed with as few parentheses as possible, with its operators grouped
\* to the left and its type as spelled; an assignment to anything but a name,
\* *e, a field or an element is refused, and the one field that cannot be
\* read is pause of a variable named terminal.  So is the tree of a file
\* (parseModule() to block()), with an else behind the if it belongs to,
\* chained or in braces.
StatementsAreRead ==
  /\ (lost = 0 /\ source[1] = "file" /\ stage \in {"read", "failed"}) =>
       parsed.err = "none" /\ parsed.tree = source
  /\ (lost = 0 /\ source[1] # "file" /\ stage \in {"parsed", "failed"}) =>
       LET refused == source[1] = "becomes" /\ source[2][1] \notin {"id", "deref", "field", "index"}
           huge    == source[1] = "decl" /\ source[3] = Struct(HugeName)
           taken   == <<"field", <<"id", "terminal">>, "pause">> \in AllParts(source)
       IN  /\ (parsed.err = "none") = (~refused /\ ~huge)
           /\ refused => parsed.err = "ExpectedExpression"
           /\ huge    => parsed.err = "crash"
           /\ parsed.err = "none" => (Written(parsed.tree) = source) = ~taken

\* NothingInvented: a statement or a file that lost a token is refused, at the
\* token before the gap or behind it, or read as what is left of it: printing
\* its tree gives the same tokens, up to parentheses.
NothingInvented ==
  /\ lost # 0 /\ stage = "failed" => parsed.next >= lost - 1
  /\ lost # 0 /\ stage = "read" =>
       /\ parsed.next = Len(tokens)
       /\ Bare(tokens) \in {Bare(ts) : ts \in Printed(Written(parsed.tree))}

-----------------------------------------------------------------------------
(* Which accepted statements the generator lowers *)

\* width of the LLVM value of an integer: an operator has that of its left
\* operand, a comparison and a literal that of int
RECURSIVE WidthOf(_)
WidthOf(e) == CASE e[1] = "int" -> IF Fits32(e[2]) THEN 32 ELSE 64
                [] e[1] = "bin" -> IF e[2] \in Arithmetic THEN WidthOf(e[3]) ELSE 32
                [] OTHER -> Infer(e)[2]

\* a variable, or what is reached from one through fields, elements of arrays
\* and pointers, where a pointer is a variable, an element or behind another
RECURSIVE IsPlace(_), IsPointer(_)
IsPlace(e) == \/ e[1] = "id"
              \/ e[1] = "deref" /\ IsPointer(e[2])
              \/ e[1] \in {"field", "index"} /\ IsPlace(e[2])
IsPointer(e) == e[1] # "field" /\ IsPlace(e)

\* a type whose values LLVM can hold
HasValues(t) == Sized(t) /\ ~Lost(t)

\* the checker looks at the first element only where no type is asked for
RECURSIVE Unchecked(_)
Unchecked(e) == e[1] = "array" /\ (Len(e[2]) > 1 \/ Unchecked(e[2][1]))

FirstOnly(s) == s[1] \in {"expr", "ret"} /\ Len(s) = 2 /\ Unchecked(s[2])

\* write() returns what printf does, whatever the checker says
RECURSIVE HasValue(_)
HasValue(e) == CASE e[1] = "array" -> HasValue(e[2][1])
                 [] e[1] = "call" /\ e[2] = "write" -> TRUE
                 [] OTHER -> HasValues(Infer(e))

\* a part of an expression, by itself
Lowers(e) ==
  CASE e[1] = "bin"    -> WidthOf(e[3]) = WidthOf(e[4])
    [] e[1] = "deref"  -> IsPointer(e[2]) /\ HasValue(e)
    [] e[1] \in {"field", "index"} -> IsPlace(e) /\ HasValue(e)
    [] e[1] = "array"  -> HasValue(e)
    [] e[1] = "struct" -> \A j, k \in DOMAIN e[3] : e[3][j][1] = e[3][k][1] => j = k
    [] OTHER -> TRUE

\* the type of the slot that a statement fills
SlotOf(s) == CASE s[1] = "decl" -> s[3] [] s[1] = "ret" -> ret [] s[1] = "becomes" -> Infer(s[2])

StatementLowers(s) ==
  /\ \A e \in AllParts(s) \ (IF s[1] = "becomes" THEN {s[2]} ELSE {}) : Lowers(e)
  /\ s[1] = "becomes" /\ s[2][1] # "id" => IsPlace(s[2][2])
  /\ Len(s) > 1 /\ s[1] # "expr" => HasValues(SlotOf(s))

Generated == stage = "done" /\ mod = Standard
Read      == Written(parsed.tree)
Clean     == lowered.code = "ok" /\ lowered.bad = {}

\* LowersAsChecked: what the checker accepts (typecheck.cpp, inferExpr and
\* checkAssignable) is lowered without an error, a crash or a value that LLVM
\* has no meaning for (codegen.cpp, genExpr) exactly when the operands of
\* every operator have one width, every place it reads, indexes or stores to
\* is reached from a variable by a way that genPointerExpr and genLValueAddr
\* know, no value of type void or of an unknown struct is read, stored or
\* returned, and no struct literal sets a field twice.  Elements that the
\* checker never looked at are left out.  NoSecondVerdict, WritesAnyInt and
\* StructsAreResolved say what the repository promises instead: the code breaks
\* each of them.
LowersAsChecked == Generated /\ ~FirstOnly(Read) => Clean = StatementLowers(Read)

\* NoSecondVerdict: codegen has "no validation of its own" (ROADMAP.md:34), so
\* no expression that the type checker accepts is refused by it with an error
\* about the source (codegen.cpp, genPointerExpr and genLValueAddr).
NoSecondVerdict == Generated /\ ~FirstOnly(Read) => lowered.code \in {"ok", "crash"}

-----------------------------------------------------------------------------
(* What the value is *)

InType(n, t) == IF t[3] THEN n \in -(2 ^ (Bits[t[2]] - 1)) .. (2 ^ (Bits[t[2]] - 1) - 1)
                ELSE n \in 0 .. (2 ^ Bits[t[2]] - 1)

\* quotients are cut towards zero
Quotient(a, b) == LET q == Max({a, -a}) \div Max({b, -b})
                  IN  IF (a < 0) = (b < 0) THEN q ELSE -q

Apply(op, a, b) ==
  CASE op = "+" -> a + b  [] op = "-" -> a - b  [] op = "*" -> a * b  [] op = "/" -> Quotient(a, b)
    [] op = "==" -> IF a = b THEN 1 ELSE 0   [] op = "!=" -> IF a # b THEN 1 ELSE 0
    [] op = "<"  -> IF a < b THEN 1 ELSE 0   [] op = "<=" -> IF a <= b THEN 1 ELSE 0
    [] op = ">"  -> IF a > b THEN 1 ELSE 0   [] op = ">=" -> IF a >= b THEN 1 ELSE 0

\* memory holds one number for each integer type among ts
Memories(ts) == {m \in [ts -> {-9, -8, -1, 0, 1, 3, 7}] : \A t \in ts : InType(m[t], t)}

\* the numbers that e stands for: none where it has no meaning, at a division
\* by zero or at a result outside of int, which the checker says it is
RECURSIVE Meaning(_, _)
Meaning(e, m) ==
  CASE e[1] = "int" -> {e[2]}
    [] e[1] = "bin" ->
         {n \in {Apply(e[2], p[1], p[2]) :
                   p \in {q \in Meaning(e[3], m) \X Meaning(e[4], m) : e[2] = "/" => q[2] # 0}} :
            InType(n, SInt(32))}
    [] OTHER -> {m[Infer(e)]}

\* n as the two's complement number of w bits
Wrapped(n, w) == ((n + 2 ^ (Bits[w] - 1)) % 2 ^ Bits[w]) - 2 ^ (Bits[w] - 1)

\* what LLVM computes for a value
RECURSIVE Computed(_, _)
Computed(v, m) ==
  CASE v[1] = "const" -> v[2]
    [] v[1] = "mem"   -> Wrapped(m[v[2]], v[2][2])
    [] v[1] = "op"    -> Wrapped(Apply(v[2], Computed(v[4], m), Computed(v[5], m)), v[3][2])
    [] v[1] = "cast"  -> LET n == Computed(v[5], m)
                         IN  Wrapped(IF v[2] THEN n ELSE n % 2 ^ Bits[v[3]], v[4])

\* the number in a slot of type t
AsType(n, t) == IF t[3] THEN n ELSE n % 2 ^ Bits[t[2]]

Printing(s) == s[1] = "expr" /\ s[2][1] = "call" /\ s[2][2] = "write" /\ s[2][3][1] # <<"str">>

\* WritesAnyInt: "Any int-valued expression can now be passed to write()"
\* (ROADMAP.md:25): what the checker lets write print, and the generator does
\* not refuse, becomes code that LLVM has a meaning for (codegen.cpp, genWrite
\* and genBinary).
WritesAnyInt == Generated /\ Printing(Read) /\ lowered.code = "ok" => lowered.bad = {}

\* what a statement delivers: e, computed as v, to a slot of type t
Delivery == IF Printing(Read)
            THEN LET e == Read[2][3][1]
                 IN  [e |-> e, v |-> lowered.v[2].v, t |-> SInt(WidthOf(e))]
            ELSE [e |-> Read[Len(Read)], v |-> lowered.v, t |-> SlotOf(Read)]

Delivers(s) == Printing(s) \/ (s[1] # "expr" /\ Len(s) > 1 /\ IsInt(SlotOf(s)))

\* no arithmetic narrower than int, no order or quotient of unsigned numbers,
\* no equality of a signed and an unsigned one
Suits(op, t, u) == /\ op \in Arithmetic => t[2] >= 32
                   /\ op \in {"/", "<", "<=", ">", ">="} => t[3]
                   /\ op \in {"==", "!="} => t[3] = u[3]

RECURSIVE Plain(_)
Plain(e) == e[1] = "bin" => /\ Plain(e[3]) /\ Plain(e[4])
                            /\ Suits(e[2], Infer(e[3]), Infer(e[4]))
                            /\ Suits(e[2], Infer(e[4]), Infer(e[3]))

Reads(e) == {Infer(p) : p \in {q \in Parts(e) : q[1] \notin {"int", "bin"} /\ IsInt(Infer(q))}}

\* ValuesAreExact: the number stored, returned or printed (codegen.cpp,
\* genBinary, castToType and genWrite) is the one the source means, for every
\* content of memory for which the source means one, when no operator computes
\* in less than 32 bits, none orders or divides unsigned numbers or compares
\* them with signed ones, the value printed is signed, and a literal fits
\* where it goes.
ValuesAreExact ==
  Generated /\ Clean /\ Delivers(Read) =>
    LET d == Delivery
        fits == d.e[1] = "int" => InType(d.e[2], d.t)
    IN  Plain(d.e) /\ fits /\ (Printing(Read) => Infer(d.e)[3]) =>
          \A m \in Memories(Reads(d.e)) : \A n \in Meaning(d.e, m) : AsType(Computed(d.v, m), d.t) = n

-----------------------------------------------------------------------------
(* Effects *)

RuntimeOf(f) == CASE f = "write"          -> <<"printf">>
                  [] f = "user_input"     -> <<"printf", "scanf", "getchar">>
                  [] f = "terminal.pause" -> <<"puts", "getchar">>

OwnCalls(e) ==
  IF e[1] # "call" THEN <<>>
  ELSE IF e[2] \notin Builtins THEN <<<<"function", e[2]>>>>
  ELSE LET fs == IF e[2] = "write" /\ e[3][1] = <<"str">> THEN <<"puts">> ELSE RuntimeOf(e[2])
       IN  [k \in DOMAIN fs |-> Runtime(fs[k])]

Concat(ss) == FoldLeft(LAMBDA a, s : a \o s, <<>>, ss)

\* from left to right, operands before the operator
RECURSIVE CallsOf(_)
CallsOf(e) == Concat([k \in DOMAIN Operands(e) |-> CallsOf(Operands(e)[k])]) \o OwnCalls(e)

CallsIn(s) == Concat([k \in DOMAIN ExprsOf(s) |-> CallsOf(ExprsOf(s)[k])])

RECURSIVE Twice(_)
Twice(e) == e[1] = "array" /\ (CallsOf(e[2][1]) # <<>> \/ \E k \in DOMAIN e[2] : Twice(e[2][k]))

\* CallsInOrder: the generated code calls what the source calls, as often and
\* in the same order, target before value (codegen.cpp, genExpr and genStmt);
\* but an array literal that nothing asks for calls what its first element
\* does once more.
CallsInOrder ==
  Generated /\ lowered.code = "ok" =>
    (lowered.calls = CallsIn(Read)) = ~(Read[1] = "expr" /\ Twice(Read[2]))

-----------------------------------------------------------------------------
(* Declarations *)

Needed == {n \in {"puts", "printf", "scanf", "getchar"} : Runtime(n) \in Range(CallsIn(source))}

\* what is by value in a field, a parameter or a result
ByValue(m) == UNION {{m.structs[k].fields[i][2] : i \in DOMAIN m.structs[k].fields} :
                       k \in DOMAIN m.structs}
         \cup UNION {Range(m.fns[k].params) \cup ({m.fns[k].ret} \ {Void}) : k \in DOMAIN m.fns}

\* every struct is larger than those it holds
Finite == \E rank \in [DOMAIN structs -> 1..Cardinality(DOMAIN structs)] :
            \A s \in DOMAIN structs : \A k \in DOMAIN structs[s] :
              \A h \in Held(structs[s][k][2]) \cap DOMAIN structs : rank[h] < rank[s]

\* DeclarationsExact: a list of structs and functions that the checker accepts
\* (typecheck.cpp, check and checkFn) becomes a module that LLVM can hold
\* (codegen.cpp, generate and declareFn) exactly when no field, parameter or
\* result is void, an array of void or of an unknown struct, no struct holds
\* itself, no two structs and no two functions have one name, and no function
\* has that of a runtime function that the code below calls.  That an unknown
\* struct gets so far is what StructsAreResolved denies.
DeclarationsExact ==
  stage = "done" /\ mod # Standard =>
    Clean = /\ \A t \in ByValue(mod) : Sized(t) /\ (t[1] = "array" => ~Lost(t))
            /\ Finite
            /\ \A j, k \in DOMAIN mod.structs : mod.structs[j].name = mod.structs[k].name => j = k
            /\ \A j, k \in DOMAIN mod.fns : mod.fns[j].name = mod.fns[k].name => j = k
            /\ DOMAIN fns \cap Needed = {}

\* StructsAreResolved: a type name that the parser does not know is taken for
\* a struct, and "the type-checker resolves whether it actually exists"
\* (parser.cpp:107): no field, parameter, result or variable of an accepted
\* source holds a struct that nobody declared.
StructsAreResolved ==
  stage = "done" => \A t \in ByValue(mod) \cup (IF source[1] = "decl" THEN {source[3]} ELSE {}) : ~Lost(t)

\* SuggestionIsClosest: for an unknown name (error.cpp, suggestClosest) the
\* message proposes a name in scope that no other is nearer than, in whatever
\* order they were looked at, exactly when one is within two edits, or within
\* a third of the length of the name where that is more.
SuggestionIsClosest ==
  stage = "searching" /\ left = {} =>
    LET limit   == IF Len(name) < 9 THEN 2 ELSE Len(name) \div 3
        near(n) == candidates \cap Within(name, n)
    IN  IF near(limit) = {} THEN Suggestion = <<>>
        ELSE \E n \in 0..limit : Suggestion \in near(n) /\ (n > 0 => near(n - 1) = {})
=============================================================================
