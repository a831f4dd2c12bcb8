------------------------------ MODULE ExprParser ------------------------------
(***************************************************************************)
(* Types and expressions as the parser reads them (src/parser.cpp, type()  *)
(* and expr() to arrayLiteral()): tokens to trees by recursive descent.    *)
(*                                                                         *)
(* A token is the string that it is in the source; "eof" is the last one.  *)
(* A tree is a tuple headed by its kind:                                   *)
(*   <<"int", n>>  <<"str">>  <<"id", x>>  <<"call", f, args>>             *)
(*   <<"bin", op, l, r>>  <<"addr", e>>  <<"deref", e>>  <<"field", e, f>> *)
(*   <<"index", e, i>>  <<"struct", S, fields>>  <<"array", elements>>     *)
(* with fields a sequence of <<name, e>>, and so is a type (type.h):       *)
(*   <<"void">>  <<"int", width, signed>>  <<"ptr", t>>  <<"struct", S>>   *)
(*   <<"array", t, length>>                                                *)
(***************************************************************************)
EXTENDS Integers, SequencesExt, FiniteSetsExt

CONSTANT Idents   \* the identifiers that occur in sources

Levels  == <<{"==", "!="}, {"<", "<=", ">", ">="}, {"+", "-"}, {"*", "/"}>>
Numbers == [t \in {"0", "1", "2", "9"} |->
              CASE t = "0" -> 0 [] t = "1" -> 1 [] t = "2" -> 2 [] t = "9" -> 9]
StrTok  == "\"s\""

Void    == <<"void">>
SInt(w)  == <<"int", w, TRUE>>
UInt(w) == <<"int", w, FALSE>>
Ptr(t)  == <<"ptr", t>>
Arr(t, n)  == <<"array", t, n>>
Struct(s)  == <<"struct", s>>

IsInt(t) == t[1] = "int"

At(ts, i) == IF i \in 1..Len(ts) THEN ts[i] ELSE "eof"

\* what a function of the parser returns, or the error it throws and where
Ok(t, i)  == [tree |-> t, next |-> i, err |-> "none"]
Bad(c, i) == [tree |-> Void, next |-> i, err |-> c]

Then(r, K(_, _)) == IF r.err = "none" THEN K(r.tree, r.next) ELSE r

\* mutant of Expect: what is missing is reported at the token behind
ExpectBehind(ts, i, tok, t) == IF At(ts, i) = tok THEN Ok(t, i + 1)
                               ELSE Bad("ExpectedToken", i + 1)

\* a missing ';' is reported at the token before it
Expect(ts, i, tok, t) == IF At(ts, i) = tok THEN Ok(t, i + 1)
                         ELSE Bad("ExpectedToken", IF tok = ";" THEN i - 1 ELSE i)

-----------------------------------------------------------------------------
(* Types *)

IntNames == [n \in {"int", "i8", "u8", "i64"} |->
               CASE n = "int" -> SInt(32) [] n = "i8" -> SInt(8)
                 [] n = "u8" -> UInt(8) [] n = "i64" -> SInt(64)]
HugeName == "i99999999999"   \* more digits than std::stoi can hold

\* resolveTypeName: a name that is no integer type is a struct for now, i7 too
TypeNamed(n, i) == IF n \in DOMAIN IntNames THEN Ok(IntNames[n], i)
               ELSE IF n = "void" THEN Ok(Void, i)
               ELSE IF n = HugeName THEN Bad("crash", i)
               ELSE IF n \in Idents THEN Ok(Struct(n), i) ELSE Bad("ExpectedType", i - 1)

RECURSIVE Prefixed(_, _), Starred(_, _, _)

Prefixed(ts, i) ==
  CASE At(ts, i) = "*" -> Then(Prefixed(ts, i + 1), LAMBDA t, j : Ok(Ptr(t), j))
    [] At(ts, i) = "[" ->
         IF At(ts, i + 1) \notin DOMAIN Numbers THEN Bad("ExpectedToken", i + 1)
         ELSE LET n == Numbers[At(ts, i + 1)]
              IN  IF n < 1 THEN Bad("ArrayLengthZero", i + 1)
                  ELSE Then(Expect(ts, i + 2, "]", Void),
                            LAMBDA u, j : Then(Prefixed(ts, j), LAMBDA t, k : Ok(Arr(t, n), k)))
    [] OTHER -> TypeNamed(At(ts, i), i + 1)

Starred(ts, t, i) == IF At(ts, i) = "*" THEN Starred(ts, Ptr(t), i + 1) ELSE Ok(t, i)

\* prefixes are read from right to left, stars behind come outside of them
TypeAt(ts, i) == Then(Prefixed(ts, i), LAMBDA t, j : Starred(ts, t, j))

-----------------------------------------------------------------------------
(* Expressions *)

RECURSIVE Level(_, _, _), Operators(_, _, _), Unary(_, _), Postfix(_, _),
          Primary(_, _), Listed(_, _, _, _), Fields(_, _, _, _)

Expr(ts, i) == Level(1, ts, i)

\* equality, comparison, term and factor, each over the next one
Level(n, ts, i) == IF n > Len(Levels) THEN Unary(ts, i)
                   ELSE Operators(n, ts, Level(n + 1, ts, i))

\* mutant of Operators: the operand on the right takes the rest of its level
OperatorsRight(n, ts, l) ==
  Then(l, LAMBDA e, i :
    IF At(ts, i) \notin Levels[n] THEN l
    ELSE Then(Level(n, ts, i + 1), LAMBDA r, j : Ok(<<"bin", ts[i], e, r>>, j)))

Operators(n, ts, l) ==
  Then(l, LAMBDA e, i :
    IF At(ts, i) \notin Levels[n] THEN l
    ELSE Then(Level(n + 1, ts, i + 1),
              LAMBDA r, j : Operators(n, ts, Ok(<<"bin", ts[i], e, r>>, j))))

Unary(ts, i) ==
  CASE At(ts, i) = "&" -> Then(Unary(ts, i + 1), LAMBDA e, j : Ok(<<"addr", e>>, j))
    [] At(ts, i) = "*" -> Then(Unary(ts, i + 1), LAMBDA e, j : Ok(<<"deref", e>>, j))
    [] OTHER -> Postfix(ts, Primary(ts, i))

Postfix(ts, p) ==
  Then(p, LAMBDA e, i :
    CASE At(ts, i) = "." ->
           IF At(ts, i + 1) \notin Idents THEN Bad("ExpectedToken", i + 1)
           ELSE Postfix(ts, Ok(<<"field", e, ts[i + 1]>>, i + 2))
      [] At(ts, i) = "[" ->
           Then(Expr(ts, i + 1), LAMBDA x, j : Postfix(ts, Expect(ts, j, "]", <<"index", e, x>>)))
      [] OTHER -> p)

\* mutant of Listed: the comma may be missing
ListedLoose(ts, i, close, acc) ==
  Then(Expr(ts, i), LAMBDA e, j :
    IF At(ts, j) = "," THEN Listed(ts, j + 1, close, Append(acc, e))
    ELSE IF At(ts, j) = close THEN Ok(Append(acc, e), j + 1)
    ELSE Listed(ts, j, close, Append(acc, e)))

\* arguments or elements up to the closing token, acc those read
Listed(ts, i, close, acc) ==
  Then(Expr(ts, i), LAMBDA e, j :
    IF At(ts, j) = "," THEN Listed(ts, j + 1, close, Append(acc, e))
    ELSE Expect(ts, j, close, Append(acc, e)))

List(ts, i, close) == IF At(ts, i) = close THEN Ok(<<>>, i + 1) ELSE Listed(ts, i, close, <<>>)

\* structLiteral, behind its '{'; a comma may follow the last field
Fields(ts, i, s, acc) ==
  IF At(ts, i) = "}" THEN Ok(<<"struct", s, acc>>, i + 1)
  ELSE IF At(ts, i) \notin Idents THEN Bad("ExpectedToken", i)
  ELSE IF At(ts, i + 1) # ":" THEN Bad("ExpectedToken", i + 1)
  ELSE Then(Expr(ts, i + 2), LAMBDA e, j :
         LET fs == Append(acc, <<ts[i], e>>)
         IN  IF At(ts, j) = "," THEN Fields(ts, j + 1, s, fs)
             ELSE Expect(ts, j, "}", <<"struct", s, fs>>))

\* a call of f whose '(' stands before i
CallAt(ts, i, f) == Then(List(ts, i, ")"), LAMBDA args, j : Ok(<<"call", f, args>>, j))

\* terminal.pause is one name, as an identifier and as a callee
Dotted(ts, i) == At(ts, i) = "terminal" /\ At(ts, i + 1) = "." /\ At(ts, i + 2) = "pause"

Name(ts, i, name) == IF At(ts, i) = "(" THEN CallAt(ts, i + 1, name) ELSE Ok(<<"id", name>>, i)

Primary(ts, i) ==
  CASE At(ts, i) = "(" -> Then(Expr(ts, i + 1), LAMBDA e, j : Expect(ts, j, ")", e))
    [] At(ts, i) = "[" -> Then(List(ts, i + 1, "]"), LAMBDA es, j : Ok(<<"array", es>>, j))
    [] At(ts, i) \in DOMAIN Numbers -> Ok(<<"int", Numbers[ts[i]]>>, i + 1)
    [] At(ts, i) = StrTok           -> Ok(<<"str">>, i + 1)
    [] At(ts, i) \in Idents /\ At(ts, i + 1) = "{" -> Fields(ts, i + 2, ts[i], <<>>)
    [] At(ts, i) \in Idents /\ At(ts, i + 1) # "{" ->
         IF Dotted(ts, i) THEN Name(ts, i + 3, "terminal.pause") ELSE Name(ts, i + 1, ts[i])
    [] OTHER -> Bad("ExpectedExpression", i)

-----------------------------------------------------------------------------
(* The statements that hold expressions, without their blocks *)

\* varDecl, behind its keyword
VarDeclAt(ts, i) ==
  Then(Expect(ts, i, "(", Void), LAMBDA u, a :
    Then(TypeAt(ts, a), LAMBDA t, b :
      Then(Expect(ts, b, ")", Void), LAMBDA v, c :
        IF At(ts, c) \notin Idents THEN Bad("ExpectedToken", c)
        ELSE Then(Expect(ts, c + 1, "=", Void), LAMBDA w, d :
               Then(Expr(ts, d), LAMBDA e, k :
                 Expect(ts, k, ";", <<"decl", ts[c], t, ts[i - 1] = "var", e>>))))))

\* the statement that e = v is: AssignStmt, DerefAssignStmt, FieldAssignStmt
\* or IndexAssignStmt
Assigns(e, v) ==
  CASE e[1] = "id"    -> <<"assign", e[2], v>>
    [] e[1] = "deref" -> <<"store", e[2], v>>
    [] e[1] = "field" -> <<"put", e[2], e[3], v>>
    [] e[1] = "index" -> <<"set", e[2], e[3], v>>
    [] OTHER          -> <<"none">>

StmtAt(ts, i) ==
  CASE At(ts, i) \in {"let", "var"} -> VarDeclAt(ts, i + 1)
    [] At(ts, i) = "r/" ->
         IF At(ts, i + 1) = ";" THEN Ok(<<"ret">>, i + 2)
         ELSE Then(Expr(ts, i + 1), LAMBDA e, j : Expect(ts, j, ";", <<"ret", e>>))
    [] OTHER ->
         Then(Expr(ts, i), LAMBDA e, j :
           IF At(ts, j) # "=" THEN Expect(ts, j, ";", <<"expr", e>>)
           ELSE Then(Expr(ts, j + 1), LAMBDA v, k :
                  Then(Expect(ts, k, ";", Assigns(e, v)), LAMBDA s, l :
                    IF s[1] = "none" THEN Bad("ExpectedExpression", l - 1) ELSE Ok(s, l))))
=============================================================================
