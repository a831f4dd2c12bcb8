------------------------------ MODULE TokenParser ------------------------------
(***************************************************************************)
(* The rest of the parser on tokens (src/parser.cpp): declarations,        *)
(* functions, blocks and the statements that hold blocks.  A file is       *)
(* [structs, fns], a struct [name, fields], a function                     *)
(* [name, params, ret, body] with fields and parameters sequences of       *)
(* <<name, type>>; the statements with blocks are                          *)
(*   <<"if", e, then, else>>  <<"loop", e, body>>  <<"stop">>  <<"cont">>  *)
(***************************************************************************)
EXTENDS ExprParser

RECURSIVE StmtIn(_, _), Body(_, _, _), IfAt(_, _)

\* statements up to the closing brace, acc those read
Body(ts, i, acc) ==
  CASE At(ts, i) = "}"   -> Ok(acc, i + 1)
    [] At(ts, i) = "eof" -> Bad("UnexpectedEof", i)
    [] OTHER -> Then(StmtIn(ts, i), LAMBDA s, j : Body(ts, j, Append(acc, s)))

Block(ts, i) == Then(Expect(ts, i, "{", Void), LAMBDA u, j : Body(ts, j, <<>>))

Cond(ts, i) == Then(Expect(ts, i, "(", Void), LAMBDA u, j :
                 Then(Expr(ts, j), LAMBDA e, k : Expect(ts, k, ")", e)))

\* behind the first block of an if: `else if` is an else block of one if
ElseAt(ts, i) ==
  IF At(ts, i) # "else" THEN Ok(<<>>, i)
  ELSE IF At(ts, i + 1) = "if"
       THEN Then(IfAt(ts, i + 2), LAMBDA s, j : Ok(<<s>>, j))
       ELSE Block(ts, i + 1)

\* ifStmt and loopStmt, behind their keyword
IfAt(ts, i) == Then(Cond(ts, i), LAMBDA c, j : Then(Block(ts, j), LAMBDA t, k :
                 Then(ElseAt(ts, k), LAMBDA e, l : Ok(<<"if", c, t, e>>, l))))

LoopAt(ts, i) == Then(Cond(ts, i), LAMBDA c, j : Then(Block(ts, j), LAMBDA b, k :
                   Ok(<<"loop", c, b>>, k)))

StmtIn(ts, i) ==
  CASE At(ts, i) = "if"   -> IfAt(ts, i + 1)
    [] At(ts, i) = "loop" -> LoopAt(ts, i + 1)
    [] At(ts, i) \in {"stop", "cont"} -> Expect(ts, i + 1, ";", <<ts[i]>>)
    [] OTHER -> StmtAt(ts, i)

-----------------------------------------------------------------------------
(* Declarations *)

Identifier(ts, i) == IF At(ts, i) \in Idents THEN Ok(ts[i], i + 1) ELSE Bad("ExpectedToken", i)

\* a field or a parameter
Named(ts, i) == Then(Identifier(ts, i), LAMBDA n, j : Then(Expect(ts, j, ":", Void), LAMBDA u, k :
                  Then(TypeAt(ts, k), LAMBDA t, l : Ok(<<n, t>>, l))))

RECURSIVE FieldsAt(_, _, _), Params(_, _, _), FileFrom(_, _, _)

\* a comma may follow the last field, not the last parameter
FieldsAt(ts, i, acc) ==
  IF At(ts, i) = "}" THEN Ok(acc, i + 1)
  ELSE Then(Named(ts, i), LAMBDA f, j :
         IF At(ts, j) = "," THEN FieldsAt(ts, j + 1, Append(acc, f))
         ELSE Expect(ts, j, "}", Append(acc, f)))

Params(ts, i, acc) ==
  Then(Named(ts, i), LAMBDA p, j :
    IF At(ts, j) = "," THEN Params(ts, j + 1, Append(acc, p))
    ELSE Expect(ts, j, ")", Append(acc, p)))

\* structDecl, behind its keyword
StructDeclAt(ts, i) ==
  Then(Identifier(ts, i), LAMBDA n, j : Then(Expect(ts, j, "{", Void), LAMBDA u, k :
    Then(FieldsAt(ts, k, <<>>), LAMBDA fs, l : Ok([name |-> n, fields |-> fs], l))))

FunctionAt(ts, i) ==
  Then(Expect(ts, i, "fn", Void), LAMBDA u, a : Then(TypeAt(ts, a), LAMBDA t, b :
    Then(Identifier(ts, b), LAMBDA n, c : Then(Expect(ts, c, "(", Void), LAMBDA v, d :
      Then(IF At(ts, d) = ")" THEN Ok(<<>>, d + 1) ELSE Params(ts, d, <<>>), LAMBDA ps, k :
        Then(Block(ts, k), LAMBDA body, l :
          Ok([name |-> n, params |-> ps, ret |-> t, body |-> body], l)))))))

\* parseModule, m what has been read
FileFrom(ts, i, m) ==
  CASE At(ts, i) = "eof"    -> Ok(<<"file", m>>, i)
    [] At(ts, i) = "struct" -> Then(StructDeclAt(ts, i + 1), LAMBDA s, j :
                                 FileFrom(ts, j, [m EXCEPT !.structs = Append(@, s)]))
    [] OTHER -> Then(FunctionAt(ts, i), LAMBDA f, j :
                  FileFrom(ts, j, [m EXCEPT !.fns = Append(@, f)]))

FileAt(ts) == FileFrom(ts, 1, [structs |-> <<>>, fns |-> <<>>])
=============================================================================
