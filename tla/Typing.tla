-------------------------------- MODULE Typing --------------------------------
(***************************************************************************)
(* class TypeChecker on expressions (src/typecheck.cpp): inferExpr,        *)
(* checkAssignable and the statements that hold an expression.  An         *)
(* operator returns a type or what is thrown; the checks come in the order *)
(* of the code, so the first throw is the one that main reports.           *)
(*                                                                         *)
(* structs maps a name to the fields and fns to the parameters and the     *)
(* result of the declaration that structs_ and fns_ hold for it.           *)
(***************************************************************************)
EXTENDS ExprParser

CONSTANT Env   \* vars_ where the statement stands: name to [t, m], type and isMutable

VARIABLES structs, fns

Throw(code)   == <<"throw", code>>
Throws(t)     == t[1] = "throw"
With(t, K(_)) == IF Throws(t) THEN t ELSE K(t)

\* the first throw of a sequence of checks
AllOf(rs) == FoldLeft(LAMBDA a, r : IF Throws(a) THEN a ELSE r, Void, rs)

FieldsNamed(s, f) == {k \in DOMAIN structs[s] : structs[s][k][1] = f}

\* findStruct and findField behind the test for a struct
FieldType(t, f) ==
  IF t[1] # "struct" THEN Throw("FieldAccessNonStruct")
  ELSE IF t[2] \notin DOMAIN structs THEN Throw("UnknownStruct")
  ELSE IF FieldsNamed(t[2], f) = {} THEN Throw("UnknownField")
  ELSE structs[t[2]][Min(FieldsNamed(t[2], f))][2]

RECURSIVE Infer(_), Assignable(_, _)

ElementType(t, x) ==
  IF t[1] # "array" THEN Throw("IndexNonArray")
  ELSE With(Infer(x), LAMBDA i :
         IF ~IsInt(i) THEN Throw("IndexNonInt")
         ELSE IF x[1] = "int" /\ x[2] >= t[3] THEN Throw("ArrayIndexOutOfBounds") ELSE t[2])

\* mutant of Fits: any number is a pointer
FitsAnyPointer(e, got, want) == \/ got = want
                                \/ e[1] = "int" /\ (IsInt(want) \/ want[1] = "ptr")

\* a literal fits every integer type, and 0 every pointer
Fits(e, got, want) == \/ got = want
                      \/ e[1] = "int" /\ IsInt(want)
                      \/ e = <<"int", 0>> /\ want[1] = "ptr"

Assignable(e, want) ==
  IF e[1] = "array"
  THEN IF want[1] # "array" THEN Throw("TypeMismatch")
       ELSE IF Len(e[2]) # want[3] THEN Throw("ArrayLiteralMismatch")
       ELSE AllOf([k \in DOMAIN e[2] |-> Assignable(e[2][k], want[2])])
  ELSE With(Infer(e), LAMBDA got : IF Fits(e, got, want) THEN want ELSE Throw("TypeMismatch"))

InferWrite(args) ==
  IF Len(args) # 1 THEN Throw("WriteArgCount")
  ELSE IF args[1][1] = "str" THEN Void
  ELSE With(Infer(args[1]), LAMBDA t : IF IsInt(t) THEN Void ELSE Throw("WriteArgType"))

InferUserInput(args) ==
  IF Len(args) # 1 THEN Throw("UserInputArgCount")
  ELSE IF args[1][1] # "str" THEN Throw("UserInputArgType") ELSE SInt(32)

InferTerminalPause(args) ==
  IF Len(args) > 1 THEN Throw("TerminalPauseArgCount")
  ELSE IF args # <<>> /\ args[1][1] # "id" THEN Throw("TerminalPauseArgType") ELSE SInt(32)

Builtins == {"write", "terminal.pause", "user_input"}

InferCall(f, args) ==
  CASE f = "write"          -> InferWrite(args)
    [] f = "terminal.pause" -> InferTerminalPause(args)
    [] f = "user_input"     -> InferUserInput(args)
    [] f \notin Builtins ->
         IF f \notin DOMAIN fns THEN Throw("UndeclaredFunction")
         ELSE IF Len(args) # Len(fns[f].params) THEN Throw("ArgCountMismatch")
         ELSE With(AllOf([k \in DOMAIN args |-> Assignable(args[k], fns[f].params[k])]),
                   LAMBDA t : fns[f].ret)

InferStruct(s, fields) ==
  IF s \notin DOMAIN structs THEN Throw("UnknownStruct")
  ELSE IF Len(fields) # Len(structs[s]) THEN Throw("StructLiteralMismatch")
  ELSE With(AllOf([k \in DOMAIN fields |->
              With(FieldType(Struct(s), fields[k][1]), LAMBDA t : Assignable(fields[k][2], t))]),
            LAMBDA t : Struct(s))

Infer(e) ==
  CASE e[1] = "int" -> SInt(32)
    [] e[1] = "str" -> Ptr(UInt(8))
    [] e[1] = "id"  -> IF e[2] \in DOMAIN Env THEN Env[e[2]].t ELSE Throw("UndeclaredIdentifier")
    [] e[1] = "bin" ->
         With(Infer(e[3]), LAMBDA l : With(Infer(e[4]), LAMBDA r :
           IF IsInt(l) /\ IsInt(r) THEN SInt(32) ELSE Throw("VoidExpression")))
    [] e[1] = "call"  -> InferCall(e[2], e[3])
    [] e[1] = "addr"  -> IF e[2][1] # "id" THEN Throw("AddressOfNonVariable")
                         ELSE With(Infer(e[2]), LAMBDA t : Ptr(t))
    [] e[1] = "deref" -> With(Infer(e[2]), LAMBDA t :
                           IF t[1] = "ptr" THEN t[2] ELSE Throw("DerefNonPointer"))
    [] e[1] = "field"  -> With(Infer(e[2]), LAMBDA t : FieldType(t, e[3]))
    [] e[1] = "index"  -> With(Infer(e[2]), LAMBDA t : ElementType(t, e[3]))
    [] e[1] = "struct" -> InferStruct(e[2], e[3])
    [] e[1] = "array"  -> IF e[2] = <<>> THEN Throw("EmptyArrayLiteral")
                          ELSE With(Infer(e[2][1]), LAMBDA t : Arr(t, Len(e[2])))

Unresolved(t) == t[1] = "struct" /\ t[2] \notin DOMAIN structs

\* checkStmt, in a function that returns ret
CheckStmt(s, ret) ==
  CASE s[1] = "expr" -> Infer(s[2])
    [] s[1] = "ret" /\ Len(s) = 1 ->
         IF ret = Void THEN Void ELSE Throw("ReturnTypeMismatch")
    [] s[1] = "ret" /\ Len(s) = 2 ->
         With(Infer(s[2]), LAMBDA t : IF t = ret THEN t ELSE Throw("TypeMismatch"))
    [] s[1] = "decl" ->
         IF s[2] \in DOMAIN Env THEN Throw("VariableRedeclared")
         ELSE IF s[3] = Void THEN Throw("VoidVariable")
         ELSE IF Unresolved(s[3]) THEN Throw("UnknownStruct") ELSE Assignable(s[5], s[3])
    [] s[1] = "assign" ->
         IF s[2] \notin DOMAIN Env THEN Throw("UndeclaredIdentifier")
         ELSE IF ~Env[s[2]].m THEN Throw("ImmutableAssign") ELSE Assignable(s[3], Env[s[2]].t)
    [] s[1] = "store" -> With(Infer(s[2]), LAMBDA t :
                           IF t[1] = "ptr" THEN Assignable(s[3], t[2]) ELSE Throw("DerefNonPointer"))
    [] s[1] = "put" -> With(With(Infer(s[2]), LAMBDA t : FieldType(t, s[3])),
                            LAMBDA f : Assignable(s[4], f))
    [] s[1] = "set" -> With(With(Infer(s[2]), LAMBDA t : ElementType(t, s[3])),
                            LAMBDA f : Assignable(s[4], f))
=============================================================================
