------------------------------- MODULE Lowering -------------------------------
(***************************************************************************)
(* class CodeGen on expressions (src/codegen.cpp): genExpr and its         *)
(* helpers.  A result says                                                 *)
(*   code   "ok", the CompileError thrown, or "crash": structTys_.at       *)
(*          throws an std::out_of_range that nobody catches, structs_.find *)
(*          or a missing element type is used without a test,              *)
(*   ty     the LLVM type of the value, the Shine type of a place,         *)
(*   v      the value: a constant, a read of memory or an operation,       *)
(*   calls  the calls emitted on the way, in their order, of functions of  *)
(*          the program and of the runtime,                                *)
(*   bad    what LLVM forbids or leaves undefined: an operation on         *)
(*          operands of two types, a store or an argument of another type  *)
(*          than its slot, a value of type void, a field never set.        *)
(***************************************************************************)
EXTENDS Typing

Bits == [w \in {8, 32, 64} |-> w \div 8 + (IF w = 8 THEN 1 ELSE 0)]  \* scaled to 2, 4 and 8

LInt(w) == <<"i", w>>
LPtr    == <<"ptr">>

\* llvmType, where structTys_.at finds what it looks for
RECURSIVE LType(_), Lost(_)

LType(t) == CASE t[1] = "void" -> <<"void">>  [] t[1] = "int" -> LInt(t[2])
              [] t[1] = "ptr"  -> LPtr        [] t[1] = "struct" -> <<"%", t[2]>>
              [] t[1] = "array" -> <<"[]", LType(t[2]), t[3]>>

\* it does not: a struct nobody declared, not looked for behind a pointer
Lost(t) == \/ t[1] = "struct" /\ t[2] \notin DOMAIN structs
           \/ t[1] = "array" /\ Lost(t[2])

Value(ty, v) == [code |-> "ok", ty |-> ty, v |-> v, calls |-> <<>>, bad |-> {}]
Fails(code)  == [code |-> code, ty |-> Void, v |-> <<"none">>, calls |-> <<>>, bad |-> {}]
Typed(t, r)  == IF Lost(t) THEN Fails("crash") ELSE r

\* r comes after a, whose effects stay; what is made of a's value has its own
Follows(a, r) == [r EXCEPT !.calls = a.calls \o @, !.bad = a.bad \cup @]
Chain(a, K(_)) == IF a.code = "ok" THEN Follows(a, K([a EXCEPT !.calls = <<>>, !.bad = {}])) ELSE a

Marks(bad, r) == [r EXCEPT !.bad = @ \cup bad]
Calls(fs, r)  == [r EXCEPT !.calls = @ \o fs]

\* putsFn, printfFn, scanfFn and getcharFn
Runtime(n) == <<"runtime", n>>

IsLInt(ty) == ty[1] = "i"

\* castToType: what fits no case is passed on as it is
Cast(a, ty, signed) ==
  CASE a.ty = ty -> a
    [] a.ty # ty /\ IsLInt(a.ty) /\ IsLInt(ty) ->
         [a EXCEPT !.ty = ty, !.v = <<"cast", signed, a.ty[2], ty[2], a.v>>]
    [] a.ty # ty /\ ty = LPtr /\ a.v = <<"const", 0>> -> [a EXCEPT !.ty = LPtr, !.v = <<"null">>]
    [] OTHER -> a

Stored(a, ty) == Marks((IF a.ty = ty THEN {} ELSE {"store"})
                       \cup (IF a.ty = LType(Void) THEN {"void"} ELSE {}), a)
Passed(a, ty) == Marks(IF a.ty = ty THEN {} ELSE {"argument"}, a)

\* a load; `v` names memory by its type alone
LoadOf(p) == Typed(p.ty, Marks(IF p.ty = Void THEN {"void"} ELSE {},
                               Value(LType(p.ty), <<"mem", p.ty>>)))

RECURSIVE Gen(_), GenAs(_, _), Place(_), Pointer(_)

Var(x) == IF x \in DOMAIN Env THEN Value(Env[x].t, <<"place">>) ELSE Fails("UndeclaredIdentifier")

Target(t)     == Value(t, <<"place">>)
PointeeOf(p)  == IF p.ty[1] = "ptr" THEN Target(p.ty[2]) ELSE Fails("DerefNonPointer")

\* the index is widened after the base; the element type must be known
ElementOf(b, x) ==
  IF b.ty[1] # "array" THEN Fails("IndexNonArray")
  ELSE Chain(Gen(x), LAMBDA i : Typed(b.ty, Marks(IF IsLInt(i.ty) THEN {} ELSE {"operands"},
                                                  Target(b.ty[2]))))

FieldOf(b, f) ==
  IF b.ty[1] # "struct" THEN Fails("FieldAccessNonStruct")
  ELSE IF b.ty[2] \notin DOMAIN structs THEN Fails("crash")
  ELSE IF FieldsNamed(b.ty[2], f) = {} THEN Fails("UnknownField")
  ELSE Target(structs[b.ty[2]][Min(FieldsNamed(b.ty[2], f))][2])

\* genPointerExpr: the place that the pointer e points to.  That the elements
\* of an array are pointers is known before the index is generated
Pointer(e) ==
  CASE e[1] = "id"    -> Chain(Var(e[2]), PointeeOf)
    [] e[1] = "deref" -> Chain(Pointer(e[2]), PointeeOf)
    [] e[1] = "index" -> Chain(Place(e[2]), LAMBDA b :
                           IF b.ty[1] = "array" /\ b.ty[2][1] # "ptr" THEN Fails("DerefNonPointer")
                           ELSE Chain(ElementOf(b, e[3]), PointeeOf))
    [] OTHER          -> Fails("DerefNonVariable")

\* genLValueAddr
Place(e) ==
  CASE e[1] = "id"    -> Var(e[2])
    [] e[1] = "deref" -> Pointer(e[2])
    [] e[1] = "field" -> Chain(Place(e[2]), LAMBDA b : FieldOf(b, e[3]))
    [] e[1] = "index" -> Chain(Place(e[2]), LAMBDA b : ElementOf(b, e[3]))
    [] OTHER          -> Fails("DerefNonVariable")

Arithmetic == {"+", "-", "*", "/"}

\* mutant of Binary: the result of a comparison is widened with its sign
BinarySigned(op, a, b) ==
  Marks(IF IsLInt(a.ty) /\ a.ty = b.ty THEN {} ELSE {"operands"},
        IF op \in Arithmetic THEN Value(a.ty, <<"op", op, a.ty, a.v, b.v>>)
        ELSE Value(LInt(32), <<"op", "-", LInt(32), <<"const", 0>>, <<"op", op, a.ty, a.v, b.v>>>>))

\* genBinary: the type of the left operand, int for a comparison
Binary(op, a, b) ==
  Marks(IF IsLInt(a.ty) /\ a.ty = b.ty THEN {} ELSE {"operands"},
        Value(IF op \in Arithmetic THEN a.ty ELSE LInt(32), <<"op", op, a.ty, a.v, b.v>>))

\* mutant of GenBinary: the right operand is generated first, as in a call
\* b_->CreateAdd(genExpr(*e.left), genExpr(*e.right)) that C++ does not order
GenBinaryUnordered(op, l, r) == Chain(r, LAMBDA b : Chain(l, LAMBDA a : Binary(op, a, b)))

\* the left operand before the right one
GenBinary(op, l, r) == Chain(l, LAMBDA a : Chain(r, LAMBDA b : Binary(op, a, b)))

\* effects of a sequence of results, up to the first that fails
Sequence(rs) == FoldLeft(LAMBDA a, r : Chain(a, LAMBDA u : r), Value(Void, <<"none">>), rs)

GenArray(elements, t) ==
  IF elements = <<>> THEN Fails("EmptyArrayLiteral")
  ELSE Typed(t, Chain(Sequence([k \in DOMAIN elements |->
                        Chain(GenAs(elements[k], t), LAMBDA a : Stored(a, LType(t)))]),
                      LAMBDA u : Marks(IF t = Void THEN {"void"} ELSE {},
                                       Value(<<"[]", LType(t), Len(elements)>>, <<"array">>))))

\* an array literal where no type is asked for: the first element gives it,
\* and is generated a second time with the others
GenBareArray(elements) ==
  IF elements = <<>> THEN Fails("EmptyArrayLiteral")
  ELSE Chain(Gen(elements[1]), LAMBDA f :
         Chain(Sequence([k \in DOMAIN elements |->
                 Chain(Gen(elements[k]), LAMBDA a :
                   Stored(IF IsLInt(f.ty) THEN Cast(a, f.ty, TRUE) ELSE a, f.ty))]),
               LAMBDA u : Marks(IF f.ty = LType(Void) THEN {"void"} ELSE {},
                                Value(<<"[]", f.ty, Len(elements)>>, <<"array">>))))

GenStruct(s, fields) ==
  IF s \notin DOMAIN structs THEN Fails("UnknownStruct")
  ELSE Chain(Sequence([k \in DOMAIN fields |->
               Chain(FieldOf(Target(Struct(s)), fields[k][1]), LAMBDA p :
                 Chain(GenAs(fields[k][2], p.ty), LAMBDA a : Stored(a, LType(p.ty))))]),
             LAMBDA u : Marks(IF {fields[k][1] : k \in DOMAIN fields}
                                 = {structs[s][k][1] : k \in DOMAIN structs[s]}
                              THEN {} ELSE {"unset"}, Value(<<"%", s>>, <<"struct">>)))

\* genWrite: a value is printed as a signed one, of 64 bits if it has more
\* than 32 and else of 32
GenWrite(args) ==
  IF Len(args) # 1 THEN Fails("WriteArgCount")
  ELSE IF args[1][1] = "str" THEN Calls(<<Runtime("puts")>>, Value(LInt(32), <<"call">>))
  ELSE Chain(Gen(args[1]), LAMBDA a :
         IF ~IsLInt(a.ty) THEN Fails("WriteArgType")
         ELSE Calls(<<Runtime("printf")>>, Value(LInt(32),
                <<"printed", Cast(a, LInt(IF a.ty[2] > 32 THEN 64 ELSE 32), TRUE)>>)))

GenUserInput(args) ==
  IF Len(args) # 1 THEN Fails("UserInputArgCount")
  ELSE IF args[1][1] # "str" THEN Fails("UserInputArgType")
  ELSE Calls(<<Runtime("printf"), Runtime("scanf"), Runtime("getchar")>>, Value(LInt(32), <<"mem", SInt(32)>>))

GenTerminalPause(args) ==
  IF Len(args) > 1 THEN Fails("TerminalPauseArgCount")
  ELSE IF args # <<>> /\ args[1][1] # "id" THEN Fails("TerminalPauseArgType")
  ELSE Calls(<<Runtime("puts"), Runtime("getchar")>>, Value(LInt(32), <<"mem", SInt(32)>>))

GenCall(f, args) ==
  CASE f = "write"          -> GenWrite(args)
    [] f = "terminal.pause" -> GenTerminalPause(args)
    [] f = "user_input"     -> GenUserInput(args)
    [] f \notin Builtins ->
         IF f \notin DOMAIN fns THEN Fails("UndeclaredFunction")
         ELSE IF Len(args) # Len(fns[f].params) THEN Fails("ArgCountMismatch")
         ELSE Chain(Sequence([k \in DOMAIN args |->
                      Chain(GenAs(args[k], fns[f].params[k]),
                            LAMBDA a : Passed(a, LType(fns[f].params[k])))]),
                    LAMBDA u : Calls(<<<<"function", f>>>>, Value(LType(fns[f].ret), <<"mem", fns[f].ret>>)))

\* INT32_MAX, scaled; a literal above it is a constant of 64 bits
Fits32(n) == n < 2 ^ (Bits[32] - 1)

Gen(e) ==
  CASE e[1] = "int"    -> Value(LInt(IF Fits32(e[2]) THEN 32 ELSE 64), <<"const", e[2]>>)
    [] e[1] = "str"    -> Value(LPtr, <<"str">>)
    [] e[1] = "id"     -> Chain(Var(e[2]), LoadOf)
    [] e[1] = "bin"    -> GenBinary(e[2], Gen(e[3]), Gen(e[4]))
    [] e[1] = "call"   -> GenCall(e[2], e[3])
    [] e[1] = "addr"   -> IF e[2][1] # "id" THEN Fails("AddressOfNonVariable")
                          ELSE Chain(Var(e[2][2]), LAMBDA p : Value(LPtr, <<"place">>))
    [] e[1] = "deref"  -> Chain(Pointer(e[2]), LoadOf)
    [] e[1] = "field"  -> Chain(Place(e), LoadOf)
    [] e[1] = "index"  -> Chain(Place(e), LoadOf)
    [] e[1] = "struct" -> GenStruct(e[2], e[3])
    [] e[1] = "array"  -> GenBareArray(e[2])

\* genExprAs
GenAs(e, want) ==
  IF e[1] = "array" THEN IF want[1] = "array" THEN GenArray(e[2], want[2]) ELSE Fails("crash")
  ELSE Chain(Gen(e), LAMBDA a : Typed(want, Cast(a, LType(want), IsInt(want) => want[3])))

StoreAs(e, t) == Chain(GenAs(e, t), LAMBDA a : Stored(a, LType(t)))

\* genStmt: the value delivered is the value of the result
GenStmt(s, ret) ==
  CASE s[1] = "expr" -> Gen(s[2])
    [] s[1] = "ret" /\ Len(s) = 1 -> Value(Void, <<"none">>)
    [] s[1] = "ret" /\ Len(s) = 2 -> Chain(GenAs(s[2], ret), LAMBDA a :
         Marks(IF a.ty = LType(ret) /\ ret # Void THEN {} ELSE {"ret"}, a))
    [] s[1] = "decl"   -> Typed(s[3], StoreAs(s[5], s[3]))
    [] s[1] = "assign" -> Chain(Var(s[2]), LAMBDA p : StoreAs(s[3], p.ty))
    [] s[1] = "store"  -> Chain(Chain(Place(s[2]), PointeeOf), LAMBDA p : StoreAs(s[3], p.ty))
    [] s[1] = "put"    -> Chain(Chain(Place(s[2]), LAMBDA b : FieldOf(b, s[3])),
                                LAMBDA p : StoreAs(s[4], p.ty))
    [] s[1] = "set"    -> Chain(Chain(Place(s[2]), LAMBDA b : ElementOf(b, s[3])),
                                LAMBDA p : StoreAs(s[4], p.ty))
=============================================================================
