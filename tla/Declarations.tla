----------------------------- MODULE Declarations -----------------------------
(***************************************************************************)
(* The tables of structs and functions: TypeChecker::check and checkFn     *)
(* (src/typecheck.cpp), CodeGen::generate and declareFn (src/codegen.cpp). *)
(* Both fill a map by name from the same list: a look-up finds the last    *)
(* declaration of a name.  CodeGen goes through the list a second time, so *)
(* two declarations of one name meet in what the map holds for it.         *)
(***************************************************************************)
EXTENDS Lowering

\* a declaration list: structs of [name, fields], functions of [name, params, ret]
Latest(ds, n) == ds[Max({k \in DOMAIN ds : ds[k].name = n})]

StructTable(m) == [n \in {m.structs[k].name : k \in DOMAIN m.structs} |->
                     Latest(m.structs, n).fields]
FnTable(m)     == [n \in {m.fns[k].name : k \in DOMAIN m.fns} |->
                     [params |-> Latest(m.fns, n).params, ret |-> Latest(m.fns, n).ret]]

Resolve(t) == IF Unresolved(t) THEN Throw("UnknownStruct") ELSE t

\* mutant of CheckDecls: the parameters are not resolved
CheckDeclsNoParams(m) ==
  AllOf(FlattenSeq([k \in DOMAIN m.structs |->
          [i \in DOMAIN m.structs[k].fields |-> Resolve(m.structs[k].fields[i][2])]])
     \o [k \in DOMAIN m.fns |-> Resolve(m.fns[k].ret)])

\* fields first, then result and parameters of one function after the other;
\* only a type that is a struct itself is looked up
CheckDecls(m) ==
  AllOf(FlattenSeq([k \in DOMAIN m.structs |->
          [i \in DOMAIN m.structs[k].fields |-> Resolve(m.structs[k].fields[i][2])]])
     \o FlattenSeq([k \in DOMAIN m.fns |->
          <<Resolve(m.fns[k].ret)>>
          \o [i \in DOMAIN m.fns[k].params |-> Resolve(m.fns[k].params[i])]]))

\* structs that a value of the type holds
RECURSIVE Held(_)
Held(t) == CASE t[1] = "struct" -> {t[2]} [] t[1] = "array" -> Held(t[2]) [] OTHER -> {}

RECURSIVE HeldIn(_, _)
HeldIn(s, n) ==
  LET direct == UNION {Held(structs[s][k][2]) : k \in DOMAIN structs[s]} \cap DOMAIN structs
  IN  IF n = 0 THEN direct ELSE direct \cup UNION {HeldIn(d, n - 1) : d \in direct}

\* a part of a struct or an argument has a type with a size
RECURSIVE Sized(_)
Sized(t) == t # Void /\ (t[1] = "array" => Sized(t[2]))

Slot(t) == Typed(t, Marks(IF Sized(t) THEN {} ELSE {"void"}, Value(LType(t), <<"none">>)))

\* setBody for every struct, then a function for every declaration.  All the
\* declarations of one name get the type or the function of the last one: its
\* body is set again, which LLVM forbids, or defined again, and the first is
\* the one that runs, its parameters bound by position.  Behind them body,
\* with the runtime functions it declares: LLVM renames the later of two
\* functions with one name
GenDecls(m, body) ==
  LET recursive(s)    == s \in HeldIn(s, Cardinality(DOMAIN structs))
      again(ds, k, b) == IF \E j \in 1..(k - 1) : ds[j].name = ds[k].name THEN {b} ELSE {}
      bodies == [k \in DOMAIN m.structs |->
                   Marks((IF recursive(m.structs[k].name) THEN {"recursive"} ELSE {})
                         \cup again(m.structs, k, "setBody"),
                         Sequence([i \in DOMAIN m.structs[k].fields |->
                                     Slot(m.structs[k].fields[i][2])]))]
      heads  == [k \in DOMAIN m.fns |->
                   Marks(again(m.fns, k, "bodies"),
                         Sequence([i \in DOMAIN m.fns[k].params |-> Slot(m.fns[k].params[i])]
                                  \o <<IF m.fns[k].ret = Void THEN Value(Void, <<"none">>)
                                       ELSE Slot(m.fns[k].ret)>>))]
      taken  == {n \in DOMAIN fns : Runtime(n) \in Range(body.calls)}
  IN  Chain(Sequence(bodies \o heads),
            LAMBDA u : Marks(IF taken = {} THEN {} ELSE {"symbol"}, body))
=============================================================================
