----------------------------- MODULE MCExpressions -----------------------------
(* Declarations, variables and expressions to start from, for TLC. *)
EXTENDS Expressions

Id(x)   == <<"id", x>>
Num(n)  == <<"int", n>>
Call(f) == <<"call", f, <<>>>>

Names == {"x", "w", "b", "c", "p", "s", "a", "q", "n", "k", "sp", "terminal", "pause", "u", "y",
          "h", "g", "v", "S", "T", "Nope", "i7", "f", "write", "user_input"}

Mutable(t) == [t |-> t, m |-> TRUE]

\* integers of four types, a pointer, a struct, arrays, and pointers to what
\* cannot be read
Scope == [x \in {"x", "w", "b", "c", "p", "s", "a", "q", "n", "k", "sp", "terminal"} |->
            CASE x = "x" -> Mutable(SInt(32))  [] x = "w" -> Mutable(SInt(64))
              [] x = "b" -> [t |-> UInt(8), m |-> FALSE]
              [] x = "c" -> Mutable(SInt(8))
              [] x = "p" -> Mutable(Ptr(SInt(32)))
              [] x \in {"s", "terminal"} -> Mutable(Struct("S"))
              [] x = "a" -> Mutable(Arr(SInt(32), 2))
              [] x = "q" -> Mutable(Arr(Ptr(SInt(32)), 2))
              [] x = "n" -> Mutable(Ptr(Struct("Nope")))
              [] x = "k" -> Mutable(Ptr(Void))
              [] x = "sp" -> Mutable(Ptr(Struct("S")))]

StructS == [name |-> "S", fields |-> <<<<"f", SInt(32)>>, <<"pause", Ptr(SInt(32))>>>>]
Fn(f, params, r) == [name |-> f, params |-> params, ret |-> r]

StandardModule == [structs |-> <<StructS>>,
                   fns |-> <<Fn("h", <<SInt(32)>>, SInt(32)), Fn("g", <<>>, Struct("S")),
                             Fn("v", <<>>, Void)>>]

FieldTypes == {SInt(32), Void, Struct("S"), Struct("T"), Struct("Nope"), Ptr(Struct("S")),
               Ptr(Struct("Nope")), Arr(Struct("T"), 2), Arr(Struct("Nope"), 2), Arr(Void, 1)}

OneField(s, t) == [name |-> s, fields |-> <<<<"f", t>>>>]

\* two structs of one or two names; and one struct with two functions
StructPairs == {[structs |-> <<OneField("S", t), OneField(s, u)>>, fns |-> <<>>] :
                  s \in {"S", "T"}, t \in FieldTypes, u \in FieldTypes}
FnPairs == {[structs |-> <<OneField("S", SInt(32))>>, fns |-> <<Fn("h", <<t>>, Void), Fn(f, <<>>, r)>>] :
              f \in {"h", "puts", "printf", "scanf", "getchar"}, t \in FieldTypes, r \in FieldTypes}

AllModules == {StandardModule} \cup StructPairs \cup FnPairs

\* files around two blocks of one nested if or loop, and declarations
Simple   == {<<"stop">>, <<"ret">>, <<"expr", Call("v")>>}
Blocks   == {<<>>} \cup {<<s>> : s \in Simple}
Nest(t, e) == {<<"if", Id("x"), b, c>> : b \in t, c \in e} \cup {<<"loop", Id("x"), b>> : b \in t}
Nested   == Blocks \cup {<<s>> : s \in Nest(Blocks, Blocks)}
Bodies2  == {<<s>> : s \in Nest(Blocks, Nested) \cup Nest(Nested, Blocks)}
            \cup {<<<<"cont">>, s, <<"ret", Num(1)>>>> : s \in Nest(Blocks, Blocks)}
TwoNames == {<<>>, <<<<"x", Ptr(Struct("S"))>>>>, <<<<"x", SInt(32)>>, <<"y", Arr(Ptr(UInt(8)), 2)>>>>}
InMain(b) == [name |-> "h", params |-> <<>>, ret |-> Void, body |-> b]
SomeFiles == {[structs |-> <<>>, fns |-> <<InMain(b)>>] : b \in Bodies2}
        \cup {[structs |-> s, fns |-> <<[name |-> "g", params |-> p, ret |-> r, body |-> <<>>], InMain(<<>>)>>] :
                 s \in {<<>>} \cup {<<[name |-> "S", fields |-> f]>> : f \in TwoNames},
                 p \in TwoNames, r \in {Void, Struct("S"), Ptr(SInt(32))}}

StartLeaves == {Id(x) : x \in DOMAIN Scope \cup {"u"}} \cup {Num(0), Num(1), Num(9), <<"str">>}
          \cup {Call(f) : f \in {"g", "v", "u", "terminal.pause"}}
          \cup {<<"call", "h", <<Num(0)>>>>, <<"array", <<>>>>}

NextTo == <<{Id("x"), Id("w"), Id("b"), Id("u"), Num(1), Num(9), Call("terminal.pause")}, {Id("x"), Id("w"), Num(1)}>>

SomeOps == {"==", "<", "-", "*", "/"}

Declared == {SInt(32), SInt(64), UInt(8), Ptr(SInt(32)), Arr(SInt(32), 2), Ptr(Arr(SInt(32), 2)),
             Arr(Ptr(SInt(32)), 1), Arr(Struct("Nope"), 1), Arr(Void, 1), Struct("S"), Struct("Nope"),
             Struct("i7"), Struct(HugeName), Void}

Results == {Void, SInt(32), UInt(8), Struct("S"), Arr(SInt(32), 2)}

Letters == {<<x>> : x \in {"a", "b"}}
Longer(S) == {l \o t : l \in Letters, t \in S}

\* all words of up to three letters, and long ones of one letter
SmallWords == Letters \cup Longer(Letters) \cup Longer(Longer(Letters))
              \cup {[i \in 1..n |-> "a"] : n \in 4..10}
=============================================================================
