-------------------------------- MODULE Lexer --------------------------------
(***************************************************************************)
(* class Lexer (src/lexer.cpp): characters to tokens, one action for each  *)
(* turn of a loop.  `pos` counts the characters consumed (pos_), `at` is   *)
(* line_ and col_, `text` and `start` are the locals of ident, number and  *)
(* str, and `mode` is the loop the code is in.                             *)
(*                                                                         *)
(* A character is a string of length one, a text a sequence of them.       *)
(***************************************************************************)
EXTENDS Integers, SequencesExt, FiniteSetsExt

CONSTANTS Sources,  \* the texts a file may hold
          MaxInt    \* the largest value of an int64_t, scaled down

ASSUME LexerAssumption == Sources \subseteq Seq(STRING) /\ MaxInt \in Nat

VARIABLES src, pos, at, mode, text, start, toks, error

vars == <<src, pos, at, mode, text, start, toks, error>>

\* isalpha, or '_'
Alpha == {"a", "b", "c", "d", "e", "f", "g", "h", "i", "j", "k", "l", "m", "n", "o", "p", "q", "r",
          "s", "t", "u", "v", "w", "x", "y", "z", "A", "B", "C", "D", "E", "F", "G", "H", "I", "J",
          "K", "L", "M", "N", "O", "P", "Q", "R", "S", "T", "U", "V", "W", "X", "Y", "Z", "_"}

Numerals == <<"0", "1", "2", "3", "4", "5", "6", "7", "8", "9">>
Digits   == [c \in Range(Numerals) |-> CHOOSE d \in 0..9 : Numerals[d + 1] = c]

Blanks  == {" ", "\t", "\r", "\n"}
Single  == {"(", ")", "{", "}", "[", "]", ";", ",", ":", ".", "=", "+", "*", "&", "/", "<", ">", "-"}
Pairs   == [c \in {"=", "!", "<", ">", "-"} |-> IF c = "-" THEN ">" ELSE "="]
Quote   == "\""
Escapes == [c \in {"n", "t", Quote, "\\"} |-> CASE c = "n" -> "\n" [] c = "t" -> "\t" [] OTHER -> c]
NoChar  == "\\0"

Alnum(c) == c \in Alpha \cup DOMAIN Digits

\* kKeywords
Keywords == {<<"f", "n">>, <<"l", "e", "t">>, <<"v", "a", "r">>, <<"i", "n", "t">>,
             <<"v", "o", "i", "d">>, <<"s", "t", "r", "u", "c", "t">>, <<"i", "f">>,
             <<"e", "l", "s", "e">>, <<"l", "o", "o", "p">>, <<"s", "t", "o", "p">>,
             <<"c", "o", "n", "t">>}

ReturnWords == {<<"r">>, <<"r", "e", "t", "u", "r", "n">>}

Token(k, t, v, l) == [kind |-> k, text |-> t, value |-> v, loc |-> l]

Codes == {"none", "UnterminatedComment", "UnterminatedString", "BadEscapeSequence",
          "UnexpectedChar"}

NoLoc == [line |-> 1, col |-> 1]

Init == /\ src \in Sources
        /\ pos = 0 /\ at = NoLoc /\ mode = "trivia"
        /\ text = <<>> /\ start = NoLoc /\ toks = <<>>
        /\ error = [code |-> "none", loc |-> NoLoc]

-----------------------------------------------------------------------------
(* Reading *)

AtEnd == pos >= Len(src)

Peek(k) == IF pos + k < Len(src) THEN src[pos + k + 1] ELSE NoChar

Step(l, c) == IF c = "\n" THEN [line |-> l.line + 1, col |-> 1]
              ELSE [l EXCEPT !.col = @ + 1]

\* advance() is called for two characters at most
After(n) == CASE n = 0 -> at
              [] n = 1 -> Step(at, Peek(0))
              [] n = 2 -> Step(Step(at, Peek(0)), Peek(1))

Advance(n) == pos' = pos + n /\ at' = After(n)

In(m) == mode = m /\ UNCHANGED src

\* the loop in mode goes on behind the next n characters
Reads(n, t) == /\ Advance(n) /\ text' = t
               /\ UNCHANGED <<mode, start, toks, error>>

Enters(m, n) == /\ mode' = m /\ Advance(n) /\ text' = <<>> /\ start' = at
                /\ UNCHANGED <<toks, error>>

Push(k, t, v, l, n) == /\ toks' = Append(toks, Token(k, t, v, l))
                       /\ mode' = "trivia" /\ Advance(n)
                       /\ text' = <<>> /\ UNCHANGED <<start, error>>

\* mutant of Err: the position before those characters is reported
ErrBefore(code, n) == /\ mode' = "failed" /\ Advance(n)
                      /\ error' = [code |-> code, loc |-> at]
                      /\ UNCHANGED <<text, start, toks>>

\* err() reports the position behind the n characters read last
Err(code, n) == /\ mode' = "failed" /\ Advance(n)
                /\ error' = [code |-> code, loc |-> After(n)]
                /\ UNCHANGED <<text, start, toks>>

-----------------------------------------------------------------------------
(* skipTrivia *)

CommentAt == Peek(0) = "/" /\ Peek(1) \in {"/", "*"}

SkipBlank == In("trivia") /\ Peek(0) \in Blanks /\ Reads(1, text)

EnterComment ==
  /\ In("trivia") /\ CommentAt
  /\ IF Peek(1) = "/" THEN Enters("line", 0) ELSE Enters("block", 2)

InLine == /\ In("line")
          /\ IF AtEnd \/ Peek(0) = "\n" THEN Enters("trivia", 0) ELSE Reads(1, text)

\* mutant of InBlock: the end of the file is not looked for
InBlockForEver ==
  /\ In("block")
  /\ IF Peek(0) = "*" /\ Peek(1) = "/" THEN Enters("trivia", 2)
     ELSE Reads(IF AtEnd THEN 0 ELSE 1, text)

InBlock ==
  /\ In("block")
  /\ IF AtEnd THEN Err("UnterminatedComment", 0)
     ELSE IF Peek(0) = "*" /\ Peek(1) = "/" THEN Enters("trivia", 2)
     ELSE Reads(1, text)

-----------------------------------------------------------------------------
(* tokenize *)

AtToken == In("trivia") /\ ~AtEnd /\ Peek(0) \notin Blanks /\ ~CommentAt

BeginIdent  == AtToken /\ Peek(0) \in Alpha /\ Enters("ident", 0)
BeginNumber == AtToken /\ Peek(0) \in DOMAIN Digits /\ Enters("number", 0)
BeginString == AtToken /\ Peek(0) = Quote /\ Enters("string", 1)

InIdent == In("ident") /\ ~AtEnd /\ Alnum(Peek(0)) /\ Reads(1, Append(text, Peek(0)))

\* mutant of EndIdent: a comment behind r makes it a return
EndIdentAtSlash ==
  /\ In("ident") /\ (AtEnd \/ ~Alnum(Peek(0)))
  /\ IF text \in ReturnWords /\ Peek(0) = "/"
     THEN Push("KwReturn", Append(text, "/"), 0, start, 1)
     ELSE Push(IF text \in Keywords THEN "Keyword" ELSE "Identifier", text, 0, start, 0)

EndIdent ==
  /\ In("ident") /\ (AtEnd \/ ~Alnum(Peek(0)))
  /\ IF text \in ReturnWords /\ Peek(0) = "/" /\ Peek(1) \notin {"/", "*"}
     THEN Push("KwReturn", Append(text, "/"), 0, start, 1)
     ELSE Push(IF text \in Keywords THEN "Keyword" ELSE "Identifier", text, 0, start, 0)

InNumber == /\ In("number") /\ ~AtEnd /\ Peek(0) \in DOMAIN Digits
            /\ Reads(1, Append(text, Peek(0)))

\* std::stoll, unless it throws
Stoll(t) ==
  LET value[n \in 0..Len(t)] == IF n = 0 THEN 0 ELSE 10 * value[n - 1] + Digits[t[n]]
  IN  value[Len(t)]

\* mutant of EndNumber: a longer literal is passed on
EndNumberAny == /\ In("number") /\ (AtEnd \/ Peek(0) \notin DOMAIN Digits)
                /\ Push("IntLiteral", text, Stoll(text), start, 0)

\* stoll throws std::out_of_range, which nobody catches: the compiler aborts
EndNumber ==
  /\ In("number") /\ (AtEnd \/ Peek(0) \notin DOMAIN Digits)
  /\ IF Stoll(text) <= MaxInt THEN Push("IntLiteral", text, Stoll(text), start, 0)
     ELSE mode' = "crashed" /\ UNCHANGED <<pos, at, text, start, toks, error>>

InString ==
  /\ In("string") /\ ~AtEnd /\ Peek(0) \notin {Quote, "\\"}
  /\ Reads(1, Append(text, Peek(0)))

\* mutant of InEscape: the character behind the backslash is not known to exist
InEscapePastEnd ==
  /\ In("string") /\ Peek(0) = "\\"
  /\ IF Peek(1) \in DOMAIN Escapes THEN Reads(2, Append(text, Escapes[Peek(1)]))
     ELSE Err("BadEscapeSequence", 2)

InEscape ==
  /\ In("string") /\ Peek(0) = "\\"
  /\ IF pos + 1 >= Len(src) THEN Err("UnterminatedString", 1)
     ELSE IF Peek(1) \in DOMAIN Escapes THEN Reads(2, Append(text, Escapes[Peek(1)]))
     ELSE Err("BadEscapeSequence", 2)

EndString ==
  /\ In("string") /\ (AtEnd \/ Peek(0) = Quote)
  /\ IF AtEnd THEN Err("UnterminatedString", 0)
     ELSE Push("StringLiteral", text, 0, start, 1)

\* the switch: two characters where they fit, else one, else an error.  The
\* error of a lone '!' is thrown behind it, any other at the character
Symbol ==
  /\ AtToken /\ ~Alnum(Peek(0)) /\ Peek(0) # Quote
  /\ IF Peek(0) \in DOMAIN Pairs /\ Pairs[Peek(0)] = Peek(1)
     THEN Push("Symbol", <<Peek(0), Peek(1)>>, 0, at, 2)
     ELSE IF Peek(0) \in Single THEN Push("Symbol", <<Peek(0)>>, 0, at, 1)
     ELSE Err("UnexpectedChar", IF Peek(0) = "!" THEN 1 ELSE 0)

EndOfFile == /\ In("trivia") /\ AtEnd
             /\ toks' = Append(toks, Token("EndOfFile", <<>>, 0, at))
             /\ mode' = "done" /\ UNCHANGED <<pos, at, text, start, error>>

Over == mode \in {"done", "failed", "crashed"} /\ UNCHANGED vars

Next == \/ SkipBlank \/ EnterComment \/ InLine \/ InBlock
        \/ BeginIdent \/ InIdent \/ EndIdent
        \/ BeginNumber \/ InNumber \/ EndNumber
        \/ BeginString \/ InString \/ InEscape \/ EndString
        \/ Symbol \/ EndOfFile \/ Over

Spec == Init /\ [][Next]_vars

\* tokenize runs on one thread and does not stop while it has a step to take
FairSpec == Spec /\ WF_vars(Next)

TypeOK ==
  /\ src \in Sources /\ pos \in 0..Len(src)
  /\ at \in [line : 1..(Len(src) + 1), col : 1..(Len(src) + 1)]
  /\ mode \in {"trivia", "line", "block", "ident", "number", "string",
               "done", "failed", "crashed"}
  /\ Len(text) <= Len(src) /\ Len(toks) <= Len(src) + 1
  /\ error.code \in Codes /\ (error.code # "none") = (mode = "failed")

-----------------------------------------------------------------------------
(* What a text consists of, said of slices of it and not of a scan: a slice *)
(* goes from offset a to offset b, the characters a + 1 to b.               *)

Offsets == 0..Len(src)

Slice(a, b) == SubSeq(src, a + 1, b)
CharAt(a)   == IF a < Len(src) THEN src[a + 1] ELSE NoChar

Where(a) ==
  LET newlines == {k \in 1..a : src[k] = "\n"}
  IN  [line |-> Cardinality(newlines) + 1, col |-> a + 1 - Max(newlines \cup {0})]

\* the character at k of s is behind an odd number of backslashes
Escaped(s, k) ==
  Cardinality({j \in 1..(k - 1) : \A i \in j..(k - 1) : s[i] = "\\"}) % 2 = 1

IsWord(s)   == s # <<>> /\ s[1] \in Alpha /\ \A k \in 1..Len(s) : Alnum(s[k])
IsNumber(s) == s # <<>> /\ \A k \in 1..Len(s) : s[k] \in DOMAIN Digits
IsSymbol(s) == \/ Len(s) = 1 /\ s[1] \in Single
               \/ Len(s) = 2 /\ s[1] \in DOMAIN Pairs /\ s[2] = Pairs[s[1]]
IsString(s) == /\ Len(s) >= 2 /\ s[1] = Quote /\ s[Len(s)] = Quote /\ ~Escaped(s, Len(s))
               /\ \A k \in 2..(Len(s) - 1) :
                    IF Escaped(s, k) THEN s[k] \in DOMAIN Escapes ELSE s[k] # Quote

\* s is a lexeme of kind k where the character `next` is behind it
IsLexeme(k, s, next) ==
  LET comment == next \in {"/", "*"}
  IN  CASE k = "KwReturn"      -> /\ s # <<>> /\ Front(s) \in ReturnWords
                                  /\ Last(s) = "/" /\ ~comment
        [] k = "Keyword"       -> s \in Keywords
        [] k = "Identifier"    -> IsWord(s) /\ s \notin Keywords
        [] k = "IntLiteral"    -> IsNumber(s)
        [] k = "StringLiteral" -> IsString(s)
        [] k = "Symbol"        -> IsSymbol(s) /\ ~(s = <<"/">> /\ comment)

Lexeme(k, a, b) == IsLexeme(k, Slice(a, b), CharAt(b))

Kinds == {"KwReturn", "Keyword", "Identifier", "IntLiteral", "StringLiteral", "Symbol"}

Longest(a, b) == \A c \in (b + 1)..Len(src), k \in Kinds : ~Lexeme(k, a, c)

\* a blank or a whole comment; the new line behind // is a blank
IsGap(a, b) ==
  LET s == Slice(a, b)
  IN  \/ b = a + 1 /\ s[1] \in Blanks
      \/ /\ Len(s) >= 2 /\ SubSeq(s, 1, 2) = <<"/", "/">>
         /\ ~Contains(s, "\n") /\ (CharAt(b) = "\n" \/ b = Len(src))
      \/ /\ Len(s) >= 4 /\ SubSeq(s, 1, 2) = <<"/", "*">>
         /\ {k \in 3..(Len(s) - 1) : s[k] = "*" /\ s[k + 1] = "/"} = {Len(s) - 1}

\* the slice is made of blanks and comments
Skipped(a, b) ==
  \E cuts \in SUBSET ((a + 1)..(b - 1)) :
    \A c \in (cuts \cup {a}) \ {b} : IsGap(c, Min({d \in cuts \cup {b} : d > c}))

Tens(n) == LET power[k \in 0..n] == IF k = 0 THEN 1 ELSE 10 * power[k - 1] IN power

NumberOf(s) ==
  LET n == Len(s)
      sum[k \in 0..n] == IF k = 0 THEN 0 ELSE sum[k - 1] + Digits[s[k]] * Tens(n)[n - k]
  IN  sum[n]

\* the characters of a string literal that stand for one of its value
Kept(s) == {k \in 2..(Len(s) - 1) : s[k] # "\\" \/ Escaped(s, k)}

\* t is the value of the string literal s
Spells(t, s) ==
  /\ Len(t) = Cardinality(Kept(s))
  /\ \A k \in Kept(s) : t[Cardinality({j \in Kept(s) : j <= k})]
                           = IF Escaped(s, k) THEN Escapes[s[k]] ELSE s[k]

\* t is the token of the slice
Denotes(t, a, b) ==
  /\ Lexeme(t.kind, a, b) /\ Longest(a, b) /\ t.loc = Where(a)
  /\ IF t.kind = "StringLiteral" THEN Spells(t.text, Slice(a, b)) ELSE t.text = Slice(a, b)
  /\ t.value = IF t.kind = "IntLiteral" THEN NumberOf(Slice(a, b)) ELSE 0

StartOf(t) == Min({a \in Offsets : Where(a) = t.loc} \cup {Len(src)})
Ends(t)    == {b \in Offsets : Denotes(t, StartOf(t), b)}

\* the text up to offset a is the tokens ts, with blanks and comments between
Covers(ts, a) ==
  LET EndOf(i) == IF i = 0 THEN 0 ELSE Min(Ends(ts[i]))
  IN  /\ \A i \in 1..Len(ts) : Ends(ts[i]) # {}
      /\ \A i \in 1..Len(ts) : Skipped(EndOf(i - 1), StartOf(ts[i]))
      /\ EndOf(Len(ts)) <= a /\ Skipped(EndOf(Len(ts)), a)

\* the string that starts at offset a breaks off at the escape before offset b
BadEscape(a, b) == /\ b - a >= 3 /\ CharAt(b - 2) = "\\" /\ CharAt(b - 1) \notin DOMAIN Escapes
                   /\ ~Escaped(Slice(a, b), b - a - 1)

OpensBlock(a) == CharAt(a) = "/" /\ CharAt(a + 1) = "*"

\* what is wrong at offset a when code is reported for the position loc
Reason(code, loc, a) ==
  CASE code = "UnterminatedComment" -> OpensBlock(a) /\ loc = Where(Len(src))
    [] code = "UnterminatedString" -> CharAt(a) = Quote /\ loc = Where(Len(src))
    [] code = "BadEscapeSequence" ->
         CharAt(a) = Quote /\ \E b \in Offsets : BadEscape(a, b) /\ loc = Where(b)
    [] code = "UnexpectedChar" ->
         /\ CharAt(a) # Quote /\ ~OpensBlock(a)
         /\ loc = Where(IF CharAt(a) = "!" THEN a + 1 ELSE a)

\* The tokens of an accepted text are the text, cut into the longest lexemes
\* with their values, lines and columns, and nothing but blanks and comments
\* between them; r or return is a keyword just where a '/' that begins no
\* comment follows at once, whatever r may be in the program.
TokensAreTheText ==
  mode = "done" => /\ Last(toks) = Token("EndOfFile", <<>>, 0, Where(Len(src)))
                   /\ Covers(Front(toks), Len(src))

\* A text is refused only where no lexeme, blank or comment starts, behind
\* tokens that are right: an open comment or string at the end of the file, an
\* escape behind its letter, a lone '!' one column too far, others in place.
ErrorsAreReal ==
  mode = "failed" =>
    \E a \in Offsets : /\ a < Len(src) /\ Covers(toks, a) /\ Reason(error.code, error.loc, a)
                       /\ \A b \in (a + 1)..Len(src) :
                            ~IsGap(a, b) /\ \A k \in Kinds : ~Lexeme(k, a, b)

\* The compiler aborts in the lexer on a literal above the largest int64_t,
\* leading zeros apart, and no such literal ever becomes a token.
CrashMeansOverflow ==
  /\ \A i \in 1..Len(toks) : toks[i].value <= MaxInt
  /\ mode = "crashed" =>
       \E a, b \in Offsets : /\ a < b /\ Covers(toks, a) /\ Lexeme("IntLiteral", a, b)
                             /\ Longest(a, b) /\ NumberOf(Slice(a, b)) > MaxInt

\* Every text is turned into tokens, refused or fatal: no loop of the lexer
\* runs on at the end of the file.
LexingEnds == <>(mode \in {"done", "failed", "crashed"})
=============================================================================
