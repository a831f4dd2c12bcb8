-------------------------------- MODULE MCLexer --------------------------------
(* Texts for TLC: all that pieces of a few kinds can be put together to. *)
EXTENDS Lexer

CONSTANT Size   \* bound: pieces of a text

Texts(chars, n) == UNION {[1..k -> chars] : k \in 0..n}

Return == <<"r", "e", "t", "u", "r", "n">>

\* comments, what they end in and what stands next to them; strings with
\* escapes and lines; words and numbers; operators of one and two characters
MixedTexts == Texts({"/", "*", "r", "\n"}, Size + 2)
         \cup Texts({"\"", "\\", "n", "\n", "/"}, Size + 1)
         \cup Texts({"r", "n", "f", "_", "0", "9", " ", "/"}, Size)
         \cup {Return \o t : t \in Texts({"r", "9", " ", "/", "*"}, Size - 1)}
         \cup Texts({"=", "!", "<", "-", ">", "*", "(", "@", " ", "9"}, Size)
=============================================================================
