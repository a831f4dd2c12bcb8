------------------------------- MODULE MCDriver -------------------------------
(* Two runs of shinec, with command lines that meet on files or do not. *)
EXTENDS Driver

CONSTANTS a, b, p, q

O == Dash

\* two programs, built, compiled to an object and for 32 bits, one of them
\* from a source named as an executable, three to an output of another name,
\* which may be -o or -c; words that name an input twice, none, or the file
\* -o, a source without extension
MixedLines == {<<<<a, "shine">>>>,
               <<O, <<a, "exe">>, <<b, "shine">>>>,
               <<Option("-c"), <<a, "shine">>, <<b, "shine">>>>,
               <<O>>,
               <<Option("-32"), <<b, "o">>, Option("-c"), O, O, O, <<b, "exe">>>>,
               <<O, <<a, "shine">>>>,
               <<<<a, "shine">>, O, Option("-c"), Option("-c"), O>>,
               <<<<a, "exe">>>>,
               <<<<b, "shine">>, O, O>>}

\* two programs, built side by side
TwoPrograms == {<<<<a, "shine">>>>, <<<<b, "shine">>>>}

TwoStems  == {a, b}
TwoRuns   == {p, q}
FirstOnly == {0}
AllButOne == {0, 2}
=============================================================================
