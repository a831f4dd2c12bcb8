-------------------------------- MODULE Suggest --------------------------------
(***************************************************************************)
(* suggestClosest and levenshtein (src/error.cpp): the name that the error *)
(* for an unknown one proposes.  The candidates come out of an             *)
(* unordered_map, in any order.  A name is a sequence of letters.          *)
(***************************************************************************)
EXTENDS Integers, SequencesExt, FiniteSetsExt

CONSTANT Words   \* the names that may be written or declared

VARIABLES name,        \* the unknown name
          candidates,  \* the names in scope
          left,        \* candidates not looked at yet
          best,        \* the closest so far, <<>> before the first
          bestDist     \* its distance

suggestVars == <<name, candidates, left, best, bestDist>>

Far == 100   \* std::string::npos

\* the row of the table for letter x of a, from the row above it
RECURSIVE Row(_, _, _, _)

\* mutant of Row: a substitution costs as much as two edits
RowNoSubst(x, b, above, row) ==
  LET j == Len(row)
  IN  IF j > Len(b) THEN row
      ELSE Row(x, b, above, Append(row, Min({above[j + 1] + 1, row[j] + 1,
                                             above[j] + (IF x = b[j] THEN 0 ELSE 2)})))

Row(x, b, above, row) ==
  LET j == Len(row)
  IN  IF j > Len(b) THEN row
      ELSE Row(x, b, above, Append(row, Min({above[j + 1] + 1, row[j] + 1,
                                             above[j] + (IF x = b[j] THEN 0 ELSE 1)})))

RECURSIVE Table(_, _, _)
Table(a, b, i) == IF i = 0 THEN [j \in 1..(Len(b) + 1) |-> j - 1]
                  ELSE Row(a[i], b, Table(a, b, i - 1), <<i>>)

Levenshtein(a, b) == Table(a, b, Len(a))[Len(b) + 1]

NoSuggestion == name = <<>> /\ candidates = {} /\ left = {} /\ best = <<>> /\ bestDist = Far

\* suggestClosest is called for a name that none of the candidates is
Ask(n, names) == /\ name' = n /\ candidates' = names /\ left' = names
                 /\ best' = <<>> /\ bestDist' = Far

Compare == \E c \in left :
             LET dist == Levenshtein(name, c)
             IN  /\ left' = left \ {c} /\ UNCHANGED <<name, candidates>>
                 /\ best' = IF dist < bestDist THEN c ELSE best
                 /\ bestDist' = IF dist < bestDist THEN dist ELSE bestDist

\* what follows the message: the name in "did you mean", or nothing
Suggestion ==
  LET threshold == Max({2, Len(name) \div 3})
  IN  IF best = <<>> \/ bestDist > threshold THEN <<>> ELSE best

-----------------------------------------------------------------------------
(* Distance without a table: how many single edits lead from a to b *)

Edited(a) == {b \in Words \cup {<<>>} :
                \/ \E i \in DOMAIN a : b = RemoveAt(a, i)
                \/ \E i \in DOMAIN b : a = RemoveAt(b, i)
                \/ Len(a) = Len(b) /\ Cardinality({i \in DOMAIN a : a[i] # b[i]}) = 1}

EditsOf == [a \in Words \cup {<<>>} |-> Edited(a)]

RECURSIVE Within(_, _)
Within(a, n) == IF n = 0 THEN {a} ELSE LET S == Within(a, n - 1) IN S \cup UNION {EditsOf[b] : b \in S}
=============================================================================
