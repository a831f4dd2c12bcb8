------------------------------ MODULE LexerProofs ------------------------------
(***************************************************************************)
(* The tokens are the text, for every text: the lexer cuts it into the     *)
(* longest lexemes, and refuses or aborts only where it has to.            *)
(*                                                                         *)
(* The argument needs that the tokens so far cover the text up to where    *)
(* the lexeme or comment at hand began, that line_ and col_ are the place  *)
(* of the read head, and for each loop what the slice between the two is a *)
(* beginning of (Begun).                                                   *)
(***************************************************************************)
EXTENDS Lexer, FiniteSetTheorems, WellFoundedInduction, SequenceTheorems, TLAPS

-----------------------------------------------------------------------------
(* Numbers *)

(* Every set of numbers has a smallest one.                                 *)
LEMMA Smallest ==
  ASSUME NEW T \in SUBSET Nat, T # {}
  PROVE \E n \in T : \A m \in T : n <= m
  <1> DEFINE R == {ss \in Nat \X Nat : ss[1] < ss[2]}
  <1>1. IsWellFoundedOn(R, Nat)
    BY NatLessThanWellFounded DEF OpToRel
  <1>r. \A x, y \in Nat : x < y => <<x, y>> \in R
    OBVIOUS
  <1> HIDE DEF R
  <1>2. PICK n \in T : \A m \in T : ~(<<m, n>> \in R)
    BY <1>1, WFMin
  <1>3. \A m \in T : n <= m
    <2> TAKE m \in T
    <2>1. m \in Nat /\ n \in Nat /\ ~(m < n)
      BY <1>r, <1>2
    <2> QED BY <2>1
  <1> QED BY <1>3

(* Every bounded set of numbers has a largest one.                          *)
LEMMA Largest ==
  ASSUME NEW n \in Nat, NEW T \in SUBSET (0..n), T # {}
  PROVE  \E x \in T : \A y \in T : x >= y
  <1> DEFINE D == {d \in 0..n : n - d \in T}
  <1>1. D \in SUBSET Nat
    OBVIOUS
  <1>2. D # {}
    <2> PICK x \in T : TRUE
      OBVIOUS
    <2>1. x \in 0..n
      OBVIOUS
    <2>2. n - x \in 0..n /\ n - (n - x) = x
      BY <2>1
    <2> QED BY <2>2
  <1>3. PICK d \in D : \A e \in D : d <= e
    <2> HIDE DEF D
    <2> QED BY <1>1, <1>2, Smallest
  <1>4. n - d \in T
    BY <1>3
  <1>5. ASSUME NEW y \in T PROVE n - d >= y
    <2>1. y \in 0..n /\ d \in 0..n
      OBVIOUS
    <2>2. n - y \in 0..n /\ n - (n - y) = y
      BY <2>1
    <2>3. d <= n - y
      BY <1>3, <2>2
    <2> QED BY <2>1, <2>3
  <1> QED BY <1>4, <1>5

(* Max is the largest.                                                      *)
LEMMA MaxFacts ==
  ASSUME NEW n \in Nat, NEW T \in SUBSET (0..n), T # {}
  PROVE  Max(T) \in T /\ \A y \in T : Max(T) >= y
  BY Largest DEF Max

(* Min is the least.                                                        *)
LEMMA MinFacts ==
  ASSUME NEW T \in SUBSET Nat, T # {}
  PROVE  Min(T) \in T /\ \A y \in T : Min(T) <= y
  BY Smallest DEF Min

\* f is the function with this linear recursion
Linear(f, n, b, c, e) ==
  f \in [0..n -> Nat] /\ f[0] = b /\ \A k \in 1..n : f[k] = c * f[k - 1] + e[k]

(* There is such a function.                                                *)
LEMMA LinearRecursion ==
  ASSUME NEW n \in Nat, NEW b \in Nat, NEW c \in Nat, NEW e \in [1..n -> Nat]
  PROVE  \E f : Linear(f, n, b, c, e)
  <1> DEFINE Good(f, m) == Linear(f, m, b, c, e)
             T == {m \in 0..n : ~ \E f : Good(f, m)}
  <1>1. SUFFICES ASSUME T # {} PROVE FALSE
    <2>1. n \in 0..n
      OBVIOUS
    <2>2. T = {} => \E f : Good(f, n)
      BY <2>1
    <2> QED BY <2>2
  <1>2. PICK m \in T : \A k \in T : m <= k
    <2>1. T \in SUBSET Nat
      OBVIOUS
    <2> HIDE DEF T
    <2> QED BY <1>1, <2>1, Smallest
  <1>3. m # 0
    <2>1. Good([i \in 0..0 |-> b], 0)
      BY DEF Linear
    <2> QED BY <2>1
  <1>4. m - 1 \in 0..n /\ m - 1 \notin T /\ m \in 1..n
    <2>1. m \in 0..n /\ m \in Nat
      OBVIOUS
    <2>2. m - 1 \in 0..n /\ m \in 1..n /\ ~(m <= m - 1)
      BY <2>1, <1>3
    <2> QED BY <2>2, <1>2
  <1>5. PICK f : Good(f, m - 1)
    BY <1>4
  <1> DEFINE h == [i \in 0..m |-> IF i = m THEN c * f[m - 1] + e[m] ELSE f[i]]
  <1>6. f[m - 1] \in Nat /\ (\A i \in 0..(m - 1) : f[i] \in Nat) /\ e[m] \in Nat
    BY <1>4, <1>5 DEF Linear
  <1>7. c * f[m - 1] + e[m] \in Nat
    <2>1. \A x, y, z \in Nat : x * y + z \in Nat
      OBVIOUS
    <2> QED BY <1>6, <2>1
  <1>8. h \in [0..m -> Nat] /\ h[0] = b
    BY <1>3, <1>4, <1>5, <1>6, <1>7 DEF Linear
  <1>9. \A i \in 1..m : h[i] = c * h[i - 1] + e[i]
    <2> TAKE i \in 1..m
    <2>1. i \in 0..m /\ i - 1 \in 0..m /\ i - 1 # m /\ (i # m => i \in 1..(m - 1))
      BY <1>4
    <2>2. h[i - 1] = f[i - 1]
      BY <2>1
    <2>3. CASE i = m
      BY <2>1, <2>2, <2>3
    <2>4. CASE i # m
      <3>1. h[i] = f[i] /\ f[i] = c * f[i - 1] + e[i]
        BY <1>5, <2>1, <2>4 DEF Linear
      <3> QED BY <3>1, <2>2
    <2> QED BY <2>3, <2>4
  <1> HIDE DEF h
  <1>10. Good(h, m)
    BY <1>8, <1>9 DEF Linear
  <1>11. \E g : Good(g, m)
    BY <1>10
  <1>12. m \in T
    BY <1>2
  <1> QED BY <1>11, <1>12

\* f and g have the same recursion
Alike(f, g, n) == /\ f = [k \in 0..n |-> f[k]] /\ g = [k \in 0..n |-> g[k]] /\ f[0] = g[0]
                  /\ \A k \in 1..n : f[k - 1] = g[k - 1] => f[k] = g[k]

(* Such functions are the same.                                             *)
LEMMA SameFunction ==
  ASSUME NEW n \in Nat, NEW f, NEW g, Alike(f, g, n)
  PROVE  f = g
  <1> DEFINE T == {k \in 0..n : g[k] # f[k]}
  <1>1. CASE T = {}
    BY <1>1 DEF Alike
  <1>2. CASE T # {}
    <2>1. PICK k \in T : \A j \in T : k <= j
      <3>1. T \in SUBSET Nat
        OBVIOUS
      <3> HIDE DEF T
      <3> QED BY <1>2, <3>1, Smallest
    <2>2. k \in 0..n /\ k \in Nat /\ k # 0
      BY DEF Alike
    <2>3. k - 1 \in 0..n /\ k \in 1..n /\ ~(k <= k - 1)
      BY <2>2
    <2>4. k - 1 \notin T
      BY <2>1, <2>3
    <2> QED BY <2>2, <2>3, <2>4 DEF Alike
  <1> QED BY <1>1, <1>2

(* Powers of ten.                                                           *)
LEMMA TensFacts ==
  ASSUME NEW n \in Nat
  PROVE  /\ Tens(n) \in [0..n -> Nat] /\ Tens(n)[0] = 1
         /\ \A k \in 1..n : Tens(n)[k] = 10 * Tens(n)[k - 1]
  <1> DEFINE F(f) == [k \in 0..n |-> IF k = 0 THEN 1 ELSE 10 * f[k - 1]]
             e == [k \in 1..n |-> 0]
  <1>a. PICK f : Linear(f, n, 1, 10, e)
    <2>1. e \in [1..n -> Nat] /\ 1 \in Nat /\ 10 \in Nat
      OBVIOUS
    <2> HIDE DEF e
    <2> QED BY <2>1, LinearRecursion
  <1>1. f \in [0..n -> Nat] /\ f[0] = 1 /\ \A k \in 1..n : f[k] = 10 * f[k - 1] + e[k]
    BY <1>a DEF Linear
  <1>2. \A k \in 1..n : f[k] = 10 * f[k - 1]
    <2> TAKE k \in 1..n
    <2>1. k - 1 \in 0..n
      OBVIOUS
    <2>2. f[k - 1] \in Nat /\ e[k] = 0
      BY <2>1, <1>1
    <2> QED BY <1>1, <2>2
  <1>3. f = F(f)
    <2>1. \A k \in 0..n : k = 0 \/ k \in 1..n
      OBVIOUS
    <2> QED BY <1>1, <1>2, <2>1
  <1>4. Tens(n) = CHOOSE g : g = F(g)
    BY DEF Tens
  <1>5. PICK g : g = Tens(n)
    OBVIOUS
  <1>6. g = F(g)
    BY <1>3, <1>4, <1>5
  <1>7. 0 \in 0..n /\ \A k \in 1..n : k \in 0..n /\ k # 0
    OBVIOUS
  <1>8. g[0] = 1 /\ \A k \in 1..n : g[k] = 10 * g[k - 1]
    BY <1>6, <1>7
  <1>9. f = g
    <2>1. g = [k \in 0..n |-> g[k]]
      BY <1>6
    <2>2. f[0] = g[0] /\ \A k \in 1..n : f[k - 1] = g[k - 1] => f[k] = g[k]
      BY <1>1, <1>2, <1>8
    <2>3. Alike(f, g, n)
      BY <1>1, <2>1, <2>2 DEF Alike
    <2> QED BY <2>3, SameFunction
  <1> QED BY <1>1, <1>2, <1>5, <1>9

-----------------------------------------------------------------------------
(* What a literal is worth *)

(* The ten digits have the values of a digit.                               *)
LEMMA DigitValues ==
  ASSUME NEW c \in DOMAIN Digits
  PROVE  Digits[c] \in Nat
  <1>1. c \in Range(Numerals)
    BY DEF Digits
  <1>2. PICK i \in 1..10 : Numerals[i] = c
    BY <1>1 DEF Range, Numerals
  <1>3. i - 1 \in 0..9 /\ Numerals[(i - 1) + 1] = c
    BY <1>2
  <1>4. Digits[c] = CHOOSE d \in 0..9 : Numerals[d + 1] = c
    BY <1>1 DEF Digits
  <1>5. Digits[c] \in 0..9
    BY <1>3, <1>4
  <1> QED BY <1>5

(* What stoll returns is the sum of what the digits stand for.              *)
LEMMA StollFacts ==
  ASSUME NEW s \in Seq(STRING), \A k \in 1..Len(s) : s[k] \in DOMAIN Digits
  PROVE  Stoll(s) = NumberOf(s) /\ Stoll(s) \in Nat
  <1> DEFINE n == Len(s)
             t == Tens(n)
             d == [k \in 1..n |-> Digits[s[k]]]
             e == [k \in 1..n |-> Digits[s[k]] * t[n - k]]
             V(g) == [k \in 0..n |-> IF k = 0 THEN 0 ELSE 10 * g[k - 1] + Digits[s[k]]]
             S(g) == [k \in 0..n |-> IF k = 0 THEN 0 ELSE g[k - 1] + Digits[s[k]] * t[n - k]]
  <1>1. n \in Nat
    OBVIOUS
  <1>2. \A k \in 1..n : Digits[s[k]] \in Nat
    BY DigitValues
  <1>3. /\ t \in [0..n -> Nat] /\ t[0] = 1
        /\ \A k \in 1..n : t[k] = 10 * t[k - 1]
    BY <1>1, TensFacts
  <1> HIDE DEF t
  <1>4. d \in [1..n -> Nat] /\ \A k \in 1..n : d[k] = Digits[s[k]]
    BY <1>2
  <1>5. ASSUME NEW k \in 1..n PROVE n - k \in 0..n /\ t[n - k] \in Nat /\ e[k] = d[k] * t[n - k]
    <2>1. n - k \in 0..n
      BY <1>1
    <2> QED BY <2>1, <1>3
  <1>6. e \in [1..n -> Nat]
    <2>1. \A x, y \in Nat : x * y \in Nat
      OBVIOUS
    <2>2. ASSUME NEW k \in 1..n PROVE Digits[s[k]] * t[n - k] \in Nat
      BY <2>1, <1>2, <1>5
    <2> QED BY <2>2
  <1> HIDE DEF n, d
  <1>7. PICK v : Linear(v, n, 0, 10, d)
    BY <1>1, <1>4, LinearRecursion
  <1>8. PICK u : Linear(u, n, 0, 1, e)
    <2> HIDE DEF e
    <2> QED BY <1>1, <1>6, LinearRecursion
  <1>9. /\ v \in [0..n -> Nat] /\ v[0] = 0
        /\ \A k \in 1..n : v[k] = 10 * v[k - 1] + d[k]
    BY <1>7 DEF Linear
  <1>10. /\ u \in [0..n -> Nat] /\ u[0] = 0
         /\ \A k \in 1..n : u[k] = u[k - 1] + d[k] * t[n - k]
    <2>1. /\ u \in [0..n -> Nat] /\ u[0] = 0
          /\ \A k \in 1..n : u[k] = 1 * u[k - 1] + e[k]
      BY <1>8 DEF Linear
    <2>2. ASSUME NEW k \in 1..n PROVE u[k] = u[k - 1] + d[k] * t[n - k]
      <3>1. k - 1 \in 0..n
        BY <1>1
      <3>2. u[k - 1] \in Nat /\ e[k] = d[k] * t[n - k]
        BY <2>1, <3>1, <1>5
      <3> QED BY <2>1, <3>2
    <2> QED BY <2>1, <2>2
  <1>11. 0 \in 0..n /\ n \in 0..n /\ \A k \in 1..n : k \in 0..n /\ k # 0 /\ k - 1 \in 0..n
    BY <1>1
  <1>12. \A k \in 0..n : k = 0 \/ k \in 1..n
    BY <1>1
  \* the number, digit by digit
  <1>13. Stoll(s) = v[n]
    <2>1. v = V(v)
      BY <1>4, <1>9, <1>12
    <2>2. PICK g : g = CHOOSE h : h = V(h)
      OBVIOUS
    <2>3. g = V(g)
      BY <2>1, <2>2
    <2>4. g[0] = 0 /\ \A k \in 1..n : g[k] = 10 * g[k - 1] + d[k]
      BY <2>3, <1>4, <1>11
    <2>5. Alike(v, g, n)
      <3>1. g = [k \in 0..n |-> g[k]]
        BY <2>3
      <3> QED BY <3>1, <2>4, <1>9 DEF Alike
    <2>6. v = g
      BY <2>5, <1>1, SameFunction
    <2>7. Stoll(s) = g[n]
      BY <2>2 DEF Stoll, n
    <2> QED BY <2>6, <2>7
  \* the sum
  <1>14. NumberOf(s) = u[n]
    <2>1. u = S(u)
      BY <1>4, <1>10, <1>12
    <2>2. PICK g : g = CHOOSE h : h = S(h)
      OBVIOUS
    <2>3. g = S(g)
      BY <2>1, <2>2
    <2>4. g[0] = 0 /\ \A k \in 1..n : g[k] = g[k - 1] + d[k] * t[n - k]
      BY <2>3, <1>4, <1>11
    <2>5. Alike(u, g, n)
      <3>1. g = [k \in 0..n |-> g[k]]
        BY <2>3
      <3> QED BY <3>1, <2>4, <1>10 DEF Alike
    <2>6. u = g
      BY <2>5, <1>1, SameFunction
    <2>7. NumberOf(s) = g[n]
      BY <2>2 DEF NumberOf, n, t
    <2> QED BY <2>6, <2>7
  \* after k digits the sum is the number with n - k zeros behind it
  <1> DEFINE w == [k \in 0..n |-> v[k] * t[n - k]]
  <1>15. w = u
    <2>1. w = [k \in 0..n |-> w[k]] /\ u = [k \in 0..n |-> u[k]]
      BY <1>10
    <2>2. \A k \in 0..n : w[k] = v[k] * t[n - k]
      OBVIOUS
    <2> HIDE DEF w
    <2>3. w[0] = u[0]
      <3>1. n - 0 \in 0..n /\ t[n - 0] \in Nat
        BY <1>1, <1>3
      <3> QED BY <3>1, <2>2, <1>9, <1>10, <1>11
    <2>4. ASSUME NEW k \in 1..n, w[k - 1] = u[k - 1] PROVE w[k] = u[k]
      <3>1. n - (k - 1) \in 1..n /\ n - (k - 1) - 1 = n - k
        BY <1>1
      <3>2. t[n - (k - 1)] = 10 * t[n - k]
        BY <3>1, <1>3
      <3>3. v[k - 1] \in Nat /\ d[k] \in Nat /\ t[n - k] \in Nat /\ k - 1 \in 0..n /\ k \in 0..n
        BY <1>4, <1>5, <1>9, <1>11
      <3>4. \A x, y, z \in Nat : (10 * x + y) * z = x * (10 * z) + y * z
        OBVIOUS
      <3>5. w[k] = (10 * v[k - 1] + d[k]) * t[n - k]
        BY <2>2, <3>3, <1>9
      <3>6. w[k - 1] = v[k - 1] * (10 * t[n - k])
        BY <2>2, <3>2, <3>3
      <3>7. w[k] = w[k - 1] + d[k] * t[n - k]
        BY <3>3, <3>4, <3>5, <3>6
      <3> QED BY <3>7, <2>4, <1>10
    <2>5. Alike(w, u, n)
      BY <2>1, <2>3, <2>4 DEF Alike
    <2> QED BY <2>5, <1>1, SameFunction
  <1>16. v[n] \in Nat
    BY <1>9, <1>11
  <1>17. w[n] = v[n]
    <2>1. n - n = 0
      BY <1>1
    <2> QED BY <2>1, <1>3, <1>11, <1>16
  <1> HIDE DEF w
  <1> QED BY <1>13, <1>14, <1>15, <1>16, <1>17

-----------------------------------------------------------------------------
(* Lines and columns *)

Newlines(a) == {k \in 1..a : src[k] = "\n"}

(* The new lines up to an offset, and the last of them.                     *)
LEMMA NewlineFacts ==
  ASSUME NEW a \in Nat
  PROVE  /\ IsFiniteSet(Newlines(a)) /\ Cardinality(Newlines(a)) \in 0..a
         /\ Max(Newlines(a) \cup {0}) \in 0..a
         /\ \A y \in Newlines(a) : Max(Newlines(a) \cup {0}) >= y
         /\ Max(Newlines(a) \cup {0}) \in Newlines(a) \cup {0}
  <1>1. IsFiniteSet(1..a) /\ Cardinality(1..a) = a
    <2>1. a >= 1 => a - 1 + 1 = a
      OBVIOUS
    <2> QED BY <2>1, FS_Interval
  <1>2. Newlines(a) \subseteq 1..a
    BY DEF Newlines
  <1>3. IsFiniteSet(Newlines(a)) /\ Cardinality(Newlines(a)) <= a
    BY <1>1, <1>2, FS_Subset
  <1>4. Cardinality(Newlines(a)) \in Nat
    BY <1>3, FS_CardinalityType
  <1>5. (Newlines(a) \cup {0}) \subseteq 0..a /\ Newlines(a) \cup {0} # {}
    BY <1>2
  <1>6. PICK T : T = Newlines(a) \cup {0}
    OBVIOUS
  <1>7. Max(T) \in T /\ \A y \in T : Max(T) >= y
    BY <1>5, <1>6, MaxFacts
  <1> QED BY <1>3, <1>4, <1>5, <1>6, <1>7

(* advance() counts lines and columns.                                      *)
LEMMA WhereNext ==
  ASSUME NEW a \in Nat
  PROVE  Where(a + 1) = Step(Where(a), src[a + 1])
  <1> DEFINE N == Newlines(a)
             M == Newlines(a + 1)
             n == Max(N \cup {0})
             m == Max(M \cup {0})
  <1>1. /\ IsFiniteSet(N) /\ Cardinality(N) \in 0..a /\ n \in 0..a
        /\ (\A y \in N : n >= y) /\ n \in N \cup {0}
    BY NewlineFacts
  <1>2. /\ m \in 0..(a + 1) /\ (\A y \in M : m >= y) /\ m \in M \cup {0}
    <2>1. a + 1 \in Nat
      OBVIOUS
    <2> QED BY <2>1, NewlineFacts
  <1>3. /\ Where(a) = [line |-> Cardinality(N) + 1, col |-> a + 1 - n]
        /\ Where(a + 1) = [line |-> Cardinality(M) + 1, col |-> a + 1 + 1 - m]
    BY DEF Where, Newlines
  <1>4. 1..(a + 1) = 1..a \cup {a + 1} /\ a + 1 \notin 1..a
    OBVIOUS
  <1>5. CASE src[a + 1] = "\n"
    <2>1. M = N \cup {a + 1} /\ a + 1 \notin N
      BY <1>4, <1>5 DEF Newlines
    <2>2. Cardinality(M) = Cardinality(N) + 1
      BY <1>1, <2>1, FS_AddElement
    <2>3. m >= a + 1
      BY <1>2, <2>1
    <2>4. m = a + 1
      BY <1>2, <2>3
    <2> HIDE DEF M, N, m, n
    <2>5. a + 1 + 1 - m = 1 /\ Cardinality(M) + 1 = Cardinality(N) + 1 + 1
      BY <2>2, <2>4, <1>1
    <2> QED BY <1>3, <2>5, <1>5 DEF Step
  <1>6. CASE src[a + 1] # "\n"
    <2>1. M = N
      BY <1>4, <1>6 DEF Newlines
    <2>2. m = n
      BY <2>1
    <2> HIDE DEF M, N, m, n
    <2>3. a + 1 + 1 - m = (a + 1 - n) + 1
      BY <2>2, <1>1
    <2> QED BY <1>3, <2>1, <2>3, <1>6 DEF Step
  <1> QED BY <1>5, <1>6

(* A position is one of the file.                                           *)
LEMMA WhereType ==
  ASSUME NEW a \in Nat
  PROVE  Where(a) \in [line : 1..(a + 1), col : 1..(a + 1)]
  <1>1. PICK n : n = Max(Newlines(a) \cup {0})
    OBVIOUS
  <1>2. PICK c : c = Cardinality(Newlines(a))
    OBVIOUS
  <1>3. n \in 0..a /\ c \in 0..a
    BY <1>1, <1>2, NewlineFacts
  <1>4. c + 1 \in 1..(a + 1) /\ a + 1 - n \in 1..(a + 1)
    BY <1>3
  <1>5. Where(a) = [line |-> c + 1, col |-> a + 1 - n]
    BY <1>1, <1>2 DEF Where, Newlines
  <1> QED BY <1>4, <1>5

(* No two offsets have the same position.                                   *)
LEMMA WhereOnce ==
  ASSUME NEW a \in Nat, NEW b \in Nat, Where(a) = Where(b)
  PROVE  a = b
  <1>1. ASSUME NEW x \in Nat, NEW y \in Nat, x < y, Where(x) = Where(y)
        PROVE  FALSE
    <2> DEFINE N == Newlines(x)
               M == Newlines(y)
               n == Max(N \cup {0})
               m == Max(M \cup {0})
    <2>1. IsFiniteSet(N) /\ Cardinality(N) \in 0..x /\ n \in 0..x
      BY NewlineFacts
    <2>2. IsFiniteSet(M) /\ Cardinality(M) \in 0..y /\ m \in 0..y
      BY NewlineFacts
    <2>3. /\ Where(x) = [line |-> Cardinality(N) + 1, col |-> x + 1 - n]
          /\ Where(y) = [line |-> Cardinality(M) + 1, col |-> y + 1 - m]
      BY DEF Where, Newlines
    <2>4. N \subseteq M
      BY <1>1 DEF Newlines
    <2>5. Cardinality(N) + 1 = Cardinality(M) + 1 /\ x + 1 - n = y + 1 - m
      <3>1. PICK c, d, e, f : c = Cardinality(N) + 1 /\ d = Cardinality(M) + 1
                              /\ e = x + 1 - n /\ f = y + 1 - m
        OBVIOUS
      <3>2. [line |-> c, col |-> e] = [line |-> d, col |-> f]
        BY <1>1, <2>3, <3>1
      <3>3. c = d /\ e = f
        BY <3>2
      <3> QED BY <3>1, <3>3
    <2>6. Cardinality(N) = Cardinality(M)
      BY <2>1, <2>2, <2>5
    <2>7. N = M
      BY <2>2, <2>4, <2>6, FS_Subset
    <2>8. n = m
      BY <2>7
    <2> HIDE DEF N, M, n, m
    <2> QED BY <1>1, <2>1, <2>2, <2>5, <2>8
  <1> QED BY <1>1

-----------------------------------------------------------------------------
(* What the tokens cover *)

(* Nothing is skipped at first, and then one gap more behind others,        *)
LEMMA SkippedNone ==
  ASSUME NEW a \in Nat
  PROVE  Skipped(a, a)
  <1>1. {} \in SUBSET ((a + 1)..(a - 1)) /\ ({} \cup {a}) \ {a} = {}
    OBVIOUS
  <1> QED BY <1>1 DEF Skipped

(* ... as the last of several gaps.                                         *)
LEMMA SkippedMore ==
  ASSUME NEW a \in Nat, NEW b \in Nat, NEW c \in Nat, a <= b, b < c,
         Skipped(a, b), IsGap(b, c)
  PROVE  Skipped(a, c)
  <1>1. PICK cuts \in SUBSET ((a + 1)..(b - 1)) :
               \A x \in (cuts \cup {a}) \ {b} : IsGap(x, Min({d \in cuts \cup {b} : d > x}))
    BY DEF Skipped
  <1> DEFINE more == (cuts \cup {b}) \ {a}
  <1>2. more \in SUBSET ((a + 1)..(c - 1)) /\ cuts \subseteq Nat
    <2>1. \A x \in (a + 1)..(b - 1) : x \in (a + 1)..(c - 1) /\ x \in Nat
      OBVIOUS
    <2>2. b # a => b \in (a + 1)..(c - 1)
      OBVIOUS
    <2> QED BY <2>1, <2>2
  <1>3. ASSUME NEW x \in (more \cup {a}) \ {c}
        PROVE  IsGap(x, Min({d \in more \cup {c} : d > x}))
    <2>1. x \in Nat /\ a <= x /\ x <= b /\ x \in cuts \cup {a, b}
      BY <1>2
    <2>2. CASE x = b
      <3>1. \A d \in more \cup {c} : d > x <=> d = c
        BY <2>2, <1>2
      <3>2. PICK T : T = {d \in more \cup {c} : d > x}
        OBVIOUS
      <3>3. T = {c}
        BY <3>1, <3>2, <2>2
      <3>4. Min(T) = c
        <4>1. T \in SUBSET Nat /\ T # {}
          BY <3>3
        <4>2. Min(T) \in T
          BY <4>1, MinFacts
        <4> QED BY <3>3, <4>2
      <3> QED BY <2>2, <3>2, <3>4
    <2>3. CASE x # b
      <3>1. x < b /\ x \in (cuts \cup {a}) \ {b}
        BY <2>1, <2>3
      <3>2. PICK S : S = {d \in cuts \cup {b} : d > x}
        OBVIOUS
      <3>3. PICK T : T = {d \in more \cup {c} : d > x}
        OBVIOUS
      <3>4. T = S \cup {c}
        BY <3>1, <3>2, <3>3, <2>1, <1>2
      <3>5. b \in S /\ S \in SUBSET Nat /\ T \in SUBSET Nat /\ T # {}
        BY <3>1, <3>2, <3>4, <1>2
      <3>6. Min(S) \in S /\ Min(T) \in T /\ (\A y \in S : Min(S) <= y) /\ (\A y \in T : Min(T) <= y)
        BY <3>5, MinFacts
      <3>7. Min(S) = Min(T)
        <4>1. PICK p, q : p = Min(S) /\ q = Min(T)
          OBVIOUS
        <4>2. p \in Nat /\ q \in Nat /\ p <= b /\ p \in T /\ q <= p /\ q \in S \cup {c}
          BY <4>1, <3>4, <3>5, <3>6
        <4>3. q # c /\ q \in S /\ p <= q
          BY <4>1, <4>2, <3>6
        <4> QED BY <4>1, <4>2, <4>3
      <3> QED BY <3>1, <3>2, <3>3, <3>7, <1>1
    <2> QED BY <2>2, <2>3
  <1> HIDE DEF more
  <1> QED BY <1>2, <1>3 DEF Skipped

(* A token tells the slice it comes from.                                   *)
LEMMA TokenSlice ==
  ASSUME src \in Seq(STRING), NEW t, NEW a \in Offsets, NEW b \in Offsets, Denotes(t, a, b),
         t.kind \in Kinds
  PROVE  StartOf(t) = a /\ Ends(t) = {b} /\ Min(Ends(t)) = b
  <1>1. Len(src) \in Nat /\ a \in Nat /\ b \in Nat /\ a <= Len(src)
    BY DEF Offsets
  <1>2. t.loc = Where(a)
    BY DEF Denotes
  <1>3. PICK T : T = {x \in Offsets : Where(x) = t.loc} \cup {Len(src)}
    OBVIOUS
  <1>4. \A x \in Offsets : Where(x) = t.loc => x = a
    BY <1>1, <1>2, WhereOnce DEF Offsets
  <1>5. T = {a, Len(src)}
    BY <1>2, <1>3, <1>4
  <1>6. Min(T) \in T /\ \A y \in T : Min(T) <= y
    BY <1>1, <1>5, MinFacts
  <1>7. StartOf(t) = a
    <2>1. PICK z : z = Min(T)
      OBVIOUS
    <2>2. z \in {a, Len(src)} /\ z <= a
      BY <2>1, <1>5, <1>6
    <2>3. z = a
      BY <2>2, <1>1
    <2> QED BY <2>1, <2>3, <1>3 DEF StartOf
  <1>8. ASSUME NEW x \in Offsets, Denotes(t, a, x)
        PROVE  x = b
    <2>1. x \in Nat
      BY DEF Offsets
    <2>2. Longest(a, x) /\ Longest(a, b) /\ Lexeme(t.kind, a, x) /\ Lexeme(t.kind, a, b)
      BY <1>8 DEF Denotes
    <2>3. x \notin (b + 1)..Len(src) /\ b \notin (x + 1)..Len(src)
      BY <2>2 DEF Longest
    <2> QED BY <2>1, <2>3, <1>1 DEF Offsets
  <1>9. Ends(t) = {b}
    BY <1>7, <1>8 DEF Ends
  <1>10. Min({b}) \in {b}
    BY <1>1, MinFacts
  <1> QED BY <1>7, <1>9, <1>10

\* where token i ends, or the text begins
EndOf(ts, i) == IF i = 0 THEN 0 ELSE Min(Ends(ts[i]))

(* What it means to cover a text.                                           *)
LEMMA CoversMeans ==
  ASSUME NEW ts, NEW a
  PROVE  Covers(ts, a) <=>
           /\ \A i \in 1..Len(ts) : Ends(ts[i]) # {}
           /\ \A i \in 1..Len(ts) : Skipped(EndOf(ts, i - 1), StartOf(ts[i]))
           /\ EndOf(ts, Len(ts)) <= a /\ Skipped(EndOf(ts, Len(ts)), a)
  BY DEF Covers, EndOf

(* At first there is nothing to cover.                                      *)
LEMMA CoversNothing ==
  Covers(<<>>, 0)
  <1>1. Len(<<>>) = 0 /\ EndOf(<<>>, 0) = 0
    BY DEF EndOf
  <1> QED BY <1>1, SkippedNone, CoversMeans

(* The tokens cover a gap behind them as well ...                           *)
LEMMA CoversGap ==
  ASSUME src \in Seq(STRING), NEW T, NEW ts \in Seq(T), NEW a \in Offsets, NEW b \in Offsets, a < b,
         Covers(ts, a), IsGap(a, b)
  PROVE  Covers(ts, b)
  <1>1. Len(ts) \in Nat /\ Len(src) \in Nat /\ a \in Nat /\ b \in Nat
    BY DEF Offsets
  <1>2. EndOf(ts, Len(ts)) \in Nat
    <2>1. CASE Len(ts) = 0
      BY <2>1 DEF EndOf
    <2>2. CASE Len(ts) # 0
      <3>1. Ends(ts[Len(ts)]) # {}
        BY <2>2, <1>1, CoversMeans
      <3>2. Ends(ts[Len(ts)]) \in SUBSET Nat
        BY DEF Ends, Offsets
      <3>3. Min(Ends(ts[Len(ts)])) \in Nat
        BY <3>1, <3>2, MinFacts
      <3> QED BY <2>2, <3>3 DEF EndOf
    <2> QED BY <2>1, <2>2
  <1>3. EndOf(ts, Len(ts)) <= a /\ Skipped(EndOf(ts, Len(ts)), a)
    BY CoversMeans
  <1>4. EndOf(ts, Len(ts)) <= b /\ Skipped(EndOf(ts, Len(ts)), b)
    BY <1>1, <1>2, <1>3, SkippedMore
  <1> QED BY <1>4, CoversMeans

(* ... and one more token covers its slice.                                 *)
LEMMA CoversToken ==
  ASSUME src \in Seq(STRING), NEW T, NEW ts \in Seq(T), NEW t \in T,
         NEW a \in Offsets, NEW b \in Offsets, Covers(ts, a), Denotes(t, a, b), t.kind \in Kinds
  PROVE  Covers(Append(ts, t), b)
  <1> DEFINE us == Append(ts, t)
             n == Len(ts)
  <1>1. /\ n \in Nat /\ Len(us) = n + 1 /\ us[n + 1] = t
        /\ \A i \in 1..n : us[i] = ts[i]
    OBVIOUS
  <1>2. StartOf(t) = a /\ Ends(t) = {b} /\ Min(Ends(t)) = b
    BY TokenSlice
  <1> HIDE DEF us, n
  <1>3. \A i \in 1..(n + 1) : i \in 1..n \/ i = n + 1
    BY <1>1
  <1>4. \A i \in 0..n : EndOf(us, i) = EndOf(ts, i)
    <2>1. \A i \in 0..n : i = 0 \/ i \in 1..n
      BY <1>1
    <2> QED BY <2>1, <1>1 DEF EndOf
  <1>5. EndOf(us, n + 1) = b
    BY <1>1, <1>2 DEF EndOf
  <1>6. ASSUME NEW i \in 1..(n + 1)
        PROVE  Ends(us[i]) # {} /\ Skipped(EndOf(us, i - 1), StartOf(us[i]))
    <2>1. CASE i \in 1..n
      <3>1. i - 1 \in 0..n
        BY <2>1, <1>1
      <3>2. Ends(ts[i]) # {} /\ Skipped(EndOf(ts, i - 1), StartOf(ts[i]))
        BY <2>1, CoversMeans DEF n
      <3> QED BY <2>1, <3>1, <3>2, <1>1, <1>4
    <2>2. CASE i = n + 1
      <3>1. i - 1 = n /\ n \in 0..n
        BY <2>2, <1>1
      <3>2. Skipped(EndOf(ts, n), a)
        BY CoversMeans DEF n
      <3> QED BY <2>2, <3>1, <3>2, <1>1, <1>2, <1>4
    <2> QED BY <2>1, <2>2, <1>3
  <1>7. b \in Nat
    BY DEF Offsets
  <1>8. b <= b /\ Skipped(b, b)
    BY <1>7, SkippedNone
  <1>9. Covers(us, b)
    BY <1>1, <1>5, <1>6, <1>8, CoversMeans
  <1> QED BY <1>9 DEF us

-----------------------------------------------------------------------------
(* Characters and slices *)

(* The digits.                                                              *)
LEMMA Numbers == DOMAIN Digits = {"0", "1", "2", "3", "4", "5", "6", "7", "8", "9"}
  <1>1. Range(Numerals) = {Numerals[i] : i \in 1..10}
    BY DEF Range, Numerals
  <1>2. ASSUME NEW i \in 1..10 PROVE Numerals[i] \in {"0", "1", "2", "3", "4", "5", "6", "7", "8", "9"}
    BY DEF Numerals
  <1>3. \A c \in {"0", "1", "2", "3", "4", "5", "6", "7", "8", "9"} : \E i \in 1..10 : c = Numerals[i]
    <2>1. /\ Numerals[1] = "0" /\ Numerals[2] = "1" /\ Numerals[3] = "2" /\ Numerals[4] = "3"
          /\ Numerals[5] = "4" /\ Numerals[6] = "5" /\ Numerals[7] = "6" /\ Numerals[8] = "7"
          /\ Numerals[9] = "8" /\ Numerals[10] = "9"
      BY DEF Numerals
    <2> QED BY <2>1
  <1> QED BY <1>1, <1>2, <1>3 DEF Digits

(* The characters the lexer tells apart.                                    *)
LEMMA Classes ==
  /\ \A c \in Alpha : c \notin DOMAIN Digits
  /\ \A c : Alnum(c) => c \notin {Quote, "/", "*", "\\", "\n"} /\ c \notin Blanks
  /\ \A c \in DOMAIN Pairs : ~Alnum(c) /\ c \notin {Quote, "/"} /\ c \notin Blanks
  /\ \A c \in Single : ~Alnum(c) /\ c # Quote /\ c \notin Blanks
  /\ Quote \notin Blanks \cup {"/", "*", "\n", "\\"} /\ Quote \in DOMAIN Escapes
  /\ "/" \notin Blanks /\ "\n" \in Blanks
  <1>1. PICK D : D = {"0", "1", "2", "3", "4", "5", "6", "7", "8", "9"}
    OBVIOUS
  <1>2. \A c \in D : c \notin Alpha
    BY <1>1, ZenonT(60) DEF Alpha
  <1>3. \A c \in Blanks : c \notin Alpha /\ c \notin D
    BY <1>1, ZenonT(60) DEF Alpha, Blanks
  <1>4. PICK O : O = {"/", "*", "\\", "\n", "=", "!", "<", ">", "-"}
    OBVIOUS
  <1>5. \A c \in O \cup {Quote} : c \notin Alpha /\ c \notin D
    BY <1>1, <1>4, ZenonT(60) DEF Alpha, Quote
  <1>6. \A c \in Single : c \notin Alpha /\ c \notin D
    <2>1. \A c \in Single : c \notin Alpha
      BY ZenonT(90) DEF Alpha, Single
    <2>2. \A c \in Single : c \notin D
      BY <1>1, ZenonT(60) DEF Single
    <2> QED BY <2>1, <2>2
  <1>7. \A c \in Single : c \notin Blanks /\ c # Quote
    BY ZenonT(60) DEF Single, Blanks, Quote
  <1>8. Quote \notin {"/", "*", "\n", "\\"} /\ Quote \notin Blanks /\ "\n" \in Blanks
    BY Zenon DEF Quote, Blanks
  <1>9. \A c \in {"=", "!", "<", ">", "-", "/"} : c \notin Blanks /\ c # Quote
    BY Zenon DEF Blanks, Quote
  <1>10. DOMAIN Pairs = {"=", "!", "<", ">", "-"} /\ "/" \notin DOMAIN Pairs
    BY DEF Pairs
  <1>11. DOMAIN Escapes = {"n", "t", Quote, "\\"}
    BY DEF Escapes
  <1>12. DOMAIN Digits = D
    BY <1>1, Numbers
  <1>13. \A c : Alnum(c) <=> c \in Alpha \/ c \in D
    BY <1>12 DEF Alnum
  <1>14. \A c : Alnum(c) => c \notin {Quote, "/", "*", "\\", "\n"} /\ c \notin Blanks
    BY <1>3, <1>4, <1>5, <1>13
  <1>15. \A c \in DOMAIN Pairs : ~Alnum(c) /\ c \notin {Quote, "/"} /\ c \notin Blanks
    BY <1>4, <1>5, <1>9, <1>10, <1>13
  <1> QED BY <1>2, <1>6, <1>7, <1>8, <1>9, <1>11, <1>12, <1>13, <1>14, <1>15

(* A slice and its characters.                                              *)
LEMMA SliceFacts ==
  ASSUME src \in Seq(STRING), NEW a \in Offsets, NEW b \in Offsets, a <= b
  PROVE  /\ a \in Nat /\ b \in Nat /\ b <= Len(src) /\ b - a \in Nat
         /\ Slice(a, b) \in Seq(STRING) /\ Len(Slice(a, b)) = b - a
         /\ \A k \in 1..(b - a) : Slice(a, b)[k] = src[a + k] /\ CharAt(a + k - 1) = src[a + k]
  <1>1. Len(src) \in Nat /\ a \in Nat /\ b \in Nat /\ b <= Len(src)
    BY DEF Offsets
  <1>2. \A i \in (a + 1)..b : src[i] \in STRING
    BY <1>1
  <1>3. SubSeq(src, a + 1, b) \in Seq(STRING)
    BY <1>1, <1>2
  <1>4. Len(SubSeq(src, a + 1, b)) = b - a
    BY <1>1
  <1>5. ASSUME NEW k \in 1..(b - a)
        PROVE  SubSeq(src, a + 1, b)[k] = src[a + k] /\ CharAt(a + k - 1) = src[a + k]
    <2>1. a + k - 1 < Len(src) /\ a + k - 1 + 1 = a + k /\ a + 1 + k - 1 = a + k
      BY <1>1
    <2>2. SubSeq(src, a + 1, b)[k] = src[a + 1 + k - 1]
      BY <1>1
    <2>3. CharAt(a + k - 1) = src[a + k - 1 + 1]
      BY <2>1 DEF CharAt
    <2> QED BY <2>1, <2>2, <2>3
  <1>6. PICK s : s = SubSeq(src, a + 1, b)
    OBVIOUS
  <1>7. s = Slice(a, b) /\ s \in Seq(STRING) /\ Len(s) = b - a
    BY <1>3, <1>4, <1>6 DEF Slice
  <1>8. \A k \in 1..(b - a) : s[k] = src[a + k] /\ CharAt(a + k - 1) = src[a + k]
    BY <1>5, <1>6
  <1>9. b - a \in Nat
    BY <1>1
  <1> QED BY <1>1, <1>7, <1>8, <1>9

(* A slice without its last character.                                      *)
LEMMA FrontOfSlice ==
  ASSUME src \in Seq(STRING), NEW a \in Offsets, NEW b \in Offsets, a < b
  PROVE  Front(Slice(a, b)) = Slice(a, b - 1) /\ Last(Slice(a, b)) = src[b] /\ b - 1 \in Offsets
  <1>1. /\ Len(src) \in Nat /\ a \in Nat /\ b \in Nat /\ b <= Len(src) /\ b - a \in 1..(b - a)
        /\ b - 1 \in Offsets /\ a <= b - 1 /\ a <= b /\ a + (b - a) = b
    BY DEF Offsets
  <1>2. PICK s : s = Slice(a, b)
    OBVIOUS
  <1>3. /\ s \in Seq(STRING) /\ Len(s) = b - a /\ \A k \in 1..(b - a) : s[k] = src[a + k]
    BY <1>1, <1>2, SliceFacts
  <1>4. Last(s) = src[b]
    BY <1>1, <1>3 DEF Last
  <1>5. PICK t : t = Slice(a, b - 1)
    OBVIOUS
  <1>6. t \in Seq(STRING) /\ Len(t) = b - 1 - a /\ \A k \in 1..(b - 1 - a) : t[k] = src[a + k]
    BY <1>1, <1>5, SliceFacts
  <1>7. PICK f : f = Front(s)
    OBVIOUS
  <1>8. f \in Seq(STRING) /\ Len(f) = b - a - 1 /\ \A k \in 1..(b - a - 1) : f[k] = s[k]
    BY <1>1, <1>3, <1>7 DEF Front
  <1>9. f = t
    <2>1. \A k \in 1..Len(f) : f[k] = t[k]
      BY <1>1, <1>3, <1>6, <1>8
    <2>2. Len(f) = Len(t)
      BY <1>1, <1>6, <1>8
    <2> QED BY <2>1, <2>2, <1>6, <1>8, SeqEqual
  <1> QED BY <1>1, <1>2, <1>4, <1>5, <1>7, <1>9

(* The words the lexer knows are words.                                     *)
LEMMA KnownWords ==
  /\ \A s \in ReturnWords : IsWord(s) /\ Len(s) \in {1, 6}
  /\ \A s \in Keywords : IsWord(s)
  /\ ReturnWords \cap Keywords = {}
  <1>1. /\ "r" \in Alpha /\ "e" \in Alpha /\ "t" \in Alpha /\ "u" \in Alpha /\ "n" \in Alpha
        /\ "f" \in Alpha /\ "l" \in Alpha /\ "v" \in Alpha /\ "a" \in Alpha /\ "i" \in Alpha
        /\ "o" \in Alpha /\ "d" \in Alpha /\ "s" \in Alpha /\ "c" \in Alpha /\ "p" \in Alpha
    BY ZenonT(60) DEF Alpha
  <1>2. \A s \in ReturnWords : IsWord(s) /\ Len(s) \in {1, 6}
    <2>1. IsWord(<<"r">>) /\ Len(<<"r">>) = 1
      BY <1>1 DEF IsWord, Alnum
    <2>2. IsWord(<<"r", "e", "t", "u", "r", "n">>)
      <3>1. PICK w : w = <<"r", "e", "t", "u", "r", "n">>
        OBVIOUS
      <3>2. w # <<>> /\ Len(w) = 6 /\ w[1] = "r" /\ w[2] = "e" /\ w[3] = "t" /\ w[4] = "u" /\ w[5] = "r" /\ w[6] = "n"
        BY <3>1
      <3>3. \A k \in 1..6 : w[k] \in Alpha
        BY <3>2, <1>1
      <3> QED BY <3>1, <3>2, <3>3 DEF IsWord, Alnum
    <2>3. Len(<<"r", "e", "t", "u", "r", "n">>) = 6
      OBVIOUS
    <2> QED BY <2>1, <2>2, <2>3 DEF ReturnWords
  <1>3. \A s \in Keywords : IsWord(s)
    <2>1. IsWord(<<"f", "n">>)
      BY <1>1 DEF IsWord, Alnum
    <2>2. IsWord(<<"l", "e", "t">>)
      BY <1>1 DEF IsWord, Alnum
    <2>3. IsWord(<<"v", "a", "r">>)
      BY <1>1 DEF IsWord, Alnum
    <2>4. IsWord(<<"i", "n", "t">>)
      BY <1>1 DEF IsWord, Alnum
    <2>5. IsWord(<<"v", "o", "i", "d">>)
      BY <1>1 DEF IsWord, Alnum
    <2>6. IsWord(<<"s", "t", "r", "u", "c", "t">>)
      BY <1>1 DEF IsWord, Alnum
    <2>7. IsWord(<<"i", "f">>)
      BY <1>1 DEF IsWord, Alnum
    <2>8. IsWord(<<"e", "l", "s", "e">>)
      BY <1>1 DEF IsWord, Alnum
    <2>9. IsWord(<<"l", "o", "o", "p">>)
      BY <1>1 DEF IsWord, Alnum
    <2>10. IsWord(<<"s", "t", "o", "p">>)
      BY <1>1 DEF IsWord, Alnum
    <2>11. IsWord(<<"c", "o", "n", "t">>)
      BY <1>1 DEF IsWord, Alnum
    <2> QED BY <2>1, <2>2, <2>3, <2>4, <2>5, <2>6, <2>7, <2>8, <2>9, <2>10, <2>11 DEF Keywords
  <1>4. ReturnWords \cap Keywords = {}
    BY DEF Keywords, ReturnWords
  <1> QED BY <1>2, <1>3, <1>4

-----------------------------------------------------------------------------
(* Lexemes *)

(* What each kind of lexeme begins with.                                    *)
LEMMA Firsts ==
  ASSUME src \in Seq(STRING), NEW a \in Offsets, NEW b \in Offsets, a < b, NEW k \in Kinds,
         Lexeme(k, a, b)
  PROVE  /\ k \in {"KwReturn", "Keyword", "Identifier"} => CharAt(a) \in Alpha
         /\ k = "IntLiteral" => \A i \in (a + 1)..b : src[i] \in DOMAIN Digits
         /\ k = "IntLiteral" => CharAt(a) \in DOMAIN Digits
         /\ k = "StringLiteral" => CharAt(a) = Quote
         /\ k = "Symbol" => /\ CharAt(a) \in Single \cup DOMAIN Pairs
                            /\ b = a + 1 => CharAt(a) \in Single
                            /\ b # a + 1 => /\ b = a + 2 /\ CharAt(a) \in DOMAIN Pairs
                                            /\ src[a + 2] = Pairs[CharAt(a)]
  <1>1. PICK s : s = Slice(a, b)
    OBVIOUS
  <1>2. /\ a \in Nat /\ b \in Nat /\ b <= Len(src) /\ b - a \in Nat
        /\ s \in Seq(STRING) /\ Len(s) = b - a
        /\ \A i \in 1..(b - a) : s[i] = src[a + i] /\ CharAt(a + i - 1) = src[a + i]
    <2>1. a <= b
      BY DEF Offsets
    <2> QED BY <1>1, <2>1, SliceFacts
  <1>3. 1 \in 1..(b - a) /\ a + 1 - 1 = a
    BY <1>2
  <1>4. s[1] = CharAt(a) /\ s[1] = src[a + 1]
    BY <1>2, <1>3
  <1>5. CASE k = "KwReturn"
    <2>1. Front(s) \in ReturnWords /\ Front(s) = Slice(a, b - 1)
      BY <1>1, <1>5, FrontOfSlice DEF Lexeme, IsLexeme
    <2>2. IsWord(Slice(a, b - 1)) /\ Len(Slice(a, b - 1)) \in {1, 6}
      BY <2>1, KnownWords
    <2>3. b - 1 \in Offsets /\ a <= b - 1
      BY <1>2 DEF Offsets
    <2>4. PICK t : t = Slice(a, b - 1)
      OBVIOUS
    <2>5. Len(t) = b - 1 - a /\ \A i \in 1..(b - 1 - a) : t[i] = src[a + i]
      BY <2>3, <2>4, SliceFacts
    <2>6. 1 \in 1..(b - 1 - a)
      <3>1. Len(t) \in {1, 6}
        BY <2>2, <2>4
      <3>2. b - 1 - a \in {1, 6}
        BY <3>1, <2>5
      <3> QED BY <3>2
    <2>7. t[1] = src[a + 1] /\ t[1] \in Alpha
      BY <2>2, <2>4, <2>5, <2>6 DEF IsWord
    <2> QED BY <2>7, <1>4, <1>5
  <1>6. CASE k \in {"Keyword", "Identifier"}
    <2>1. IsWord(s)
      BY <1>1, <1>6, KnownWords DEF Lexeme, IsLexeme
    <2> QED BY <2>1, <1>4, <1>6 DEF IsWord
  <1>7. CASE k = "IntLiteral"
    <2>1. IsNumber(s)
      BY <1>1, <1>7 DEF Lexeme, IsLexeme
    <2>2. \A i \in 1..(b - a) : s[i] \in DOMAIN Digits
      BY <2>1, <1>2 DEF IsNumber
    <2>3. \A i \in (a + 1)..b : i - a \in 1..(b - a) /\ a + (i - a) = i
      BY <1>2
    <2>4. ASSUME NEW i \in (a + 1)..b PROVE src[i] \in DOMAIN Digits
      <3>1. i - a \in 1..(b - a) /\ a + (i - a) = i
        BY <2>3
      <3>2. s[i - a] = src[i] /\ s[i - a] \in DOMAIN Digits
        BY <1>2, <2>2, <3>1
      <3> QED BY <3>2
    <2> QED BY <2>2, <2>4, <1>3, <1>4, <1>7
  <1>8. CASE k = "StringLiteral"
    <2>1. IsString(s)
      BY <1>1, <1>8 DEF Lexeme, IsLexeme
    <2> QED BY <2>1, <1>4, <1>8 DEF IsString
  <1>9. CASE k = "Symbol"
    <2>1. IsSymbol(s)
      BY <1>1, <1>9 DEF Lexeme, IsLexeme
    <2>2. \/ Len(s) = 1 /\ s[1] \in Single
          \/ Len(s) = 2 /\ s[1] \in DOMAIN Pairs /\ s[2] = Pairs[s[1]]
      BY <2>1 DEF IsSymbol
    <2>3. CASE Len(s) = 1 /\ s[1] \in Single
      <3>1. b = a + 1
        BY <2>3, <1>2
      <3> QED BY <2>3, <3>1, <1>4, <1>9
    <2>4. CASE Len(s) = 2 /\ s[1] \in DOMAIN Pairs /\ s[2] = Pairs[s[1]]
      <3>1. b - a = 2
        BY <2>4, <1>2
      <3>2. b = a + 2 /\ b # a + 1 /\ 2 \in 1..(b - a)
        BY <3>1, <1>2
      <3>3. s[2] = src[a + 2]
        BY <3>2, <1>2
      <3>4. CharAt(a) \in DOMAIN Pairs /\ src[a + 2] = Pairs[CharAt(a)]
        BY <2>4, <3>3, <1>4
      <3> QED BY <3>2, <3>4, <1>9
    <2> QED BY <2>2, <2>3, <2>4
  <1> QED BY <1>5, <1>6, <1>7, <1>8, <1>9 DEF Kinds

(* A blank or a comment begins with a blank or the two characters of one.   *)
LEMMA GapFirsts ==
  ASSUME src \in Seq(STRING), NEW a \in Offsets, NEW b \in Offsets, a < b, IsGap(a, b)
  PROVE  \/ CharAt(a) \in Blanks
         \/ CharAt(a) = "/" /\ CharAt(a + 1) = "/"
         \/ /\ CharAt(a) = "/" /\ CharAt(a + 1) = "*" /\ b >= a + 4
            /\ src[b - 1] = "*" /\ src[b] = "/"
  <1>1. PICK s : s = Slice(a, b)
    OBVIOUS
  <1>2. /\ a \in Nat /\ b \in Nat /\ b <= Len(src) /\ b - a \in Nat
        /\ s \in Seq(STRING) /\ Len(s) = b - a
        /\ \A i \in 1..(b - a) : s[i] = src[a + i] /\ CharAt(a + i - 1) = src[a + i]
    <2>1. a <= b
      BY DEF Offsets
    <2> QED BY <1>1, <2>1, SliceFacts
  <1>3. 1 \in 1..(b - a) /\ a + 1 - 1 = a /\ a + 2 - 1 = a + 1
    BY <1>2
  <1>4. s[1] = CharAt(a)
    BY <1>2, <1>3
  <1>5. ASSUME NEW c, Len(s) >= 2, SubSeq(s, 1, 2) = <<"/", c>>
        PROVE  CharAt(a) = "/" /\ CharAt(a + 1) = c
    <2>1. 2 \in 1..(b - a)
      BY <1>2, <1>5
    <2>2. s[2] = CharAt(a + 1)
      BY <2>1, <1>2, <1>3
    <2>3. PICK t : t = SubSeq(s, 1, 2)
      OBVIOUS
    <2>4. t[1] = s[1] /\ t[2] = s[2]
      BY <2>3, <1>2, <1>5
    <2>5. t[1] = "/" /\ t[2] = c
      <3>1. t = <<"/", c>>
        BY <2>3, <1>5
      <3>2. \A u : u = <<"/", c>> => u[1] = "/" /\ u[2] = c
        OBVIOUS
      <3> QED BY <3>1, <3>2
    <2> QED BY <2>2, <2>4, <2>5, <1>4
  <1>6. CASE b = a + 1 /\ s[1] \in Blanks
    BY <1>4, <1>6
  <1>7. CASE Len(s) >= 2 /\ SubSeq(s, 1, 2) = <<"/", "/">>
    BY <1>5, <1>7
  <1>8. CASE /\ Len(s) >= 4 /\ SubSeq(s, 1, 2) = <<"/", "*">>
             /\ {k \in 3..(Len(s) - 1) : s[k] = "*" /\ s[k + 1] = "/"} = {Len(s) - 1}
    <2>1. PICK e : e = Len(s) - 1
      OBVIOUS
    <2>2. e \in {k \in 3..(Len(s) - 1) : s[k] = "*" /\ s[k + 1] = "/"}
      BY <2>1, <1>8
    <2>3. s[e] = "*" /\ s[e + 1] = "/" /\ e \in 1..(b - a) /\ e + 1 \in 1..(b - a)
      BY <2>1, <2>2, <1>2
    <2>4. a + e = b - 1 /\ a + (e + 1) = b /\ Len(s) >= 2 /\ b >= a + 4
      BY <2>1, <1>2, <1>8
    <2>5. src[b - 1] = "*" /\ src[b] = "/"
      BY <2>3, <2>4, <1>2
    <2> QED BY <2>4, <2>5, <1>5, <1>8
  <1> QED BY <1>1, <1>6, <1>7, <1>8 DEF IsGap

(* What stands in a slice that is a word or a return.                       *)
LEMMA WordsAre ==
  ASSUME src \in Seq(STRING), NEW a \in Offsets, NEW b \in Offsets, a < b, NEW k \in Kinds,
         Lexeme(k, a, b)
  PROVE  /\ k \in {"Keyword", "Identifier"} => \A i \in (a + 1)..b : Alnum(src[i])
         /\ k = "KwReturn" => /\ \A i \in (a + 1)..(b - 1) : Alnum(src[i])
                              /\ src[b] = "/" /\ Slice(a, b - 1) \in ReturnWords
                              /\ CharAt(b) \notin {"/", "*"}
  <1>1. /\ a \in Nat /\ b \in Nat /\ a <= b /\ a <= b - 1
    BY DEF Offsets
  <1>2. CASE k \in {"Keyword", "Identifier"}
    <2>1. PICK s : s = Slice(a, b)
      OBVIOUS
    <2>2. Len(s) = b - a /\ \A i \in 1..(b - a) : s[i] = src[a + i]
      BY <1>1, <2>1, SliceFacts
    <2>3. IsWord(s)
      BY <2>1, <1>2, KnownWords DEF Lexeme, IsLexeme
    <2>4. ASSUME NEW i \in (a + 1)..b PROVE Alnum(src[i])
      <3>1. i - a \in 1..(b - a) /\ a + (i - a) = i
        BY <1>1
      <3>2. Alnum(s[i - a])
        BY <2>2, <2>3, <3>1 DEF IsWord
      <3> QED BY <2>2, <3>1, <3>2
    <2> QED BY <1>2, <2>4
  <1>3. CASE k = "KwReturn"
    <2>1. /\ Front(Slice(a, b)) \in ReturnWords /\ Last(Slice(a, b)) = "/"
          /\ CharAt(b) \notin {"/", "*"}
      BY <1>3 DEF Lexeme, IsLexeme
    <2>2. Slice(a, b - 1) \in ReturnWords /\ src[b] = "/" /\ b - 1 \in Offsets
      BY <2>1, FrontOfSlice
    <2>3. PICK s : s = Slice(a, b - 1)
      OBVIOUS
    <2>4. Len(s) = b - 1 - a /\ \A i \in 1..(b - 1 - a) : s[i] = src[a + i]
      BY <1>1, <2>2, <2>3, SliceFacts
    <2>5. IsWord(s)
      BY <2>2, <2>3, KnownWords
    <2>6. ASSUME NEW i \in (a + 1)..(b - 1) PROVE Alnum(src[i])
      <3>1. i - a \in 1..(b - 1 - a) /\ a + (i - a) = i
        BY <1>1
      <3>2. Alnum(s[i - a])
        BY <2>4, <2>5, <3>1 DEF IsWord
      <3> QED BY <2>4, <3>1, <3>2
    <2> QED BY <1>3, <2>1, <2>2, <2>6
  <1> QED BY <1>2, <1>3

(* Where the loop of ident stops, a word ends; only a return goes on, by    *)
(* the one character that makes it one.                                     *)
LEMMA WordEnds ==
  ASSUME src \in Seq(STRING), NEW a \in Offsets, NEW b \in Offsets, a < b, CharAt(a) \in Alpha,
         \A i \in (a + 1)..b : Alnum(src[i]), b = Len(src) \/ ~Alnum(CharAt(b))
  PROVE  /\ IsWord(Slice(a, b))
         /\ \A k \in Kinds, c \in (b + 1)..Len(src) :
              Lexeme(k, a, c) => /\ k = "KwReturn" /\ c = b + 1 /\ Slice(a, b) \in ReturnWords
                                 /\ CharAt(b) = "/" /\ CharAt(b + 1) \notin {"/", "*"}
  <1>1. PICK s : s = Slice(a, b)
    OBVIOUS
  <1>2. /\ a \in Nat /\ b \in Nat /\ a <= b /\ b <= Len(src) /\ Len(src) \in Nat
        /\ s \in Seq(STRING) /\ Len(s) = b - a
        /\ \A i \in 1..(b - a) : s[i] = src[a + i] /\ CharAt(a + i - 1) = src[a + i]
    <2>1. a <= b /\ Len(src) \in Nat
      BY DEF Offsets
    <2> QED BY <1>1, <2>1, SliceFacts
  <1>3. IsWord(s)
    <2>1. 1 \in 1..(b - a) /\ a + 1 - 1 = a /\ s # <<>>
      BY <1>2
    <2>2. s[1] \in Alpha
      BY <1>2, <2>1
    <2>3. ASSUME NEW i \in 1..Len(s) PROVE Alnum(s[i])
      <3>1. i \in 1..(b - a) /\ a + i \in (a + 1)..b
        BY <1>2
      <3> QED BY <1>2, <3>1
    <2> QED BY <2>1, <2>2, <2>3 DEF IsWord
  <1>4. ASSUME NEW k \in Kinds, NEW c \in (b + 1)..Len(src), Lexeme(k, a, c)
        PROVE  /\ k = "KwReturn" /\ c = b + 1 /\ Slice(a, b) \in ReturnWords
               /\ CharAt(b) = "/" /\ CharAt(b + 1) \notin {"/", "*"}
    <2>1. /\ c \in Nat /\ c \in Offsets /\ a < c /\ b < c /\ b < Len(src) /\ b + 1 <= c
      BY <1>2 DEF Offsets
    <2>2. CharAt(b) = src[b + 1] /\ ~Alnum(src[b + 1])
      BY <1>2, <2>1 DEF CharAt
    <2>3. k \notin {"IntLiteral", "StringLiteral", "Symbol"}
      <3>1. CharAt(a) \notin DOMAIN Digits /\ CharAt(a) # Quote /\ CharAt(a) \notin Single \cup DOMAIN Pairs
        BY Classes DEF Alnum
      <3> QED BY <1>4, <2>1, <3>1, Firsts
    <2>4. b + 1 \in (a + 1)..c /\ (c # b + 1 => b + 1 \in (a + 1)..(c - 1))
      BY <1>2, <2>1
    <2>5. k \notin {"Keyword", "Identifier"}
      BY <1>4, <2>1, <2>2, <2>4, WordsAre
    <2>6. k = "KwReturn"
      BY <2>3, <2>5 DEF Kinds
    <2>7. c = b + 1
      BY <1>4, <2>1, <2>2, <2>4, <2>6, WordsAre
    <2>8. c - 1 = b
      BY <2>7, <1>2
    <2> QED BY <1>4, <2>1, <2>2, <2>6, <2>7, <2>8, WordsAre
  <1> QED BY <1>1, <1>3, <1>4

(* A word that no '/' makes a return is a keyword or a name ...             *)
LEMMA WordLexeme ==
  ASSUME src \in Seq(STRING), NEW a \in Offsets, NEW b \in Offsets, a < b, CharAt(a) \in Alpha,
         \A i \in (a + 1)..b : Alnum(src[i]), b = Len(src) \/ ~Alnum(CharAt(b)),
         ~(Slice(a, b) \in ReturnWords /\ CharAt(b) = "/" /\ CharAt(b + 1) \notin {"/", "*"})
  PROVE  /\ Lexeme(IF Slice(a, b) \in Keywords THEN "Keyword" ELSE "Identifier", a, b)
         /\ Longest(a, b)
  <1>1. IsWord(Slice(a, b))
    BY WordEnds
  <1>2. Longest(a, b)
    BY WordEnds DEF Longest
  <1> QED BY <1>1, <1>2 DEF Lexeme, IsLexeme

(* ... and else the return, with the '/'.                                   *)
LEMMA ReturnLexeme ==
  ASSUME src \in Seq(STRING), NEW a \in Offsets, NEW b \in Offsets, a < b, CharAt(a) \in Alpha,
         \A i \in (a + 1)..b : Alnum(src[i]), b = Len(src) \/ ~Alnum(CharAt(b)),
         Slice(a, b) \in ReturnWords, CharAt(b) = "/", CharAt(b + 1) \notin {"/", "*"}
  PROVE  /\ b + 1 \in Offsets /\ Lexeme("KwReturn", a, b + 1) /\ Longest(a, b + 1)
         /\ Slice(a, b + 1) = Append(Slice(a, b), "/")
  <1>1. a \in Nat /\ b \in Nat /\ b < Len(src) /\ Len(src) \in Nat
    <2>1. a \in Nat /\ b \in Nat /\ Len(src) \in Nat /\ b <= Len(src)
      BY DEF Offsets
    <2>2. b # Len(src)
      BY <2>1 DEF CharAt, NoChar
    <2> QED BY <2>1, <2>2
  <1>2. b + 1 \in Offsets /\ a < b + 1 /\ a <= b + 1 /\ a <= b /\ b + 1 - 1 = b /\ src[b + 1] = "/"
    BY <1>1 DEF Offsets, CharAt
  <1>3. Front(Slice(a, b + 1)) = Slice(a, b) /\ Last(Slice(a, b + 1)) = "/"
    <2>1. PICK c : c = b + 1
      OBVIOUS
    <2>2. c \in Offsets /\ a < c /\ c - 1 = b /\ src[c] = "/"
      BY <2>1, <1>1, <1>2
    <2>3. Front(Slice(a, c)) = Slice(a, c - 1) /\ Last(Slice(a, c)) = src[c]
      BY <2>2, FrontOfSlice
    <2> QED BY <2>1, <2>2, <2>3
  <1>4. PICK s : s = Slice(a, b + 1)
    OBVIOUS
  <1>5. s \in Seq(STRING) /\ Len(s) = b + 1 - a
    BY <1>2, <1>4, SliceFacts
  <1>6. s # <<>> /\ s = Append(Front(s), Last(s))
    <2>1. s # <<>>
      BY <1>1, <1>2, <1>5
    <2>2. PICK t : t = Append(Front(s), Last(s))
      OBVIOUS
    <2>3. PICK f : f = Front(s)
      OBVIOUS
    <2>4. f \in Seq(STRING) /\ Len(f) = Len(s) - 1 /\ \A i \in 1..(Len(s) - 1) : f[i] = s[i]
      BY <2>1, <2>3, <1>5 DEF Front
    <2>5. Last(s) = s[Len(s)] /\ Len(s) \in Nat /\ Len(s) \in 1..Len(s) /\ Last(s) \in STRING
      BY <2>1, <1>5 DEF Last
    <2>6. t \in Seq(STRING) /\ Len(t) = Len(s) /\ \A i \in 1..Len(s) : t[i] = s[i]
      BY <2>2, <2>3, <2>4, <2>5
    <2>7. t = s
      BY <2>6, <1>5, SeqEqual
    <2> QED BY <2>1, <2>2, <2>7
  <1>7. Lexeme("KwReturn", a, b + 1)
    BY <1>3, <1>4, <1>6 DEF Lexeme, IsLexeme
  <1>8. Longest(a, b + 1)
    <2>1. ASSUME NEW c \in (b + 1 + 1)..Len(src), NEW k \in Kinds, Lexeme(k, a, c)
          PROVE  FALSE
      <3>1. c \in (b + 1)..Len(src) /\ c # b + 1
        BY <1>1
      <3> QED BY <2>1, <3>1, WordEnds
    <2> QED BY <2>1 DEF Longest
  <1> QED BY <1>2, <1>3, <1>4, <1>6, <1>7, <1>8

(* Where the loop of number stops, a number ends.                           *)
LEMMA NumberLexeme ==
  ASSUME src \in Seq(STRING), NEW a \in Offsets, NEW b \in Offsets, a < b,
         \A i \in (a + 1)..b : src[i] \in DOMAIN Digits,
         b = Len(src) \/ CharAt(b) \notin DOMAIN Digits
  PROVE  Lexeme("IntLiteral", a, b) /\ Longest(a, b)
  <1>1. PICK s : s = Slice(a, b)
    OBVIOUS
  <1>2. /\ a \in Nat /\ b \in Nat /\ a <= b /\ b <= Len(src) /\ Len(src) \in Nat
        /\ s \in Seq(STRING) /\ Len(s) = b - a
        /\ \A i \in 1..(b - a) : s[i] = src[a + i] /\ CharAt(a + i - 1) = src[a + i]
    <2>1. a <= b /\ Len(src) \in Nat
      BY DEF Offsets
    <2> QED BY <1>1, <2>1, SliceFacts
  <1>3. IsNumber(s)
    <2>1. s # <<>>
      BY <1>2
    <2>2. ASSUME NEW i \in 1..Len(s) PROVE s[i] \in DOMAIN Digits
      <3>1. i \in 1..(b - a) /\ a + i \in (a + 1)..b
        BY <1>2
      <3> QED BY <1>2, <3>1
    <2> QED BY <2>1, <2>2 DEF IsNumber
  <1>4. ASSUME NEW k \in Kinds, NEW c \in (b + 1)..Len(src), Lexeme(k, a, c)
        PROVE  FALSE
    <2>1. /\ c \in Nat /\ c \in Offsets /\ a < c /\ b < Len(src) /\ b + 1 \in (a + 1)..c
      BY <1>2 DEF Offsets
    <2>2. CharAt(b) = src[b + 1] /\ src[b + 1] \notin DOMAIN Digits
      BY <1>2, <2>1 DEF CharAt
    <2>3. CharAt(a) \in DOMAIN Digits
      <3>1. 1 \in 1..(b - a) /\ a + 1 - 1 = a /\ a + 1 \in (a + 1)..b
        BY <1>2
      <3> QED BY <1>2, <3>1
    <2>4. CharAt(a) \notin Alpha /\ CharAt(a) # Quote /\ CharAt(a) \notin Single \cup DOMAIN Pairs
      BY <2>3, Classes DEF Alnum
    <2>5. k = "IntLiteral"
      BY <1>4, <2>1, <2>4, Firsts DEF Kinds
    <2> QED BY <1>4, <2>1, <2>2, <2>5, Firsts
  <1>5. Lexeme("IntLiteral", a, b)
    BY <1>1, <1>3 DEF Lexeme, IsLexeme
  <1> QED BY <1>4, <1>5 DEF Longest

(* What the switch makes of a character.                                    *)
LEMMA SymbolLexeme ==
  ASSUME src \in Seq(STRING), NEW a \in Offsets, a < Len(src),
         CharAt(a) \notin Blanks, ~(CharAt(a) = "/" /\ CharAt(a + 1) \in {"/", "*"}),
         ~Alnum(CharAt(a)), CharAt(a) # Quote
  PROVE  /\ (CharAt(a) \in DOMAIN Pairs /\ Pairs[CharAt(a)] = CharAt(a + 1)) =>
              /\ a + 2 \in Offsets /\ Lexeme("Symbol", a, a + 2) /\ Longest(a, a + 2)
              /\ Slice(a, a + 2) = <<CharAt(a), CharAt(a + 1)>>
         /\ (~(CharAt(a) \in DOMAIN Pairs /\ Pairs[CharAt(a)] = CharAt(a + 1))
             /\ CharAt(a) \in Single) =>
              /\ Lexeme("Symbol", a, a + 1) /\ Longest(a, a + 1)
              /\ Slice(a, a + 1) = <<CharAt(a)>>
         /\ (~(CharAt(a) \in DOMAIN Pairs /\ Pairs[CharAt(a)] = CharAt(a + 1))
             /\ CharAt(a) \notin Single) =>
              \A b \in (a + 1)..Len(src) : ~IsGap(a, b) /\ \A k \in Kinds : ~Lexeme(k, a, b)
  <1>1. /\ a \in Nat /\ Len(src) \in Nat /\ a + 1 <= Len(src) /\ a + 1 \in Offsets
        /\ CharAt(a) = src[a + 1] /\ src[a + 1] \in STRING /\ a <= a + 1 /\ a <= a + 2
    BY DEF Offsets, CharAt
  <1>2. ASSUME NEW k \in Kinds, NEW b \in (a + 1)..Len(src), Lexeme(k, a, b)
        PROVE  /\ k = "Symbol" /\ (b = a + 1 => CharAt(a) \in Single)
               /\ b # a + 1 => /\ b = a + 2 /\ CharAt(a) \in DOMAIN Pairs
                               /\ Pairs[CharAt(a)] = CharAt(a + 1)
    <2>1. b \in Nat /\ b \in Offsets /\ a < b
      BY <1>1 DEF Offsets
    <2>2. CharAt(a) \notin Alpha /\ CharAt(a) \notin DOMAIN Digits
      BY DEF Alnum
    <2>3. k = "Symbol"
      BY <1>2, <2>1, <2>2, Firsts DEF Kinds
    <2>4. /\ b = a + 1 => CharAt(a) \in Single
          /\ b # a + 1 => /\ b = a + 2 /\ CharAt(a) \in DOMAIN Pairs
                          /\ src[a + 2] = Pairs[CharAt(a)]
      BY <1>2, <2>1, <2>3, Firsts
    <2>5. b = a + 2 => CharAt(a + 1) = src[a + 2]
      <3>1. b = a + 2 => a + 1 < Len(src) /\ a + 1 + 1 = a + 2
        BY <1>1, <2>1
      <3> QED BY <3>1 DEF CharAt
    <2> QED BY <2>3, <2>4, <2>5
  <1>3. PICK c, d : c = a + 1 /\ d = a + 2
    OBVIOUS
  <1>4. CASE CharAt(a) \in DOMAIN Pairs /\ Pairs[CharAt(a)] = CharAt(a + 1)
    <2>1. a + 1 < Len(src)
      <3>1. \A x \in DOMAIN Pairs : Pairs[x] # NoChar
        BY DEF Pairs, NoChar
      <3> QED BY <3>1, <1>1, <1>4 DEF CharAt
    <2>2. d \in Offsets /\ a <= d /\ d - a = 2 /\ CharAt(a + 1) = src[a + 2] /\ src[a + 2] \in STRING
      <3>1. CharAt(a + 1) = src[a + 1 + 1] /\ a + 1 + 1 = a + 2 /\ a + 2 \in 1..Len(src)
        BY <1>1, <2>1 DEF CharAt
      <3> QED BY <1>1, <1>3, <2>1, <3>1 DEF Offsets
    <2>3. PICK s : s = Slice(a, d)
      OBVIOUS
    <2>4. s \in Seq(STRING) /\ Len(s) = 2 /\ s[1] = src[a + 1] /\ s[2] = src[a + 2]
      <3>1. s \in Seq(STRING) /\ Len(s) = d - a /\ \A k \in 1..(d - a) : s[k] = src[a + k]
        BY <2>2, <2>3, SliceFacts
      <3> QED BY <2>2, <3>1
    <2>5. s = <<CharAt(a), CharAt(a + 1)>>
      BY <2>2, <2>4, <1>1
    <2>6. IsSymbol(s)
      BY <2>2, <2>4, <1>1, <1>4 DEF IsSymbol
    <2>7. Lexeme("Symbol", a, d)
      BY <2>3, <2>4, <2>6 DEF Lexeme, IsLexeme
    <2>8. Longest(a, d)
      <3>1. ASSUME NEW b \in (d + 1)..Len(src), NEW k \in Kinds, Lexeme(k, a, b) PROVE FALSE
        <4>1. b \in (a + 1)..Len(src) /\ b # a + 1 /\ b # a + 2
          BY <1>1, <1>3
        <4> QED BY <3>1, <4>1, <1>2
      <3> QED BY <3>1 DEF Longest
    <2> QED BY <2>2, <2>3, <2>5, <2>7, <2>8, <1>3, <1>4
  <1>5. CASE /\ ~(CharAt(a) \in DOMAIN Pairs /\ Pairs[CharAt(a)] = CharAt(a + 1))
             /\ CharAt(a) \in Single
    <2>1. PICK s : s = Slice(a, c)
      OBVIOUS
    <2>2. s \in Seq(STRING) /\ Len(s) = 1 /\ s[1] = src[a + 1]
      <3>1. c \in Offsets /\ a <= c /\ c - a = 1
        BY <1>1, <1>3
      <3>2. s \in Seq(STRING) /\ Len(s) = c - a /\ \A k \in 1..(c - a) : s[k] = src[a + k]
        BY <2>1, <3>1, SliceFacts
      <3> QED BY <3>1, <3>2
    <2>3. s = <<CharAt(a)>>
      BY <2>2, <1>1
    <2>4. IsSymbol(s) /\ (s = <<"/">> => CharAt(a) = "/")
      BY <2>2, <1>1, <1>5 DEF IsSymbol
    <2>5. Lexeme("Symbol", a, c)
      BY <2>1, <2>4, <1>3 DEF Lexeme, IsLexeme
    <2>6. Longest(a, c)
      <3>1. ASSUME NEW b \in (c + 1)..Len(src), NEW k \in Kinds, Lexeme(k, a, b) PROVE FALSE
        <4>1. b \in (a + 1)..Len(src) /\ b # a + 1
          BY <1>1, <1>3
        <4> QED BY <3>1, <4>1, <1>2, <1>5
      <3> QED BY <3>1 DEF Longest
    <2> QED BY <2>1, <2>3, <2>5, <2>6, <1>3, <1>5
  <1>6. CASE /\ ~(CharAt(a) \in DOMAIN Pairs /\ Pairs[CharAt(a)] = CharAt(a + 1))
             /\ CharAt(a) \notin Single
    <2>1. ASSUME NEW b \in (a + 1)..Len(src) PROVE ~IsGap(a, b)
      <3>1. b \in Offsets /\ a < b
        BY <1>1 DEF Offsets
      <3> QED BY <3>1, GapFirsts
    <2> QED BY <2>1, <1>2, <1>6
  <1> QED BY <1>4, <1>5, <1>6

-----------------------------------------------------------------------------
(* Strings *)

\* where the backslashes right before the character at k begin
Backs(s, k) == {j \in 1..(k - 1) : \A i \in j..(k - 1) : s[i] = "\\"}

(* A character is escaped by a backslash that is not.                       *)
LEMMA EscapedNext ==
  ASSUME NEW s, NEW k \in Nat \ {0}
  PROVE  Escaped(s, k + 1) <=> s[k] = "\\" /\ ~Escaped(s, k)
  <1>1. /\ Escaped(s, k) <=> Cardinality(Backs(s, k)) % 2 = 1
        /\ Escaped(s, k + 1) <=> Cardinality(Backs(s, k + 1)) % 2 = 1
    <2>1. k + 1 - 1 = k
      OBVIOUS
    <2>2. Backs(s, k + 1) = {j \in 1..(k + 1 - 1) : \A i \in j..(k + 1 - 1) : s[i] = "\\"}
      BY DEF Backs
    <2> QED BY <2>2 DEF Escaped, Backs
  <1>2. Backs(s, k + 1) = {j \in 1..k : \A i \in j..k : s[i] = "\\"}
    <2>1. k + 1 - 1 = k
      OBVIOUS
    <2> QED BY <2>1 DEF Backs
  <1>3. IsFiniteSet(Backs(s, k)) /\ Cardinality(Backs(s, k)) \in Nat
    <2>1. IsFiniteSet(1..(k - 1)) /\ Backs(s, k) \subseteq 1..(k - 1)
      BY FS_Interval DEF Backs
    <2> QED BY <2>1, FS_Subset, FS_CardinalityType
  <1>4. CASE s[k] # "\\"
    <2>1. Backs(s, k + 1) = {}
      <3>1. \A j \in 1..k : k \in j..k
        OBVIOUS
      <3> QED BY <3>1, <1>2, <1>4
    <2>2. Cardinality(Backs(s, k + 1)) = 0
      BY <2>1, FS_EmptySet
    <2>3. 0 % 2 # 1
      OBVIOUS
    <2> QED BY <2>2, <2>3, <1>1, <1>4
  <1>5. CASE s[k] = "\\"
    <2>1. Backs(s, k + 1) = Backs(s, k) \cup {k} /\ k \notin Backs(s, k)
      <3>1. \A j \in 1..k : j..k = j..(k - 1) \cup {k}
        OBVIOUS
      <3>2. 1..k = 1..(k - 1) \cup {k} /\ k \notin 1..(k - 1) /\ k..(k - 1) = {}
        OBVIOUS
      <3>3. ASSUME NEW j PROVE j \in Backs(s, k + 1) <=> j \in Backs(s, k) \cup {k}
        <4>1. CASE j = k
          BY <4>1, <3>1, <3>2, <1>2, <1>5
        <4>2. CASE j # k
          BY <4>2, <3>1, <3>2, <1>2, <1>5 DEF Backs
        <4> QED BY <4>1, <4>2
      <3> QED BY <3>2, <3>3 DEF Backs
    <2>2. Cardinality(Backs(s, k + 1)) = Cardinality(Backs(s, k)) + 1
      BY <2>1, <1>3, FS_AddElement
    <2>3. \A n \in Nat : (n + 1) % 2 = 1 <=> ~(n % 2 = 1)
      OBVIOUS
    <2> QED BY <2>2, <2>3, <1>1, <1>3, <1>5
  <1> QED BY <1>4, <1>5

(* The first character is not escaped.                                      *)
LEMMA EscapedFirst ==
  ASSUME NEW s
  PROVE  ~Escaped(s, 1)
  <1>1. Backs(s, 1) = {}
    BY DEF Backs
  <1>2. Cardinality(Backs(s, 1)) = 0
    BY <1>1, FS_EmptySet
  <1>3. 0 % 2 # 1
    OBVIOUS
  <1> QED BY <1>2, <1>3 DEF Escaped, Backs

(* What is behind a character does not matter.                              *)
LEMMA EscapedSame ==
  ASSUME NEW s, NEW t, NEW k \in Nat, \A i \in 1..(k - 1) : s[i] = t[i]
  PROVE  Escaped(s, k) <=> Escaped(t, k)
  <1>1. Backs(s, k) = Backs(t, k)
    <2>1. \A j \in 1..(k - 1) : \A i \in j..(k - 1) : i \in 1..(k - 1)
      OBVIOUS
    <2>2. \A j \in 1..(k - 1) : (\A i \in j..(k - 1) : s[i] = "\\") <=> (\A i \in j..(k - 1) : t[i] = "\\")
      BY <2>1
    <2> QED BY <2>2 DEF Backs
  <1> QED BY <1>1 DEF Escaped, Backs

\* the characters 2 to n of s may stand between quotes
WellTo(s, n) == \A k \in 2..n : IF Escaped(s, k) THEN s[k] \in DOMAIN Escapes ELSE s[k] # Quote

\* those of them that stand for one of the value, and the value t
KeptTo(s, n)      == {k \in 2..n : s[k] # "\\" \/ Escaped(s, k)}
Rank(s, n, k)     == Cardinality({j \in KeptTo(s, n) : j <= k})
Stands(s, k)      == IF Escaped(s, k) THEN Escapes[s[k]] ELSE s[k]
SpellsTo(t, s, n) == /\ Len(t) = Cardinality(KeptTo(s, n))
                     /\ \A k \in KeptTo(s, n) : t[Rank(s, n, k)] = Stands(s, k)

(* At first there is nothing to spell.                                      *)
LEMMA SpellsNothing ==
  ASSUME NEW s
  PROVE  WellTo(s, 1) /\ SpellsTo(<<>>, s, 1)
  <1>1. KeptTo(s, 1) = {} /\ Len(<<>>) = 0
    BY DEF KeptTo
  <1>2. Cardinality({}) = 0
    BY FS_EmptySet
  <1> QED BY <1>1, <1>2 DEF WellTo, SpellsTo

(* One character more that stands for one of the value.                     *)
LEMMA SpellsMore ==
  ASSUME NEW s, NEW n \in Nat, NEW m \in Nat, n < m, NEW T, NEW t \in Seq(T), NEW c \in T,
         KeptTo(s, m) = KeptTo(s, n) \cup {m}, SpellsTo(t, s, n), c = Stands(s, m)
  PROVE  SpellsTo(Append(t, c), s, m)
  <1> DEFINE K == KeptTo(s, n)
             M == KeptTo(s, m)
             u == Append(t, c)
  <1>1. K \subseteq 2..n /\ m \notin K
    BY DEF KeptTo
  <1>2. IsFiniteSet(K) /\ Cardinality(K) \in Nat
    <2>1. IsFiniteSet(2..n)
      BY FS_Interval
    <2> QED BY <2>1, <1>1, FS_Subset, FS_CardinalityType
  <1>3. Cardinality(M) = Cardinality(K) + 1
    BY <1>1, <1>2, FS_AddElement
  <1>4. /\ Len(t) = Cardinality(K) /\ Len(t) \in Nat /\ Len(u) = Len(t) + 1
        /\ u[Len(t) + 1] = c /\ \A i \in 1..Len(t) : u[i] = t[i]
    BY DEF SpellsTo
  <1>5. Rank(s, m, m) = Cardinality(K) + 1
    <2>1. {j \in M : j <= m} = M
      BY <1>1
    <2> QED BY <2>1, <1>3 DEF Rank
  <1>6. ASSUME NEW k \in K PROVE Rank(s, m, k) = Rank(s, n, k) /\ Rank(s, n, k) \in 1..Cardinality(K)
    <2>1. k \in 2..n
      BY <1>1
    <2>2. {j \in M : j <= k} = {j \in K : j <= k}
      BY <1>1, <2>1
    <2>3. PICK R : R = {j \in K : j <= k}
      OBVIOUS
    <2>4. R \subseteq K /\ k \in R
      BY <2>1, <2>3
    <2>5. IsFiniteSet(R) /\ Cardinality(R) <= Cardinality(K) /\ Cardinality(R) \in Nat
      BY <2>4, <1>2, FS_Subset, FS_CardinalityType
    <2>6. Cardinality(R) # 0
      BY <2>4, <2>5, FS_EmptySet
    <2> HIDE DEF K, M
    <2>7. Cardinality(R) \in 1..Cardinality(K)
      BY <2>5, <2>6, <1>2
    <2> QED BY <2>2, <2>3, <2>7 DEF Rank, K, M
  <1>7. ASSUME NEW k \in M PROVE u[Rank(s, m, k)] = Stands(s, k)
    <2>1. CASE k = m
      BY <2>1, <1>4, <1>5
    <2>2. CASE k \in K
      <3>1. t[Rank(s, n, k)] = Stands(s, k)
        BY <2>2 DEF SpellsTo
      <3> HIDE DEF K, u
      <3> QED BY <3>1, <2>2, <1>4, <1>6
    <2> QED BY <2>1, <2>2
  <1>8. Len(u) = Cardinality(M)
    BY <1>3, <1>4
  <1> QED BY <1>7, <1>8 DEF SpellsTo

(* What is behind a text matters for none of this.                          *)
LEMMA SpellsSame ==
  ASSUME NEW s, NEW r, NEW n \in Nat, NEW t, \A i \in 1..n : s[i] = r[i]
  PROVE  (WellTo(s, n) <=> WellTo(r, n)) /\ (SpellsTo(t, s, n) <=> SpellsTo(t, r, n))
  <1>1. ASSUME NEW k \in 2..n PROVE s[k] = r[k] /\ (Escaped(s, k) <=> Escaped(r, k))
    <2>1. k \in Nat /\ k \in 1..n /\ \A i \in 1..(k - 1) : s[i] = r[i]
      OBVIOUS
    <2> QED BY <2>1, EscapedSame
  <1>2. KeptTo(s, n) = KeptTo(r, n)
    BY <1>1 DEF KeptTo
  <1>3. \A k \in KeptTo(s, n) : k \in 2..n /\ Rank(s, n, k) = Rank(r, n, k)
    BY <1>2 DEF Rank, KeptTo
  <1>4. \A k \in KeptTo(s, n) : Stands(s, k) = Stands(r, k)
    BY <1>1, <1>3 DEF Stands
  <1>5. WellTo(s, n) <=> WellTo(r, n)
    BY <1>1 DEF WellTo
  <1>6. SpellsTo(t, s, n) <=> SpellsTo(t, r, n)
    BY <1>2, <1>3, <1>4 DEF SpellsTo
  <1> QED BY <1>5, <1>6

(* Between quotes, a character stands for itself ...                        *)
LEMMA PlainChar ==
  ASSUME NEW s, NEW n \in Nat \ {0}, WellTo(s, n), ~Escaped(s, n + 1),
         NEW T, NEW t \in Seq(T), SpellsTo(t, s, n), NEW c \in T, c = s[n + 1],
         c \notin {Quote, "\\"}
  PROVE  WellTo(s, n + 1) /\ ~Escaped(s, n + 2) /\ SpellsTo(Append(t, c), s, n + 1)
  <1>1. PICK m : m = n + 1
    OBVIOUS
  <1>2. m \in Nat \ {0} /\ n < m /\ m + 1 = n + 2 /\ 2..m = 2..n \cup {m}
    BY <1>1
  <1>3. WellTo(s, m)
    BY <1>1, <1>2 DEF WellTo
  <1>4. ~Escaped(s, m + 1)
    BY <1>1, <1>2, EscapedNext
  <1>5. KeptTo(s, m) = KeptTo(s, n) \cup {m}
    BY <1>1, <1>2 DEF KeptTo
  <1>6. c = Stands(s, m)
    BY <1>1 DEF Stands
  <1>7. SpellsTo(Append(t, c), s, m)
    BY <1>2, <1>5, <1>6, SpellsMore
  <1> QED BY <1>1, <1>2, <1>3, <1>4, <1>7

(* ... and a backslash for nothing, but the next one for what it escapes.   *)
LEMMA EscapedChar ==
  ASSUME NEW s, NEW n \in Nat \ {0}, WellTo(s, n), ~Escaped(s, n + 1), s[n + 1] = "\\"
  PROVE  /\ WellTo(s, n + 1) /\ Escaped(s, n + 2)
         /\ \A T : \A t \in Seq(T), c \in T :
              SpellsTo(t, s, n) /\ s[n + 2] \in DOMAIN Escapes /\ c = Escapes[s[n + 2]]
                => /\ WellTo(s, n + 2) /\ ~Escaped(s, n + 3)
                   /\ SpellsTo(Append(t, c), s, n + 2)
  <1>1. PICK m, k : m = n + 1 /\ k = n + 2
    OBVIOUS
  <1>2. /\ m \in Nat \ {0} /\ k \in Nat \ {0} /\ n < k /\ m + 1 = k /\ k + 1 = n + 3
        /\ 2..m = 2..n \cup {m} /\ 2..k = 2..m \cup {k}
    BY <1>1
  <1>3. WellTo(s, m)
    <2>1. s[m] # Quote
      BY <1>1, Classes
    <2> QED BY <2>1, <1>1, <1>2 DEF WellTo
  <1>4. Escaped(s, k)
    BY <1>1, <1>2, EscapedNext
  <1>5. ~Escaped(s, k + 1)
    BY <1>2, <1>4, EscapedNext
  <1>6. KeptTo(s, k) = KeptTo(s, n) \cup {k}
    BY <1>1, <1>2, <1>4 DEF KeptTo
  <1>7. ASSUME NEW T, NEW t \in Seq(T), NEW c \in T, SpellsTo(t, s, n),
               s[k] \in DOMAIN Escapes, c = Escapes[s[k]]
        PROVE  WellTo(s, k) /\ SpellsTo(Append(t, c), s, k)
    <2>1. WellTo(s, k)
      BY <1>2, <1>3, <1>4, <1>7 DEF WellTo
    <2>2. c = Stands(s, k)
      BY <1>4, <1>7 DEF Stands
    <2>3. SpellsTo(Append(t, c), s, k)
      BY <2>2, <1>2, <1>6, <1>7, SpellsMore
    <2> QED BY <2>1, <2>3
  <1> QED BY <1>1, <1>2, <1>3, <1>4, <1>5, <1>7

\* the text behind offset a
Rest(a) == Slice(a, Len(src))

(* What stands at a quote can only be a string, and this is when it is one. *)
LEMMA Strings ==
  ASSUME src \in Seq(STRING), NEW a \in Offsets, NEW b \in Offsets, a < b, CharAt(a) = Quote
  PROVE  /\ \A k \in Kinds : Lexeme(k, a, b) => k = "StringLiteral"
         /\ Lexeme("StringLiteral", a, b) <=>
              /\ b >= a + 2 /\ src[b] = Quote /\ ~Escaped(Rest(a), b - a)
              /\ WellTo(Rest(a), b - a - 1)
         /\ \A t : Spells(t, Slice(a, b)) <=> SpellsTo(t, Rest(a), b - a - 1)
  <1>1. PICK s, r : s = Slice(a, b) /\ r = Rest(a)
    OBVIOUS
  <1>2. /\ a \in Nat /\ b \in Nat /\ a <= b /\ b <= Len(src) /\ Len(src) \in Nat
        /\ Len(src) \in Offsets /\ a <= Len(src)
    BY DEF Offsets
  <1>3. PICK n : n = b - a
    OBVIOUS
  <1>4. n \in Nat \ {0} /\ n - 1 \in Nat /\ a + n = b /\ b - a - 1 = n - 1 /\ a + 1 - 1 = a
    BY <1>2, <1>3
  <1>5. Len(s) = n /\ \A i \in 1..n : s[i] = src[a + i] /\ CharAt(a + i - 1) = src[a + i]
    BY <1>1, <1>2, <1>3, SliceFacts
  <1>6. \A i \in 1..n : r[i] = src[a + i]
    <2>1. \A i \in 1..(Len(src) - a) : r[i] = src[a + i]
      BY <1>1, <1>2, SliceFacts DEF Rest
    <2>2. \A i \in 1..n : i \in 1..(Len(src) - a)
      BY <1>2, <1>4
    <2> QED BY <2>1, <2>2
  <1>7. (\A i \in 1..n : s[i] = r[i]) /\ (\A i \in 1..(n - 1) : s[i] = r[i])
    BY <1>4, <1>5, <1>6
  <1>8. Escaped(s, n) <=> Escaped(r, n)
    BY <1>4, <1>7, EscapedSame
  <1>9. WellTo(s, n - 1) <=> WellTo(r, n - 1)
    BY <1>4, <1>7, SpellsSame
  <1>10. \A t : SpellsTo(t, s, n - 1) <=> SpellsTo(t, r, n - 1)
    BY <1>4, <1>7, SpellsSame
  <1>11. s[1] = Quote /\ s[n] = src[b]
    BY <1>4, <1>5
  <1>12. IsString(s) <=> n >= 2 /\ s[n] = Quote /\ ~Escaped(s, n) /\ WellTo(s, n - 1)
    BY <1>5, <1>11 DEF IsString, WellTo
  <1>13. Lexeme("StringLiteral", a, b) <=> IsString(s)
    BY <1>1 DEF Lexeme, IsLexeme
  <1>14. \A t : Spells(t, s) <=> SpellsTo(t, s, n - 1)
    <2>1. Kept(s) = KeptTo(s, n - 1)
      BY <1>5 DEF Kept, KeptTo
    <2> QED BY <2>1 DEF Spells, SpellsTo, Rank, Stands
  <1>15. ASSUME NEW k \in Kinds, Lexeme(k, a, b) PROVE k = "StringLiteral"
    <2>1. Quote \notin Alpha /\ Quote \notin DOMAIN Digits /\ Quote \notin Single \cup DOMAIN Pairs
      BY Classes DEF Alnum
    <2> QED BY <2>1, <1>15, Firsts DEF Kinds
  <1>16. n >= 2 <=> b >= a + 2
    BY <1>2, <1>3
  <1>17. Lexeme("StringLiteral", a, b) <=>
              /\ b >= a + 2 /\ src[b] = Quote /\ ~Escaped(r, n) /\ WellTo(r, n - 1)
    BY <1>8, <1>9, <1>11, <1>12, <1>13, <1>16
  <1> QED BY <1>1, <1>3, <1>4, <1>10, <1>14, <1>15, <1>17

(* Where the loop of str stops at a quote, a string ends.                   *)
LEMMA StringLexeme ==
  ASSUME src \in Seq(STRING), NEW a \in Offsets, NEW b \in Offsets, a < b, b < Len(src), NEW t,
         CharAt(a) = Quote, CharAt(b) = Quote, WellTo(Rest(a), b - a),
         ~Escaped(Rest(a), b - a + 1), SpellsTo(t, Rest(a), b - a)
  PROVE  /\ b + 1 \in Offsets /\ Lexeme("StringLiteral", a, b + 1) /\ Longest(a, b + 1)
         /\ Spells(t, Slice(a, b + 1))
  <1>1. /\ a \in Nat /\ b \in Nat /\ Len(src) \in Nat /\ src[b + 1] = Quote
        /\ Len(src) \in Offsets /\ a <= Len(src)
    BY DEF Offsets, CharAt
  <1>2. PICK d, n, r : d = b + 1 /\ n = b - a + 1 /\ r = Rest(a)
    OBVIOUS
  <1>3. /\ d \in Offsets /\ a < d /\ d >= a + 2 /\ d - a = n /\ d - a - 1 = b - a
        /\ n \in 1..(Len(src) - a) /\ a + n = b + 1 /\ n >= 2 /\ d = a + n
    BY <1>1, <1>2 DEF Offsets
  <1>4. Lexeme("StringLiteral", a, d)
    <2>1. src[d] = Quote /\ ~Escaped(Rest(a), d - a) /\ WellTo(Rest(a), d - a - 1)
      BY <1>1, <1>2, <1>3
    <2> QED BY <2>1, <1>3, Strings
  <1>5. Spells(t, Slice(a, d))
    <2>1. SpellsTo(t, Rest(a), d - a - 1)
      BY <1>3
    <2> QED BY <2>1, <1>3, Strings
  <1>6. r[n] = Quote
    <2>1. \A i \in 1..(Len(src) - a) : r[i] = src[a + i]
      BY <1>1, <1>2, SliceFacts DEF Rest
    <2> QED BY <2>1, <1>1, <1>3
  <1>7. ASSUME NEW c \in (d + 1)..Len(src), NEW k \in Kinds, Lexeme(k, a, c) PROVE FALSE
    <2>1. c \in Offsets /\ a < c /\ c \in Nat /\ n \in 2..(c - a - 1)
      BY <1>1, <1>2, <1>3 DEF Offsets
    <2>2. Lexeme("StringLiteral", a, c)
      BY <2>1, <1>7, Strings
    <2>3. WellTo(r, c - a - 1)
      BY <2>1, <2>2, <1>2, Strings
    <2> QED BY <2>1, <2>3, <1>2, <1>6 DEF WellTo
  <1>8. Longest(a, d)
    BY <1>7 DEF Longest
  <1> QED BY <1>2, <1>3, <1>4, <1>5, <1>8

(* No string stands where the text ends before one does, or an escape is    *)
(* not one.                                                                 *)
LEMMA NoString ==
  ASSUME src \in Seq(STRING), NEW a \in Offsets, a < Len(src), CharAt(a) = Quote,
         NEW n \in Nat \ {0}, WellTo(Rest(a), n),
         \/ n = Len(src) - a
         \/ Escaped(Rest(a), n + 1) /\ Rest(a)[n + 1] \notin DOMAIN Escapes
  PROVE  \A b \in (a + 1)..Len(src) : ~IsGap(a, b) /\ \A k \in Kinds : ~Lexeme(k, a, b)
  <1>1. a \in Nat /\ Len(src) \in Nat /\ Len(src) \in Offsets /\ a <= Len(src)
    BY DEF Offsets
  <1>2. PICK r : r = Rest(a)
    OBVIOUS
  <1>3. \A i \in 1..(Len(src) - a) : r[i] = src[a + i]
    BY <1>1, <1>2, SliceFacts DEF Rest
  <1>4. ASSUME NEW b \in (a + 1)..Len(src), NEW k \in Kinds, Lexeme(k, a, b) PROVE FALSE
    <2>1. b \in Offsets /\ a < b /\ b \in Nat /\ b <= Len(src)
      BY <1>1 DEF Offsets
    <2>2. Lexeme("StringLiteral", a, b)
      BY <2>1, <1>4, Strings
    <2>3. b >= a + 2 /\ src[b] = Quote /\ ~Escaped(r, b - a) /\ WellTo(r, b - a - 1)
      BY <2>1, <2>2, <1>2, Strings
    <2>4. PICK m : m = b - a
      OBVIOUS
    <2>5. m \in 1..(Len(src) - a) /\ a + m = b /\ m >= 2 /\ m \in Nat
      <3>1. \A x, y, z \in Nat : y >= x + 2 /\ y <= z =>
              y - x \in 1..(z - x) /\ x + (y - x) = y /\ y - x >= 2 /\ y - x \in Nat
        OBVIOUS
      <3> QED BY <3>1, <2>1, <2>3, <2>4, <1>1
    <2>6. r[m] = Quote /\ ~Escaped(r, m)
      BY <2>3, <2>4, <2>5, <1>3
    <2>7. CASE m <= n
      <3>1. m \in 2..n
        BY <2>5, <2>7
      <3> QED BY <3>1, <2>6, <1>2 DEF WellTo
    <2>8. CASE m > n
      <3>1. n # Len(src) - a
        BY <2>5, <2>8, <1>1
      <3>2. Escaped(r, n + 1) /\ r[n + 1] \notin DOMAIN Escapes
        BY <3>1, <1>2
      <3>3. m # n + 1
        BY <3>2, <2>6
      <3>4. n + 1 \in 2..(m - 1)
        BY <3>3, <2>5, <2>8
      <3> QED BY <3>2, <3>4, <2>3, <2>4 DEF WellTo
    <2> QED BY <2>5, <2>7, <2>8
  <1>5. ASSUME NEW b \in (a + 1)..Len(src) PROVE ~IsGap(a, b)
    <2>1. b \in Offsets /\ a < b
      BY <1>1 DEF Offsets
    <2>2. CharAt(a) \notin Blanks /\ CharAt(a) # "/"
      BY Classes
    <2> QED BY <2>1, <2>2, GapFirsts
  <1> QED BY <1>4, <1>5

-----------------------------------------------------------------------------
(* Blanks and comments *)

(* Behind the end of the file there is no character of any use.             *)
LEMMA NoCharIs ==
  /\ NoChar \notin Blanks /\ NoChar \notin Alpha /\ NoChar \notin DOMAIN Digits
  /\ NoChar \notin {Quote, "/", "*", "\\", "\n"} /\ ~Alnum(NoChar)
  <1>1. NoChar \notin Blanks
    BY Zenon DEF NoChar, Blanks
  <1>2. NoChar \notin Alpha
    BY ZenonT(60) DEF NoChar, Alpha
  <1>3. NoChar \notin DOMAIN Digits
    <2>1. NoChar \notin {"0", "1", "2", "3", "4", "5", "6", "7", "8", "9"}
      BY Zenon DEF NoChar
    <2> QED BY <2>1, Numbers
  <1>4. NoChar \notin {Quote, "/", "*", "\\", "\n"}
    BY Zenon DEF NoChar, Quote
  <1> QED BY <1>1, <1>2, <1>3, <1>4 DEF Alnum

(* A character that is one is in the text.                                  *)
LEMMA CharIn ==
  ASSUME src \in Seq(STRING), NEW a \in Nat, CharAt(a) # NoChar
  PROVE  a < Len(src) /\ a \in Offsets /\ a + 1 \in Offsets /\ CharAt(a) = src[a + 1]
  <1>1. Len(src) \in Nat
    OBVIOUS
  <1>2. a < Len(src) /\ CharAt(a) = src[a + 1]
    BY DEF CharAt
  <1> QED BY <1>1, <1>2 DEF Offsets

(* What skipTrivia takes for a blank,                                       *)
LEMMA BlankGap ==
  ASSUME src \in Seq(STRING), NEW a \in Offsets, CharAt(a) \in Blanks
  PROVE  a + 1 \in Offsets /\ IsGap(a, a + 1)
  <1>1. a \in Nat
    BY DEF Offsets
  <1>2. a < Len(src) /\ a + 1 \in Offsets /\ CharAt(a) = src[a + 1]
    BY <1>1, CharIn, NoCharIs
  <1>3. PICK b, s : b = a + 1 /\ s = Slice(a, b)
    OBVIOUS
  <1>4. a <= b /\ b \in Offsets /\ b - a = 1
    BY <1>1, <1>2, <1>3
  <1>5. \A k \in 1..(b - a) : s[k] = src[a + k]
    BY <1>3, <1>4, SliceFacts
  <1>6. s[1] \in Blanks
    BY <1>2, <1>4, <1>5
  <1>7. IsGap(a, b)
    BY <1>3, <1>6 DEF IsGap
  <1> QED BY <1>2, <1>3, <1>7

(* The first two characters.                                                *)
LEMMA FirstTwo ==
  ASSUME NEW s \in Seq(STRING), Len(s) >= 2
  PROVE  SubSeq(s, 1, 2) = <<s[1], s[2]>>
  <1>1. PICK t, u : t = SubSeq(s, 1, 2) /\ u = <<s[1], s[2]>>
    OBVIOUS
  <1>2. s[1] \in STRING /\ s[2] \in STRING
    OBVIOUS
  <1>3. t \in Seq(STRING) /\ Len(t) = 2 /\ t[1] = s[1] /\ t[2] = s[2]
    BY <1>1
  <1>4. u \in Seq(STRING) /\ Len(u) = 2 /\ u[1] = s[1] /\ u[2] = s[2]
    BY <1>1, <1>2
  <1>5. \A i \in 1..Len(t) : t[i] = u[i]
    BY <1>3, <1>4
  <1> QED BY <1>1, <1>3, <1>4, <1>5, SeqEqual

(* for a comment to the end of the line                                     *)
LEMMA LineGap ==
  ASSUME src \in Seq(STRING), NEW a \in Offsets, NEW b \in Offsets, a + 2 <= b,
         CharAt(a) = "/", CharAt(a + 1) = "/", CharAt(b) = "\n" \/ b = Len(src),
         \A j \in a..(b - 1) : CharAt(j) # "\n"
  PROVE  IsGap(a, b)
  <1>1. PICK s : s = Slice(a, b)
    OBVIOUS
  <1>2. a \in Nat /\ b \in Nat /\ a <= b /\ b - a >= 2
    BY DEF Offsets
  <1>3. /\ s \in Seq(STRING) /\ Len(s) = b - a
        /\ \A k \in 1..(b - a) : s[k] = src[a + k] /\ CharAt(a + k - 1) = src[a + k]
    BY <1>1, <1>2, SliceFacts
  <1>4. s[1] = "/" /\ s[2] = "/"
    <2>1. 1 \in 1..(b - a) /\ 2 \in 1..(b - a) /\ a + 1 - 1 = a /\ a + 2 - 1 = a + 1
      BY <1>2
    <2> QED BY <2>1, <1>3
  <1>5. SubSeq(s, 1, 2) = <<"/", "/">>
    <2>1. Len(s) >= 2
      BY <1>2, <1>3
    <2>2. SubSeq(s, 1, 2) = <<s[1], s[2]>>
      BY <2>1, <1>3, FirstTwo
    <2> QED BY <2>2, <1>4
  <1>6. ~Contains(s, "\n")
    <2>1. ASSUME NEW k \in 1..(b - a) PROVE s[k] # "\n"
      <3>1. a + k - 1 \in a..(b - 1)
        BY <1>2
      <3> QED BY <3>1, <1>3
    <2> QED BY <2>1, <1>3 DEF Contains
  <1> QED BY <1>1, <1>2, <1>3, <1>5, <1>6 DEF IsGap

(* Where the characters of a comment stand in the text, ...                 *)
LEMMA PlacesInBlock ==
  \A x, y, m \in Nat : x + m = y + 2 =>
    \A z \in 3..(m - 1) : /\ z \in 1..m /\ z + 1 \in 1..m /\ x + (z + 1) - 1 = x + z - 1 + 1
                          /\ z = m - 1 => x + z - 1 = y
                          /\ z # m - 1 => x + z - 1 \in (x + 2)..(y - 1)
  OBVIOUS

(* and for one to the closing characters.                                   *)
LEMMA BlockGap ==
  ASSUME src \in Seq(STRING), NEW a \in Offsets, NEW b \in Offsets, a + 2 <= b,
         OpensBlock(a), CharAt(b) = "*", CharAt(b + 1) = "/",
         \A j \in (a + 2)..(b - 1) : ~(CharAt(j) = "*" /\ CharAt(j + 1) = "/")
  PROVE  b + 2 \in Offsets /\ IsGap(a, b + 2)
  <1>1. a \in Nat /\ b \in Nat /\ Len(src) \in Nat
    BY DEF Offsets
  <1>2. PICK d, s, n : d = b + 2 /\ s = Slice(a, d) /\ n = b + 2 - a
    OBVIOUS
  <1>3. d \in Offsets
    <2>1. b + 1 \in Nat
      BY <1>1
    <2>2. b + 1 < Len(src)
      BY <2>1, CharIn, NoCharIs
    <2> QED BY <2>2, <1>1, <1>2 DEF Offsets
  <1>4. a <= d /\ n = d - a /\ n \in Nat /\ n >= 4 /\ a + n = b + 2
    BY <1>1, <1>2
  <1>5. /\ s \in Seq(STRING) /\ Len(s) = n
        /\ \A k \in 1..n : s[k] = src[a + k] /\ CharAt(a + k - 1) = src[a + k]
    <2>1. /\ s \in Seq(STRING) /\ Len(s) = d - a
          /\ \A k \in 1..(d - a) : s[k] = src[a + k] /\ CharAt(a + k - 1) = src[a + k]
      BY <1>2, <1>3, <1>4, SliceFacts
    <2> QED BY <2>1, <1>4
  <1>6. \A k \in 1..n : s[k] = CharAt(a + k - 1)
    BY <1>5
  <1>7. SubSeq(s, 1, 2) = <<"/", "*">>
    <2>1. 1 \in 1..n /\ 2 \in 1..n /\ a + 1 - 1 = a /\ a + 2 - 1 = a + 1 /\ Len(s) >= 2
      BY <1>1, <1>4, <1>5
    <2>2. s[1] = "/" /\ s[2] = "*"
      BY <2>1, <1>6 DEF OpensBlock
    <2>3. SubSeq(s, 1, 2) = <<s[1], s[2]>>
      BY <2>1, <1>5, FirstTwo
    <2> QED BY <2>2, <2>3
  <1>8. ASSUME NEW k \in 3..(n - 1) PROVE (s[k] = "*" /\ s[k + 1] = "/") <=> k = n - 1
    <2>1. /\ k \in 1..n /\ k + 1 \in 1..n /\ a + (k + 1) - 1 = a + k - 1 + 1
          /\ k = n - 1 => a + k - 1 = b
          /\ k # n - 1 => a + k - 1 \in (a + 2)..(b - 1)
      BY <1>1, <1>4, PlacesInBlock
    <2>2. s[k] = CharAt(a + k - 1) /\ s[k + 1] = CharAt(a + k - 1 + 1)
      BY <2>1, <1>6
    <2>3. CASE k = n - 1
      BY <2>1, <2>2, <2>3
    <2>4. CASE k # n - 1
      BY <2>1, <2>2, <2>4
    <2> QED BY <2>3, <2>4
  <1>9. {k \in 3..(Len(s) - 1) : s[k] = "*" /\ s[k + 1] = "/"} = {Len(s) - 1}
    <2>1. n - 1 \in 3..(n - 1)
      BY <1>4
    <2> QED BY <2>1, <1>5, <1>8
  <1>10. IsGap(a, d)
    BY <1>2, <1>4, <1>5, <1>7, <1>9 DEF IsGap
  <1> QED BY <1>2, <1>3, <1>10

(* A comment that the text ends in is nothing at all.                       *)
LEMMA OpenBlock ==
  ASSUME src \in Seq(STRING), NEW a \in Offsets, OpensBlock(a),
         \A j \in (a + 2)..(Len(src) - 1) : ~(CharAt(j) = "*" /\ CharAt(j + 1) = "/")
  PROVE  \A b \in (a + 1)..Len(src) : ~IsGap(a, b) /\ \A k \in Kinds : ~Lexeme(k, a, b)
  <1>1. a \in Nat /\ Len(src) \in Nat /\ CharAt(a) = "/" /\ CharAt(a + 1) = "*"
    BY DEF Offsets, OpensBlock
  <1>2. "/" \notin Blanks /\ "/" # Quote /\ "/" \notin Alpha /\ "/" \notin DOMAIN Digits
        /\ "/" \notin DOMAIN Pairs
    BY Classes DEF Alnum
  <1>3. ASSUME NEW b \in (a + 1)..Len(src), IsGap(a, b) PROVE FALSE
    <2>1. b \in Offsets /\ a < b /\ b \in Nat /\ b <= Len(src)
      BY <1>1 DEF Offsets
    <2>2. b >= a + 4 /\ src[b - 1] = "*" /\ src[b] = "/"
      BY <2>1, <1>1, <1>2, <1>3, GapFirsts
    <2>3. /\ b - 2 \in (a + 2)..(Len(src) - 1) /\ b - 2 < Len(src) /\ b - 2 + 1 < Len(src)
          /\ b - 2 + 1 = b - 1 /\ b - 2 + 1 + 1 = b
      BY <2>1, <2>2, <1>1
    <2>4. CharAt(b - 2) = "*" /\ CharAt(b - 2 + 1) = "/"
      BY <2>2, <2>3 DEF CharAt
    <2> QED BY <2>3, <2>4
  <1>4. ASSUME NEW b \in (a + 1)..Len(src), NEW k \in Kinds, Lexeme(k, a, b) PROVE FALSE
    <2>1. b \in Offsets /\ a < b
      BY <1>1 DEF Offsets
    <2>2. k = "Symbol" /\ b = a + 1
      BY <2>1, <1>1, <1>2, <1>4, Firsts DEF Kinds
    <2>3. a < Len(src) /\ CharAt(b) = "*"
      BY <2>2, <1>1
    <2>4. PICK s : s = Slice(a, b)
      OBVIOUS
    <2>5. a <= b /\ b - a = 1
      BY <2>2, <1>1
    <2>6. s \in Seq(STRING) /\ Len(s) = b - a /\ \A i \in 1..(b - a) : s[i] = src[a + i]
      BY <2>1, <2>4, <2>5, SliceFacts
    <2>7. s[1] = "/"
      BY <2>3, <2>5, <2>6, <1>1 DEF CharAt
    <2>8. s = <<"/">>
      BY <2>5, <2>6, <2>7
    <2> QED BY <2>2, <2>3, <2>4, <2>8, <1>4 DEF Lexeme, IsLexeme
  <1> QED BY <1>3, <1>4

-----------------------------------------------------------------------------
(* The text stays as it is *)

(* No step changes what is said of the text alone.                          *)
LEMMA SameText ==
  ASSUME src' = src
  PROVE  /\ Offsets' = Offsets
         /\ \A a : CharAt(a)' = CharAt(a) /\ Where(a)' = Where(a) /\ Rest(a)' = Rest(a)
         /\ \A a, b : /\ Slice(a, b)' = Slice(a, b)
                      /\ (IsGap(a, b)' <=> IsGap(a, b)) /\ (Longest(a, b)' <=> Longest(a, b))
         /\ \A k, a, b : Lexeme(k, a, b)' <=> Lexeme(k, a, b)
         /\ \A ts, a : Covers(ts, a)' <=> Covers(ts, a)
         /\ \A a : OpensBlock(a)' <=> OpensBlock(a)
         /\ \A a, b : BadEscape(a, b)' <=> BadEscape(a, b)
  <1>1. Offsets' = Offsets /\ Len(src)' = Len(src)
    BY DEF Offsets
  <1>2. \A a, b : Slice(a, b)' = Slice(a, b)
    BY DEF Slice
  <1>3. \A a : CharAt(a)' = CharAt(a)
    BY DEF CharAt
  <1>4. \A a : Where(a)' = Where(a)
    BY DEF Where
  <1>5. \A a : Rest(a)' = Rest(a)
    BY <1>2 DEF Rest
  <1>6. ASSUME NEW a, NEW b PROVE IsGap(a, b)' <=> IsGap(a, b)
    <2>1. PICK s, c, n : s = Slice(a, b) /\ c = CharAt(b) /\ n = Len(src)
      OBVIOUS
    <2>2. Slice(a, b)' = s /\ CharAt(b)' = c /\ Len(src)' = n
      BY <2>1, <1>1, <1>2, <1>3
    <2> DEFINE Gap == \/ b = a + 1 /\ s[1] \in Blanks
                      \/ /\ Len(s) >= 2 /\ SubSeq(s, 1, 2) = <<"/", "/">>
                         /\ ~Contains(s, "\n") /\ (c = "\n" \/ b = n)
                      \/ /\ Len(s) >= 4 /\ SubSeq(s, 1, 2) = <<"/", "*">>
                         /\ {k \in 3..(Len(s) - 1) : s[k] = "*" /\ s[k + 1] = "/"} = {Len(s) - 1}
    <2>3. IsGap(a, b) <=> Gap
      BY <2>1, Zenon DEF IsGap
    <2>4. IsGap(a, b)' <=> Gap
      BY <2>2, Zenon DEF IsGap
    <2> QED BY <2>3, <2>4
  <1>7. \A a, b : Skipped(a, b)' <=> Skipped(a, b)
    BY <1>6 DEF Skipped
  <1>8. \A k, a, b : Lexeme(k, a, b)' <=> Lexeme(k, a, b)
    BY <1>2, <1>3 DEF Lexeme
  <1>9. \A a, b : Longest(a, b)' <=> Longest(a, b)
    BY <1>1, <1>8 DEF Longest
  <1>10. \A t, a, b : Denotes(t, a, b)' <=> Denotes(t, a, b)
    BY <1>2, <1>4, <1>8, <1>9 DEF Denotes
  <1>11. \A t : StartOf(t)' = StartOf(t)
    BY <1>1, <1>4 DEF StartOf
  <1>12. \A t : Ends(t)' = Ends(t)
    BY <1>1, <1>10, <1>11 DEF Ends
  <1>13. \A ts, a : Covers(ts, a)' <=> Covers(ts, a)
    BY <1>7, <1>11, <1>12 DEF Covers
  <1>14. \A a : OpensBlock(a)' <=> OpensBlock(a)
    BY <1>3 DEF OpensBlock
  <1>15. \A a, b : BadEscape(a, b)' <=> BadEscape(a, b)
    BY <1>2, <1>3 DEF BadEscape
  <1> QED BY <1>1, <1>2, <1>3, <1>4, <1>5, <1>6, <1>8, <1>9, <1>13, <1>14, <1>15

-----------------------------------------------------------------------------
(* The invariant *)

\* the characters of a value
Chars == STRING \cup {Escapes[c] : c \in DOMAIN Escapes}

TokenSet == [kind : Kinds \cup {"EndOfFile"}, text : Seq(Chars), value : 0..MaxInt,
             loc : [line : Nat, col : Nat]]

Loops == {"line", "block", "ident", "number", "string"}

\* the tokens so far are the text to offset a
Behind(a) == a \in Offsets /\ a <= pos /\ Covers(toks, a) /\ Len(toks) <= a

\* what each loop is in: it began at offset a, has come to p and gathered t
LineTo(a, p)      == /\ CharAt(a) = "/" /\ CharAt(a + 1) = "/"
                     /\ \A j \in a..(p - 1) : CharAt(j) # "\n"
BlockTo(a, p)     == /\ OpensBlock(a) /\ a + 2 <= p
                     /\ \A j \in (a + 2)..(p - 1) : ~(CharAt(j) = "*" /\ CharAt(j + 1) = "/")
WordTo(a, p, t)   == /\ CharAt(a) \in Alpha /\ t = Slice(a, p)
                     /\ \A i \in (a + 1)..p : Alnum(src[i])
NumberTo(a, p, t) == /\ CharAt(a) \in DOMAIN Digits /\ t = Slice(a, p)
                     /\ \A i \in (a + 1)..p : src[i] \in DOMAIN Digits
StringTo(a, p, t) == /\ CharAt(a) = Quote /\ a < p /\ Len(t) <= p - a
                     /\ WellTo(Rest(a), p - a) /\ ~Escaped(Rest(a), p - a + 1)
                     /\ SpellsTo(t, Rest(a), p - a)

Begun(m, a, p, t) == CASE m = "line"   -> LineTo(a, p)
                       [] m = "block"  -> BlockTo(a, p)
                       [] m = "ident"  -> WordTo(a, p, t)
                       [] m = "number" -> NumberTo(a, p, t)
                       [] m = "string" -> StringTo(a, p, t)

Shape ==
  /\ src \in Sources /\ pos \in Offsets /\ at = Where(pos)
  /\ mode \in Loops \cup {"trivia", "done", "failed", "crashed"}
  /\ text \in Seq(Chars) /\ Len(text) <= Len(src)
  /\ toks \in Seq(TokenSet) /\ Len(toks) <= Len(src) + 1
  /\ error.code \in Codes /\ (error.code # "none") = (mode = "failed")

LexInv ==
  /\ Shape
  /\ mode = "trivia" => Behind(pos)
  /\ mode \in Loops =>
       \E a \in Offsets : /\ Behind(a) /\ Begun(mode, a, pos, text)
                          /\ mode \in {"ident", "number", "string"} => start = Where(a)
  /\ TokensAreTheText /\ ErrorsAreReal /\ CrashMeansOverflow

(* A part of the text may be a value.                                       *)
LEMMA Widen ==
  ASSUME NEW s \in Seq(STRING)
  PROVE  s \in Seq(Chars)
  <1>1. \A i \in 1..Len(s) : s[i] \in Chars
    BY DEF Chars
  <1> QED BY <1>1

(* No token is worth more than an int64_t can hold.                         *)
LEMMA Values ==
  ASSUME NEW ts \in Seq(TokenSet)
  PROVE  \A i \in 1..Len(ts) : ts[i].value <= MaxInt
  <1>1. ASSUME NEW i \in 1..Len(ts) PROVE ts[i].value <= MaxInt
    <2>1. ts[i] \in TokenSet /\ MaxInt \in Nat
      BY LexerAssumption
    <2> QED BY <2>1 DEF TokenSet
  <1> QED BY <1>1

(* The state a step finds.                                                  *)
LEMMA ShapeFacts ==
  ASSUME Shape
  PROVE  /\ src \in Seq(STRING) /\ Len(src) \in Nat /\ pos \in Nat /\ pos <= Len(src)
         /\ Peek(0) = CharAt(pos) /\ Peek(1) = CharAt(pos + 1)
         /\ (AtEnd <=> pos = Len(src)) /\ MaxInt \in Nat
         /\ \A n \in 0..2 : pos + n <= Len(src) => pos + n \in Offsets /\ After(n) = Where(pos + n)
         /\ \A i \in 1..Len(toks) : toks[i].value <= MaxInt
  <1>1. src \in Seq(STRING) /\ MaxInt \in Nat
    BY LexerAssumption DEF Shape
  <1>2. Len(src) \in Nat /\ pos \in Nat /\ pos <= Len(src)
    BY <1>1 DEF Shape, Offsets
  <1>3. Peek(0) = CharAt(pos) /\ Peek(1) = CharAt(pos + 1)
    <2>1. pos + 0 = pos
      BY <1>2
    <2> QED BY <2>1 DEF Peek, CharAt
  <1>4. AtEnd <=> pos = Len(src)
    BY <1>2 DEF AtEnd
  <1>5. ASSUME NEW n \in 0..2, pos + n <= Len(src)
        PROVE  pos + n \in Offsets /\ After(n) = Where(pos + n)
    <2>1. pos + n \in Offsets
      BY <1>2, <1>5 DEF Offsets
    <2>2. at = Where(pos)
      BY DEF Shape
    <2>3. CASE n = 0
      <3>1. pos + n = pos
        BY <2>3, <1>2
      <3> QED BY <3>1, <2>1, <2>2, <2>3 DEF After
    <2>4. n # 0 => Step(at, Peek(0)) = Where(pos + 1)
      <3>1. n # 0 => pos < Len(src)
        BY <1>2, <1>5
      <3>2. n # 0 => Peek(0) = src[pos + 1]
        BY <3>1, <1>3 DEF CharAt
      <3> QED BY <3>2, <2>2, <1>2, WhereNext
    <2>5. CASE n = 1
      BY <2>1, <2>4, <2>5 DEF After
    <2>6. CASE n = 2
      <3>1. pos + 1 < Len(src) /\ pos + 1 \in Nat /\ pos + 1 + 1 = pos + 2
        BY <1>2, <1>5, <2>6
      <3>2. Peek(1) = src[pos + 1 + 1]
        BY <3>1, <1>3 DEF CharAt
      <3>3. Step(Where(pos + 1), src[pos + 1 + 1]) = Where(pos + 1 + 1)
        BY <3>1, WhereNext
      <3>4. After(2) = Step(Step(at, Peek(0)), Peek(1))
        BY DEF After
      <3> QED BY <3>1, <3>2, <3>3, <3>4, <2>1, <2>4, <2>6
    <2>7. n \in {0, 1, 2}
      BY <1>5
    <2> QED BY <2>3, <2>5, <2>6, <2>7
  <1>6. \A i \in 1..Len(toks) : toks[i].value <= MaxInt
    BY Values DEF Shape
  <1> QED BY <1>1, <1>2, <1>3, <1>4, <1>5, <1>6

(* The invariant holds behind a step that ends neither the text nor the     *)
(* scan.                                                                    *)
LEMMA GoesOn ==
  ASSUME Shape', mode' \in Loops \cup {"trivia"}, (mode = "trivia" => Behind(pos))',
         (mode \in Loops =>
            \E a \in Offsets : /\ Behind(a) /\ Begun(mode, a, pos, text)
                               /\ mode \in {"ident", "number", "string"} => start = Where(a))'
  PROVE  LexInv'
  <1>1. mode' \notin {"done", "failed", "crashed"}
    BY DEF Loops
  <1>2. TokensAreTheText' /\ ErrorsAreReal'
    BY <1>1 DEF TokensAreTheText, ErrorsAreReal
  <1>3. toks' \in Seq(TokenSet)
    BY DEF Shape
  <1>4. \A i \in 1..Len(toks') : toks'[i].value <= MaxInt
    BY <1>3, Values
  <1>5. CrashMeansOverflow'
    BY <1>1, <1>4 DEF CrashMeansOverflow
  <1> QED BY <1>2, <1>5 DEF LexInv

(* ... as one turn of a loop,                                               *)
LEMMA ReadsKeeps ==
  ASSUME LexInv, src' = src, mode \in Loops, NEW n \in 0..2, NEW t \in Seq(Chars), Reads(n, t),
         pos + n <= Len(src), Len(t) <= Len(src), NEW a \in Offsets, Behind(a),
         Begun(mode, a, pos + n, t), mode \in {"ident", "number", "string"} => start = Where(a)
  PROVE  LexInv'
  <1>1. Shape
    BY DEF LexInv
  <1>2. /\ src' = src /\ pos' = pos + n /\ at' = After(n) /\ text' = t /\ mode' = mode
        /\ start' = start /\ toks' = toks /\ error' = error
    BY DEF Reads, Advance
  <1>3. pos + n \in Offsets /\ After(n) = Where(pos + n) /\ pos \in Nat /\ Len(src) \in Nat
    BY <1>1, ShapeFacts
  <1>4. Offsets' = Offsets /\ (\A x : Where(x)' = Where(x)) /\ (\A ts, x : Covers(ts, x)' <=> Covers(ts, x))
        /\ (\A x : CharAt(x)' = CharAt(x) /\ Rest(x)' = Rest(x)) /\ (\A x, y : Slice(x, y)' = Slice(x, y))
        /\ (\A x : OpensBlock(x)' <=> OpensBlock(x))
    BY SameText
  <1>5. Shape'
    <2>1. at' = Where(pos)'
      BY <1>2, <1>3, <1>4
    <2> QED BY <2>1, <1>1, <1>2, <1>3, <1>4 DEF Shape
  <1>6. Behind(a)'
    <2>1. a \in Nat /\ a <= pos /\ a <= pos + n
      BY <1>3 DEF Behind, Offsets
    <2> QED BY <2>1, <1>2, <1>4 DEF Behind
  <1>7. Begun(mode, a, pos, text)'
    BY <1>2, <1>4 DEF Begun, LineTo, BlockTo, WordTo, NumberTo, StringTo
  <1>8. mode' # "trivia" /\ mode' \in Loops
    BY <1>2 DEF Loops
  <1>9. (mode \in {"ident", "number", "string"} => start = Where(a))'
    BY <1>2, <1>4
  <1> QED BY <1>4, <1>5, <1>6, <1>7, <1>8, <1>9, GoesOn

(* the beginning of one,                                                    *)
LEMMA EntersKeeps ==
  ASSUME LexInv, src' = src, mode = "trivia", NEW m \in Loops, NEW n \in 0..2, Enters(m, n),
         pos + n <= Len(src), Begun(m, pos, pos + n, <<>>)
  PROVE  LexInv'
  <1>1. Shape /\ Behind(pos)
    BY DEF LexInv
  <1>2. /\ src' = src /\ pos' = pos + n /\ at' = After(n) /\ text' = <<>> /\ mode' = m
        /\ start' = at /\ toks' = toks /\ error' = error
    BY DEF Enters, Advance
  <1>3. pos + n \in Offsets /\ After(n) = Where(pos + n) /\ pos \in Nat /\ Len(src) \in Nat
    BY <1>1, ShapeFacts
  <1>4. Offsets' = Offsets /\ (\A x : Where(x)' = Where(x)) /\ (\A ts, x : Covers(ts, x)' <=> Covers(ts, x))
        /\ (\A x : CharAt(x)' = CharAt(x) /\ Rest(x)' = Rest(x)) /\ (\A x, y : Slice(x, y)' = Slice(x, y))
        /\ (\A x : OpensBlock(x)' <=> OpensBlock(x))
    BY SameText
  <1>5. PICK a : a = pos
    OBVIOUS
  <1>6. a \in Offsets /\ at = Where(a) /\ Covers(toks, a) /\ Len(toks) <= a
    BY <1>1, <1>5 DEF Shape, Behind
  <1>7. mode' # "trivia" /\ mode' \in Loops /\ mode' # "failed" /\ mode # "failed"
    BY <1>2 DEF Loops
  <1>8. Shape'
    <2>1. at' = Where(pos)'
      BY <1>2, <1>3, <1>4
    <2>2. <<>> \in Seq(Chars) /\ Len(<<>>) = 0
      OBVIOUS
    <2>3. text' \in Seq(Chars) /\ Len(text)' <= Len(src)'
      BY <1>2, <1>3, <2>2
    <2> QED BY <2>1, <2>3, <1>1, <1>2, <1>3, <1>4, <1>7 DEF Shape
  <1>9. Behind(a)'
    <2>1. a <= pos + n
      BY <1>3, <1>5
    <2> QED BY <2>1, <1>2, <1>4, <1>6 DEF Behind
  <1>10. Begun(m, a, pos + n, <<>>)
    BY <1>5
  <1>11. Begun(mode, a, pos, text)'
    BY <1>10, <1>2, <1>4 DEF Begun, LineTo, BlockTo, WordTo, NumberTo, StringTo
  <1>12. start' = Where(a)'
    BY <1>2, <1>4, <1>6
  <1> QED BY <1>4, <1>6, <1>7, <1>8, <1>9, <1>11, <1>12, GoesOn

(* the end of a comment,                                                    *)
LEMMA GapKeeps ==
  ASSUME LexInv, src' = src, mode # "failed", NEW n \in 0..2, Advance(n), mode' = "trivia",
         text' \in {text, <<>>}, UNCHANGED <<toks, error>>, pos + n <= Len(src),
         NEW a \in Offsets, Behind(a), a < pos + n, IsGap(a, pos + n)
  PROVE  LexInv'
  <1>1. Shape
    BY DEF LexInv
  <1>2. pos' = pos + n /\ at' = After(n)
    BY DEF Advance
  <1>3. pos + n \in Offsets /\ After(n) = Where(pos + n) /\ src \in Seq(STRING) /\ Len(src) \in Nat
    BY <1>1, ShapeFacts
  <1>4. Offsets' = Offsets /\ (\A x : Where(x)' = Where(x)) /\ (\A ts, x : Covers(ts, x)' <=> Covers(ts, x))
    BY SameText
  <1>5. toks \in Seq(TokenSet) /\ Covers(toks, a) /\ Len(toks) <= a
    BY <1>1 DEF Shape, Behind
  <1>6. Covers(toks, pos + n)
    BY <1>3, <1>5, CoversGap
  <1>7. Shape'
    <2>1. at' = Where(pos)'
      BY <1>2, <1>3, <1>4
    <2>2. <<>> \in Seq(Chars) /\ Len(<<>>) = 0
      OBVIOUS
    <2>3. text' \in Seq(Chars) /\ Len(text)' <= Len(src)'
      <3>1. CASE text' = text
        BY <3>1, <1>1 DEF Shape
      <3>2. CASE text' = <<>>
        BY <3>2, <1>3, <2>2
      <3> QED BY <3>1, <3>2
    <2> QED BY <2>1, <2>3, <1>1, <1>2, <1>3, <1>4 DEF Shape
  <1>8. Behind(pos)'
    <2>1. PICK b : b = pos + n
      OBVIOUS
    <2>2. pos' = b /\ b \in Offsets' /\ Covers(toks, b)' /\ b \in Nat /\ a \in Nat /\ a < b
      BY <2>1, <1>2, <1>3, <1>4, <1>6 DEF Offsets
    <2>3. Len(toks') <= b /\ b <= pos'
      <3>1. Len(toks) \in Nat
        BY <1>5
      <3> QED BY <3>1, <2>2, <1>5
    <2> QED BY <2>2, <2>3 DEF Behind
  <1>9. mode' \notin Loops
    BY DEF Loops
  <1> QED BY <1>7, <1>8, <1>9, GoesOn

(* or a token.                                                              *)
LEMMA PushKeeps ==
  ASSUME LexInv, src' = src, mode # "failed", NEW n \in 0..2, NEW k \in Kinds, NEW t \in Seq(Chars),
         NEW v \in 0..MaxInt, NEW l, Push(k, t, v, l, n), pos + n <= Len(src),
         NEW a \in Offsets, Behind(a), a < pos + n, l = Where(a),
         Lexeme(k, a, pos + n), Longest(a, pos + n),
         IF k = "StringLiteral" THEN Spells(t, Slice(a, pos + n)) ELSE t = Slice(a, pos + n),
         v = IF k = "IntLiteral" THEN NumberOf(Slice(a, pos + n)) ELSE 0
  PROVE  LexInv'
  <1>1. Shape
    BY DEF LexInv
  <1>2. PICK b, u : b = pos + n /\ u = Token(k, t, v, l)
    OBVIOUS
  <1>3. /\ pos' = b /\ at' = After(n) /\ toks' = Append(toks, u) /\ mode' = "trivia"
        /\ text' = <<>> /\ error' = error
    BY <1>2 DEF Push, Advance
  <1>4. b \in Offsets /\ After(n) = Where(b) /\ src \in Seq(STRING) /\ Len(src) \in Nat
    BY <1>1, <1>2, ShapeFacts
  <1>5. Offsets' = Offsets /\ (\A x : Where(x)' = Where(x)) /\ (\A ts, x : Covers(ts, x)' <=> Covers(ts, x))
    BY SameText
  <1>6. /\ toks \in Seq(TokenSet) /\ Covers(toks, a) /\ Len(toks) <= a /\ Len(toks) \in Nat
        /\ a \in Nat /\ b \in Nat /\ a < b /\ b <= Len(src)
    BY <1>1, <1>2, <1>4 DEF Shape, Behind, Offsets
  <1>7. u \in TokenSet /\ u.kind = k /\ u.text = t /\ u.value = v /\ u.loc = l
    <2>1. Where(a) \in [line : Nat, col : Nat]
      <3>1. \A i \in 1..(a + 1) : i \in Nat
        OBVIOUS
      <3> QED BY <3>1, <1>6, WhereType
    <2> QED BY <2>1, <1>2 DEF Token, TokenSet
  <1>8. Denotes(u, a, b)
    BY <1>2, <1>7 DEF Denotes
  <1>9. Covers(Append(toks, u), b)
    BY <1>4, <1>6, <1>7, <1>8, CoversToken
  <1>10. Append(toks, u) \in Seq(TokenSet) /\ Len(Append(toks, u)) = Len(toks) + 1
    BY <1>6, <1>7
  <1>11. Len(toks') <= b /\ Len(toks') <= Len(src) + 1
    BY <1>3, <1>4, <1>6, <1>10
  <1>12. Shape'
    <2>1. at' = Where(pos)'
      BY <1>3, <1>4, <1>5
    <2>2. <<>> \in Seq(Chars) /\ Len(<<>>) = 0
      OBVIOUS
    <2>3. text' \in Seq(Chars) /\ Len(text)' <= Len(src)'
      BY <1>3, <1>4, <2>2
    <2> QED BY <2>1, <2>3, <1>1, <1>3, <1>4, <1>5, <1>10, <1>11 DEF Shape
  <1>13. Behind(pos)'
    <2>1. Covers(toks, b)'
      BY <1>3, <1>5, <1>9
    <2> QED BY <2>1, <1>3, <1>4, <1>5, <1>6, <1>11 DEF Behind
  <1>14. mode' \notin Loops
    BY <1>3 DEF Loops
  <1> QED BY <1>3, <1>12, <1>13, <1>14, GoesOn

(* A text is refused where nothing starts.                                  *)
LEMMA ErrKeeps ==
  ASSUME LexInv, src' = src, NEW n \in 0..2, NEW code \in Codes \ {"none"}, Err(code, n),
         pos + n <= Len(src), NEW a \in Offsets, Behind(a), a < Len(src),
         Reason(code, Where(pos + n), a),
         \A b \in (a + 1)..Len(src) : ~IsGap(a, b) /\ \A k \in Kinds : ~Lexeme(k, a, b)
  PROVE  LexInv'
  <1>1. Shape
    BY DEF LexInv
  <1>2. PICK l : l = Where(pos + n)
    OBVIOUS
  <1>3. pos + n \in Offsets /\ After(n) = l /\ Len(src) \in Nat
    BY <1>1, <1>2, ShapeFacts
  <1>4. /\ pos' = pos + n /\ at' = l /\ toks' = toks /\ mode' = "failed"
        /\ text' = text /\ error' = [code |-> code, loc |-> l]
    BY <1>3 DEF Err, Advance
  <1>5. /\ Offsets' = Offsets /\ (\A x : Where(x)' = Where(x)) /\ (\A x : CharAt(x)' = CharAt(x))
        /\ (\A ts, x : Covers(ts, x)' <=> Covers(ts, x)) /\ (\A x, y : IsGap(x, y)' <=> IsGap(x, y))
        /\ (\A x, y, z : Lexeme(x, y, z)' <=> Lexeme(x, y, z))
        /\ (\A x : OpensBlock(x)' <=> OpensBlock(x)) /\ (\A x, y : BadEscape(x, y)' <=> BadEscape(x, y))
    BY SameText
  <1>6. error'.code = code /\ error'.loc = l
    BY <1>4
  <1>7. Shape'
    <2>1. at' = Where(pos)'
      BY <1>2, <1>4, <1>5
    <2> QED BY <2>1, <1>1, <1>3, <1>4, <1>5, <1>6 DEF Shape
  <1>8. Reason(code, l, a)'
    BY <1>2, <1>5 DEF Reason
  <1>9. Reason(error.code, error.loc, a)'
    BY <1>6, <1>8
  <1>10. ErrorsAreReal'
    <2>1. Covers(toks, a)'
      BY <1>4, <1>5 DEF Behind
    <2> QED BY <2>1, <1>5, <1>9 DEF ErrorsAreReal
  <1>11. \A i \in 1..Len(toks') : toks'[i].value <= MaxInt
    BY <1>1, <1>4, ShapeFacts
  <1>12. mode' \notin Loops /\ mode' # "trivia" /\ TokensAreTheText' /\ CrashMeansOverflow'
    BY <1>4, <1>11 DEF Loops, TokensAreTheText, CrashMeansOverflow
  <1> QED BY <1>7, <1>10, <1>12 DEF LexInv

-----------------------------------------------------------------------------
(* The steps *)

(* The scan begins with nothing read.                                       *)
LEMMA LexStarts == Init => LexInv
  <1> SUFFICES ASSUME Init PROVE LexInv
    OBVIOUS
  <1>1. src \in Seq(STRING) /\ Len(src) \in Nat
    BY LexerAssumption DEF Init
  <1>2. 0 \in Offsets /\ <<>> \in Seq(Chars) /\ <<>> \in Seq(TokenSet) /\ Len(<<>>) = 0
    BY <1>1 DEF Offsets
  <1>3. Where(0) = NoLoc
    <2>1. Cardinality(Newlines(0)) \in 0..0 /\ Max(Newlines(0) \cup {0}) \in 0..0
      BY NewlineFacts
    <2>2. Cardinality(Newlines(0)) = 0 /\ Max(Newlines(0) \cup {0}) = 0
      BY <2>1
    <2>3. Where(0) = [line |-> 0 + 1, col |-> 0 + 1 - 0]
      BY <2>2 DEF Where, Newlines
    <2> QED BY <2>3 DEF NoLoc
  <1>4. Shape
    BY <1>1, <1>2, <1>3 DEF Init, Shape, Codes
  <1>5. Behind(pos)
    BY <1>2, CoversNothing DEF Init, Behind
  <1>6. mode \notin Loops /\ mode = "trivia"
    BY DEF Init, Loops
  <1>7. TokensAreTheText /\ ErrorsAreReal /\ CrashMeansOverflow
    <2>1. toks = <<>> /\ Len(toks) = 0 /\ 1..0 = {}
      BY <1>2 DEF Init
    <2> QED BY <1>6, <2>1 DEF TokensAreTheText, ErrorsAreReal, CrashMeansOverflow
  <1> QED BY <1>4, <1>5, <1>6, <1>7 DEF LexInv

(* What a loop finds is what it has begun.                                  *)
LEMMA InLoop ==
  ASSUME LexInv, mode \in Loops
  PROVE  \E a \in Offsets : /\ Behind(a) /\ Begun(mode, a, pos, text)
                            /\ mode \in {"ident", "number", "string"} => start = Where(a)
  BY DEF LexInv

(* A blank is a gap.                                                        *)
LEMMA SkipBlankKeeps == LexInv /\ SkipBlank => LexInv'
  <1> SUFFICES ASSUME LexInv, SkipBlank PROVE LexInv'
    OBVIOUS
  <1>1. /\ src' = src /\ mode = "trivia" /\ Peek(0) \in Blanks /\ Advance(1) /\ text' = text
        /\ mode' = mode /\ UNCHANGED <<toks, error>>
    BY DEF SkipBlank, In, Reads
  <1>2. Shape /\ Behind(pos)
    BY <1>1 DEF LexInv
  <1>3. src \in Seq(STRING) /\ CharAt(pos) \in Blanks /\ pos \in Nat /\ Len(src) \in Nat /\ pos \in Offsets
    BY <1>1, <1>2, ShapeFacts DEF Shape
  <1>4. pos + 1 \in Offsets /\ IsGap(pos, pos + 1)
    BY <1>3, BlankGap
  <1>5. pos + 1 <= Len(src) /\ pos < pos + 1
    BY <1>3, <1>4 DEF Offsets
  <1> QED BY <1>1, <1>2, <1>3, <1>4, <1>5, GapKeeps

(* A comment begins with its two characters.                                *)
LEMMA EnterCommentKeeps == LexInv /\ EnterComment => LexInv'
  <1> SUFFICES ASSUME LexInv, EnterComment PROVE LexInv'
    OBVIOUS
  <1>1. src' = src /\ mode = "trivia" /\ CommentAt
    BY DEF EnterComment, In
  <1>2. Shape
    BY DEF LexInv
  <1>3. /\ src \in Seq(STRING) /\ pos \in Nat /\ Len(src) \in Nat /\ pos <= Len(src)
        /\ CharAt(pos) = "/" /\ CharAt(pos + 1) \in {"/", "*"}
        /\ Peek(1) = CharAt(pos + 1)
    BY <1>1, <1>2, ShapeFacts DEF CommentAt
  <1>4. CASE Peek(1) = "/"
    <2>1. Enters("line", 0)
      BY <1>4 DEF EnterComment
    <2>2. pos + 0 <= Len(src) /\ pos..(pos + 0 - 1) = {}
      BY <1>3
    <2>3. Begun("line", pos, pos + 0, <<>>)
      BY <2>2, <1>3, <1>4 DEF Begun, LineTo
    <2>4. "line" \in Loops /\ 0 \in 0..2
      BY DEF Loops
    <2> QED BY <2>1, <2>2, <2>3, <2>4, <1>1, EntersKeeps
  <1>5. CASE Peek(1) # "/"
    <2>1. Enters("block", 2)
      BY <1>5 DEF EnterComment
    <2>2. CharAt(pos + 1) = "*"
      BY <1>3, <1>5
    <2>3. pos + 2 <= Len(src) /\ (pos + 2)..(pos + 2 - 1) = {} /\ pos + 2 <= pos + 2
      <3>1. pos + 1 < Len(src)
        <4>1. pos + 1 \in Nat
          BY <1>3
        <4> QED BY <4>1, <2>2, <1>3, CharIn, NoCharIs
      <3> QED BY <3>1, <1>3
    <2>4. Begun("block", pos, pos + 2, <<>>)
      BY <2>2, <2>3, <1>3 DEF Begun, BlockTo, OpensBlock
    <2>5. "block" \in Loops /\ 2 \in 0..2
      BY DEF Loops
    <2> QED BY <2>1, <2>3, <2>4, <2>5, <1>1, EntersKeeps
  <1> QED BY <1>4, <1>5

(* A comment runs to the end of its line.                                   *)
LEMMA InLineKeeps == LexInv /\ InLine => LexInv'
  <1> SUFFICES ASSUME LexInv, InLine PROVE LexInv'
    OBVIOUS
  <1>1. src' = src /\ mode = "line" /\ mode \in Loops /\ Shape
    BY DEF InLine, In, LexInv, Loops
  <1>2. PICK a \in Offsets : Behind(a) /\ Begun("line", a, pos, text)
    BY <1>1, InLoop
  <1>3. /\ CharAt(a) = "/" /\ CharAt(a + 1) = "/"
        /\ \A j \in a..(pos - 1) : CharAt(j) # "\n"
    BY <1>2 DEF Begun, LineTo
  <1>4. /\ src \in Seq(STRING) /\ pos \in Nat /\ Len(src) \in Nat /\ pos <= Len(src)
        /\ Peek(0) = CharAt(pos) /\ (AtEnd <=> pos = Len(src)) /\ pos \in Offsets
        /\ text \in Seq(Chars) /\ Len(text) <= Len(src)
    BY <1>1, ShapeFacts DEF Shape
  <1>5. a \in Nat /\ a <= pos
    BY <1>2 DEF Behind, Offsets
  <1>6. CASE AtEnd \/ Peek(0) = "\n"
    <2>1. Enters("trivia", 0)
      BY <1>6 DEF InLine
    <2>2. a + 2 <= pos
      <3>1. pos # a
        BY <1>3, <1>4, <1>6, CharIn, NoCharIs
      <3>2. pos # a + 1
        BY <1>3, <1>4, <1>6, CharIn, NoCharIs
      <3> QED BY <3>1, <3>2, <1>4, <1>5
    <2>3. CharAt(pos) = "\n" \/ pos = Len(src)
      BY <1>4, <1>6
    <2>4. IsGap(a, pos)
      BY <2>2, <2>3, <1>3, <1>4, LineGap
    <2>5. pos + 0 = pos /\ a < pos + 0 /\ 0 \in 0..2 /\ pos + 0 <= Len(src)
      BY <2>2, <1>4, <1>5
    <2>6. Advance(0) /\ mode' = "trivia" /\ text' \in {text, <<>>} /\ UNCHANGED <<toks, error>>
      BY <2>1 DEF Enters
    <2> QED BY <2>4, <2>5, <2>6, <1>1, <1>2, GapKeeps
  <1>7. CASE ~(AtEnd \/ Peek(0) = "\n")
    <2>1. Reads(1, text)
      BY <1>7 DEF InLine
    <2>2. \A j \in a..pos : CharAt(j) # "\n"
      <3>1. \A j \in a..pos : j \in a..(pos - 1) \/ j = pos
        BY <1>4, <1>5
      <3> QED BY <3>1, <1>3, <1>4, <1>7
    <2>3. Begun(mode, a, pos + 1, text)
      <3>1. PICK q : q = pos + 1
        OBVIOUS
      <3>2. q - 1 = pos
        BY <3>1, <1>4
      <3>3. LineTo(a, q)
        BY <2>2, <3>2, <1>3 DEF LineTo
      <3> QED BY <3>1, <3>3, <1>1 DEF Begun
    <2>4. pos + 1 <= Len(src) /\ 1 \in 0..2
      BY <1>4, <1>7
    <2> QED BY <2>1, <2>3, <2>4, <1>1, <1>2, <1>4, ReadsKeeps
  <1> QED BY <1>6, <1>7

(* A comment runs to the characters that close it, or is open for ever.     *)
LEMMA InBlockKeeps == LexInv /\ InBlock => LexInv'
  <1> SUFFICES ASSUME LexInv, InBlock PROVE LexInv'
    OBVIOUS
  <1>1. src' = src /\ mode = "block" /\ mode \in Loops /\ Shape
    BY DEF InBlock, In, LexInv, Loops
  <1>2. PICK a \in Offsets : Behind(a) /\ Begun("block", a, pos, text)
    BY <1>1, InLoop
  <1>3. /\ OpensBlock(a) /\ a + 2 <= pos
        /\ \A j \in (a + 2)..(pos - 1) : ~(CharAt(j) = "*" /\ CharAt(j + 1) = "/")
    BY <1>2 DEF Begun, BlockTo
  <1>4. /\ src \in Seq(STRING) /\ pos \in Nat /\ Len(src) \in Nat /\ pos <= Len(src)
        /\ Peek(0) = CharAt(pos) /\ Peek(1) = CharAt(pos + 1) /\ (AtEnd <=> pos = Len(src))
        /\ pos \in Offsets /\ text \in Seq(Chars) /\ Len(text) <= Len(src)
    BY <1>1, ShapeFacts DEF Shape
  <1>5. a \in Nat /\ a <= pos /\ a < Len(src)
    BY <1>2, <1>3, <1>4 DEF Behind, Offsets
  <1>6. CASE AtEnd
    <2>1. Err("UnterminatedComment", 0)
      BY <1>6 DEF InBlock
    <2>2. pos = Len(src) /\ pos + 0 = Len(src) /\ pos + 0 <= Len(src) /\ 0 \in 0..2
      BY <1>4, <1>6
    <2>3. \A b \in (a + 1)..Len(src) : ~IsGap(a, b) /\ \A k \in Kinds : ~Lexeme(k, a, b)
      BY <2>2, <1>3, <1>4, OpenBlock
    <2>4. Reason("UnterminatedComment", Where(pos + 0), a)
      BY <2>2, <1>3 DEF Reason
    <2>5. "UnterminatedComment" \in Codes \ {"none"}
      BY DEF Codes
    <2> QED BY <2>1, <2>2, <2>3, <2>4, <2>5, <1>1, <1>2, <1>5, ErrKeeps
  <1>7. CASE ~AtEnd /\ Peek(0) = "*" /\ Peek(1) = "/"
    <2>1. Enters("trivia", 2)
      BY <1>7 DEF InBlock
    <2>2. pos + 2 \in Offsets /\ IsGap(a, pos + 2)
      BY <1>3, <1>4, <1>7, BlockGap
    <2>3. pos + 2 <= Len(src) /\ a < pos + 2 /\ 2 \in 0..2
      BY <2>2, <1>4, <1>5 DEF Offsets
    <2>4. Advance(2) /\ mode' = "trivia" /\ text' \in {text, <<>>} /\ UNCHANGED <<toks, error>>
      BY <2>1 DEF Enters
    <2> QED BY <2>2, <2>3, <2>4, <1>1, <1>2, GapKeeps
  <1>8. CASE ~AtEnd /\ ~(Peek(0) = "*" /\ Peek(1) = "/")
    <2>1. Reads(1, text)
      BY <1>8 DEF InBlock
    <2>2. \A j \in (a + 2)..pos : ~(CharAt(j) = "*" /\ CharAt(j + 1) = "/")
      <3>1. \A j \in (a + 2)..pos : j \in (a + 2)..(pos - 1) \/ j = pos
        BY <1>4, <1>5
      <3> QED BY <3>1, <1>3, <1>4, <1>8
    <2>3. a + 2 <= pos + 1
      BY <1>3, <1>4, <1>5
    <2>4. Begun(mode, a, pos + 1, text)
      <3>1. PICK q : q = pos + 1
        OBVIOUS
      <3>2. q - 1 = pos
        BY <3>1, <1>4
      <3>3. BlockTo(a, q)
        BY <2>2, <2>3, <3>1, <3>2, <1>3 DEF BlockTo
      <3> QED BY <3>1, <3>3, <1>1 DEF Begun
    <2>5. pos + 1 <= Len(src) /\ 1 \in 0..2
      BY <1>4, <1>8
    <2> QED BY <2>1, <2>4, <2>5, <1>1, <1>2, <1>4, ReadsKeeps
  <1> QED BY <1>6, <1>7, <1>8

(* A word, a number or a string begins at its first character.              *)
LEMMA BeginKeeps == LexInv /\ (BeginIdent \/ BeginNumber \/ BeginString) => LexInv'
  <1> SUFFICES ASSUME LexInv, BeginIdent \/ BeginNumber \/ BeginString PROVE LexInv'
    OBVIOUS
  <1>1. src' = src /\ mode = "trivia" /\ Shape /\ ~AtEnd
    BY DEF BeginIdent, BeginNumber, BeginString, AtToken, In, LexInv
  <1>2. /\ src \in Seq(STRING) /\ pos \in Nat /\ Len(src) \in Nat /\ pos < Len(src)
        /\ Peek(0) = CharAt(pos) /\ pos \in Offsets /\ pos + 1 <= Len(src) /\ pos + 0 = pos
        /\ pos <= pos
    <2>1. /\ src \in Seq(STRING) /\ pos \in Nat /\ Len(src) \in Nat /\ pos <= Len(src)
          /\ Peek(0) = CharAt(pos) /\ (AtEnd <=> pos = Len(src)) /\ pos \in Offsets
      BY <1>1, ShapeFacts DEF Shape
    <2> QED BY <2>1, <1>1
  <1>3. Slice(pos, pos) = <<>> /\ (pos + 1)..pos = {}
    <2>1. Len(Slice(pos, pos)) = pos - pos /\ Slice(pos, pos) \in Seq(STRING)
      BY <1>2, SliceFacts
    <2>2. PICK s : s = Slice(pos, pos)
      OBVIOUS
    <2>3. s \in Seq(STRING) /\ Len(s) = 0
      BY <2>1, <2>2, <1>2
    <2>4. s = <<>>
      BY <2>3
    <2> QED BY <2>2, <2>4, <1>2
  <1>4. "ident" \in Loops /\ "number" \in Loops /\ "string" \in Loops /\ 0 \in 0..2 /\ 1 \in 0..2
    BY DEF Loops
  <1>5. CASE BeginIdent
    <2>1. Enters("ident", 0) /\ CharAt(pos) \in Alpha
      BY <1>2, <1>5 DEF BeginIdent
    <2>2. Begun("ident", pos, pos + 0, <<>>)
      BY <2>1, <1>2, <1>3 DEF Begun, WordTo
    <2> QED BY <2>1, <2>2, <1>1, <1>2, <1>4, EntersKeeps
  <1>6. CASE BeginNumber
    <2>1. Enters("number", 0) /\ CharAt(pos) \in DOMAIN Digits
      BY <1>2, <1>6 DEF BeginNumber
    <2>2. Begun("number", pos, pos + 0, <<>>)
      BY <2>1, <1>2, <1>3 DEF Begun, NumberTo
    <2> QED BY <2>1, <2>2, <1>1, <1>2, <1>4, EntersKeeps
  <1>7. CASE BeginString
    <2>1. Enters("string", 1) /\ CharAt(pos) = Quote
      BY <1>2, <1>7 DEF BeginString
    <2>2. PICK r : r = Rest(pos)
      OBVIOUS
    <2>3. pos + 1 - pos = 1 /\ 1 + 1 = 2 /\ pos < pos + 1 /\ Len(<<>>) = 0
      BY <1>2
    <2>4. r[1] = Quote
      <3>1. Len(src) \in Offsets /\ pos <= Len(src) /\ 1 \in 1..(Len(src) - pos)
        BY <1>2 DEF Offsets
      <3>2. \A k \in 1..(Len(src) - pos) : r[k] = src[pos + k]
        BY <2>2, <3>1, <1>2, SliceFacts DEF Rest
      <3>3. r[1] = src[pos + 1]
        BY <3>1, <3>2
      <3> QED BY <3>3, <2>1, <1>2 DEF CharAt
    <2>5. ~Escaped(r, 1 + 1)
      <3>1. 1 \in Nat \ {0} /\ r[1] # "\\"
        BY <2>4, Classes
      <3> QED BY <3>1, EscapedNext
    <2>6. WellTo(r, 1) /\ SpellsTo(<<>>, r, 1)
      BY SpellsNothing
    <2>7. Begun("string", pos, pos + 1, <<>>)
      <3>1. PICK q : q = pos + 1
        OBVIOUS
      <3>2. q - pos = 1 /\ q - pos + 1 = 1 + 1 /\ pos < q /\ Len(<<>>) <= 1
        BY <2>3, <3>1, <1>2
      <3>3. StringTo(pos, q, <<>>)
        BY <2>1, <2>2, <2>5, <2>6, <3>2 DEF StringTo
      <3> QED BY <3>1, <3>3 DEF Begun
    <2> QED BY <2>1, <2>7, <1>1, <1>2, <1>4, EntersKeeps
  <1> QED BY <1>5, <1>6, <1>7

(* One character more of a slice.                                           *)
LEMMA SliceNext ==
  ASSUME src \in Seq(STRING), NEW a \in Offsets, NEW b \in Offsets, a <= b, b < Len(src)
  PROVE  /\ b + 1 \in Offsets /\ CharAt(b) = src[b + 1] /\ src[b + 1] \in STRING
         /\ Slice(a, b + 1) = Append(Slice(a, b), CharAt(b))
         /\ Append(Slice(a, b), CharAt(b)) \in Seq(Chars)
         /\ Len(Append(Slice(a, b), CharAt(b))) <= Len(src)
  <1>1. /\ a \in Nat /\ b \in Nat /\ Len(src) \in Nat /\ b + 1 \in Offsets
        /\ CharAt(b) = src[b + 1] /\ src[b + 1] \in STRING /\ b + 1 <= Len(src)
    BY DEF Offsets, CharAt
  <1>2. PICK d, s, t, u : /\ d = b + 1 /\ s = Slice(a, b) /\ t = Slice(a, d)
                          /\ u = Append(s, src[b + 1])
    OBVIOUS
  <1>3. d \in Offsets /\ a <= d /\ d - a = b - a + 1 /\ a + (b - a + 1) = b + 1
    BY <1>1, <1>2
  <1>4. s \in Seq(STRING) /\ Len(s) = b - a /\ \A k \in 1..(b - a) : s[k] = src[a + k]
    BY <1>2, SliceFacts
  <1>5. t \in Seq(STRING) /\ Len(t) = d - a /\ \A k \in 1..(d - a) : t[k] = src[a + k]
    BY <1>2, <1>3, SliceFacts
  <1>6. u \in Seq(STRING) /\ Len(u) = b - a + 1
    BY <1>1, <1>2, <1>4
  <1>7. ASSUME NEW k \in 1..(b - a + 1) PROVE t[k] = u[k]
    <2>1. t[k] = src[a + k]
      BY <1>3, <1>5
    <2>2. CASE k = b - a + 1
      <3>1. u[Len(s) + 1] = src[b + 1] /\ k = Len(s) + 1 /\ a + k = b + 1
        BY <2>2, <1>2, <1>3, <1>4
      <3> QED BY <2>1, <3>1
    <2>3. CASE k # b - a + 1
      <3>1. k \in 1..(b - a)
        BY <2>3, <1>1
      <3>2. u[k] = s[k] /\ s[k] = src[a + k]
        BY <3>1, <1>1, <1>2, <1>4
      <3> QED BY <2>1, <3>2
    <2> QED BY <2>2, <2>3
  <1>8. t = u
    <2>1. Len(t) = Len(u) /\ \A k \in 1..Len(t) : t[k] = u[k]
      BY <1>3, <1>5, <1>6, <1>7
    <2> QED BY <2>1, <1>5, <1>6, SeqEqual
  <1>9. Len(u) <= Len(src)
    BY <1>1, <1>6
  <1> QED BY <1>1, <1>2, <1>6, <1>8, <1>9, Widen

(* A word and a number go on with one more character of theirs.             *)
LEMMA InWordKeeps == LexInv /\ (InIdent \/ InNumber) => LexInv'
  <1> SUFFICES ASSUME LexInv, InIdent \/ InNumber PROVE LexInv'
    OBVIOUS
  <1>1. src' = src /\ mode \in Loops /\ Shape /\ ~AtEnd /\ Reads(1, Append(text, Peek(0)))
    BY DEF InIdent, InNumber, In, LexInv, Loops
  <1>2. PICK a \in Offsets : /\ Behind(a) /\ Begun(mode, a, pos, text)
                             /\ mode \in {"ident", "number", "string"} => start = Where(a)
    BY <1>1, InLoop
  <1>3. /\ src \in Seq(STRING) /\ pos \in Nat /\ Len(src) \in Nat /\ pos <= Len(src)
        /\ Peek(0) = CharAt(pos) /\ (AtEnd <=> pos = Len(src)) /\ pos \in Offsets
    BY <1>1, ShapeFacts DEF Shape
  <1>4. a \in Nat /\ a <= pos /\ pos < Len(src) /\ pos + 1 <= Len(src) /\ 1 \in 0..2
    BY <1>1, <1>2, <1>3 DEF Behind, Offsets
  <1>5. PICK q, t : q = pos + 1 /\ t = Append(Slice(a, pos), CharAt(pos))
    OBVIOUS
  <1>6. /\ CharAt(pos) = src[q] /\ Slice(a, q) = t /\ t \in Seq(Chars) /\ Len(t) <= Len(src)
    BY <1>3, <1>4, <1>5, SliceNext
  <1>7. \A i \in (a + 1)..q : i \in (a + 1)..pos \/ i = q
    BY <1>4, <1>3, <1>5
  <1>8. CASE InIdent
    <2>1. mode = "ident" /\ Alnum(CharAt(pos))
      BY <1>3, <1>8 DEF InIdent, In
    <2>2. WordTo(a, pos, text)
      BY <2>1, <1>2 DEF Begun
    <2>3. text = Slice(a, pos)
      BY <2>2 DEF WordTo
    <2>4. WordTo(a, q, t)
      BY <2>1, <2>2, <1>6, <1>7 DEF WordTo
    <2>5. Begun(mode, a, pos + 1, t)
      BY <2>1, <2>4, <1>5 DEF Begun
    <2>6. Reads(1, t)
      BY <2>3, <1>1, <1>3, <1>5
    <2> QED BY <2>5, <2>6, <1>1, <1>2, <1>4, <1>6, ReadsKeeps
  <1>9. CASE InNumber
    <2>1. mode = "number" /\ CharAt(pos) \in DOMAIN Digits
      BY <1>3, <1>9 DEF InNumber, In
    <2>2. NumberTo(a, pos, text)
      BY <2>1, <1>2 DEF Begun
    <2>3. text = Slice(a, pos)
      BY <2>2 DEF NumberTo
    <2>4. NumberTo(a, q, t)
      BY <2>1, <2>2, <1>6, <1>7 DEF NumberTo
    <2>5. Begun(mode, a, pos + 1, t)
      BY <2>1, <2>4, <1>5 DEF Begun
    <2>6. Reads(1, t)
      BY <2>3, <1>1, <1>3, <1>5
    <2> QED BY <2>5, <2>6, <1>1, <1>2, <1>4, <1>6, ReadsKeeps
  <1> QED BY <1>8, <1>9

(* A word ends as a return, a keyword or a name.                            *)
LEMMA EndIdentKeeps == LexInv /\ EndIdent => LexInv'
  <1> SUFFICES ASSUME LexInv, EndIdent PROVE LexInv'
    OBVIOUS
  <1>1. src' = src /\ mode = "ident" /\ mode \in Loops /\ Shape /\ mode # "failed"
    BY DEF EndIdent, In, LexInv, Loops
  <1>2. PICK a \in Offsets : Behind(a) /\ Begun("ident", a, pos, text) /\ start = Where(a)
    BY <1>1, InLoop
  <1>3. /\ CharAt(a) \in Alpha /\ text = Slice(a, pos)
        /\ \A i \in (a + 1)..pos : Alnum(src[i])
    BY <1>2 DEF Begun, WordTo
  <1>4. /\ src \in Seq(STRING) /\ pos \in Nat /\ Len(src) \in Nat /\ pos <= Len(src)
        /\ Peek(0) = CharAt(pos) /\ Peek(1) = CharAt(pos + 1) /\ (AtEnd <=> pos = Len(src))
        /\ pos \in Offsets /\ text \in Seq(Chars) /\ MaxInt \in Nat
    BY <1>1, ShapeFacts DEF Shape
  <1>5. pos = Len(src) \/ ~Alnum(CharAt(pos))
    BY <1>4 DEF EndIdent
  <1>6. a \in Nat /\ a <= pos /\ a < pos
    <2>1. a \in Nat /\ a <= pos
      BY <1>2 DEF Behind, Offsets
    <2>2. a < Len(src) /\ Alnum(CharAt(a))
      <3>1. a < Len(src)
        BY <2>1, <1>3, <1>4, CharIn, NoCharIs
      <3> QED BY <3>1, <1>3 DEF Alnum
    <2>3. a # pos
      BY <2>2, <1>5
    <2> QED BY <2>1, <2>3, <1>4
  <1>7. 0 \in 0..2 /\ 1 \in 0..2 /\ 0 \in 0..MaxInt /\ pos + 0 = pos /\ "KwReturn" \in Kinds
        /\ "Keyword" \in Kinds /\ "Identifier" \in Kinds
    BY <1>4 DEF Kinds
  <1>8. CASE text \in ReturnWords /\ Peek(0) = "/" /\ Peek(1) \notin {"/", "*"}
    <2>1. Push("KwReturn", Append(text, "/"), 0, start, 1)
      BY <1>8 DEF EndIdent
    <2>2. /\ pos + 1 \in Offsets /\ Lexeme("KwReturn", a, pos + 1) /\ Longest(a, pos + 1)
          /\ Slice(a, pos + 1) = Append(text, "/")
      BY <1>3, <1>4, <1>5, <1>6, <1>8, ReturnLexeme
    <2>3. pos + 1 <= Len(src) /\ a < pos + 1
      BY <2>2, <1>4, <1>6 DEF Offsets
    <2>4. Append(text, "/") \in Seq(Chars)
      <3>1. PICK c, s : c = pos + 1 /\ s = Slice(a, c)
        OBVIOUS
      <3>2. c \in Offsets /\ a <= c
        BY <2>2, <3>1, <1>4, <1>6
      <3>3. s \in Seq(STRING)
        BY <3>1, <3>2, <1>4, SliceFacts
      <3> QED BY <2>2, <3>1, <3>3, Widen
    <2> QED BY <2>1, <2>2, <2>3, <2>4, <1>1, <1>2, <1>7, PushKeeps
  <1>9. CASE ~(text \in ReturnWords /\ Peek(0) = "/" /\ Peek(1) \notin {"/", "*"})
    <2>1. PICK k : k = IF text \in Keywords THEN "Keyword" ELSE "Identifier"
      OBVIOUS
    <2>2. Push(k, text, 0, start, 0) /\ k \in Kinds /\ k \notin {"StringLiteral", "IntLiteral"}
      BY <2>1, <1>7, <1>9 DEF EndIdent
    <2>3. Lexeme(k, a, pos) /\ Longest(a, pos)
      BY <2>1, <1>3, <1>4, <1>5, <1>6, <1>9, WordLexeme
    <2> QED BY <2>2, <2>3, <1>1, <1>2, <1>3, <1>4, <1>6, <1>7, PushKeeps
  <1> QED BY <1>8, <1>9

(* A number ends as a token, or the compiler with it.                       *)
LEMMA EndNumberKeeps == LexInv /\ EndNumber => LexInv'
  <1> SUFFICES ASSUME LexInv, EndNumber PROVE LexInv'
    OBVIOUS
  <1>1. src' = src /\ mode = "number" /\ mode \in Loops /\ Shape /\ mode # "failed"
    BY DEF EndNumber, In, LexInv, Loops
  <1>2. PICK a \in Offsets : Behind(a) /\ Begun("number", a, pos, text) /\ start = Where(a)
    BY <1>1, InLoop
  <1>3. /\ CharAt(a) \in DOMAIN Digits /\ text = Slice(a, pos)
        /\ \A i \in (a + 1)..pos : src[i] \in DOMAIN Digits
    BY <1>2 DEF Begun, NumberTo
  <1>4. /\ src \in Seq(STRING) /\ pos \in Nat /\ Len(src) \in Nat /\ pos <= Len(src)
        /\ Peek(0) = CharAt(pos) /\ (AtEnd <=> pos = Len(src))
        /\ pos \in Offsets /\ text \in Seq(Chars) /\ MaxInt \in Nat
    BY <1>1, ShapeFacts DEF Shape
  <1>5. pos = Len(src) \/ CharAt(pos) \notin DOMAIN Digits
    BY <1>4 DEF EndNumber
  <1>6. a \in Nat /\ a <= pos /\ a < pos
    <2>1. a \in Nat /\ a <= pos
      BY <1>2 DEF Behind, Offsets
    <2>2. a < Len(src)
      BY <2>1, <1>3, <1>4, CharIn, NoCharIs
    <2>3. a # pos
      BY <2>2, <1>3, <1>5
    <2> QED BY <2>1, <2>3, <1>4
  <1>7. Lexeme("IntLiteral", a, pos) /\ Longest(a, pos)
    BY <1>3, <1>4, <1>5, <1>6, NumberLexeme
  <1>8. Stoll(text) = NumberOf(Slice(a, pos)) /\ Stoll(text) \in Nat
    <2>1. ASSUME NEW i \in 1..Len(text) PROVE text[i] \in DOMAIN Digits
      <3>1. Len(text) = pos - a /\ \A k \in 1..(pos - a) : text[k] = src[a + k]
        BY <1>3, <1>4, <1>6, SliceFacts
      <3>2. a + i \in (a + 1)..pos
        BY <3>1, <1>4, <1>6
      <3> QED BY <3>1, <3>2, <1>3
    <2>2. text \in Seq(STRING)
      BY <1>3, <1>4, <1>6, SliceFacts
    <2>3. Stoll(text) = NumberOf(text) /\ Stoll(text) \in Nat
      BY <2>1, <2>2, StollFacts
    <2> QED BY <2>3, <1>3
  <1>9. CASE Stoll(text) <= MaxInt
    <2>1. Push("IntLiteral", text, Stoll(text), start, 0)
      BY <1>9 DEF EndNumber
    <2>2. PICK v : v = Stoll(text)
      OBVIOUS
    <2>3. v \in 0..MaxInt /\ v = NumberOf(Slice(a, pos))
      BY <2>2, <1>4, <1>8, <1>9
    <2>4. 0 \in 0..2 /\ pos + 0 = pos /\ "IntLiteral" \in Kinds
      BY <1>4 DEF Kinds
    <2> QED BY <2>1, <2>2, <2>3, <2>4, <1>1, <1>2, <1>3, <1>4, <1>6, <1>7, PushKeeps
  <1>10. CASE ~(Stoll(text) <= MaxInt)
    <2>1. mode' = "crashed" /\ UNCHANGED <<src, pos, at, text, start, toks, error>>
      BY <1>1, <1>10 DEF EndNumber
    <2>2. /\ Offsets' = Offsets /\ (\A x : Where(x)' = Where(x))
          /\ (\A ts, x : Covers(ts, x)' <=> Covers(ts, x))
          /\ (\A x, y : Slice(x, y)' = Slice(x, y)) /\ (\A x, y : Longest(x, y)' <=> Longest(x, y))
          /\ (\A x, y, z : Lexeme(x, y, z)' <=> Lexeme(x, y, z))
      BY <1>1, SameText
    <2>3. Shape'
      BY <2>1, <2>2, <1>1 DEF Shape
    <2>4. NumberOf(Slice(a, pos)) > MaxInt
      BY <1>4, <1>8, <1>10
    <2>5. \E b \in Offsets' : /\ a < b /\ Covers(toks, a)' /\ Lexeme("IntLiteral", a, b)'
                              /\ Longest(a, b)' /\ NumberOf(Slice(a, b)') > MaxInt
      BY <2>1, <2>2, <2>4, <1>2, <1>4, <1>6, <1>7 DEF Behind
    <2>6. \A i \in 1..Len(toks') : toks'[i].value <= MaxInt
      BY <2>1, <1>1, ShapeFacts
    <2>7. CrashMeansOverflow'
      BY <2>2, <2>5, <2>6 DEF CrashMeansOverflow
    <2>8. mode' \notin Loops /\ mode' # "trivia" /\ TokensAreTheText' /\ ErrorsAreReal'
      BY <2>1 DEF Loops, TokensAreTheText, ErrorsAreReal
    <2> QED BY <2>3, <2>7, <2>8 DEF LexInv
  <1> QED BY <1>9, <1>10

(* What the loop of str knows.                                              *)
LEMMA StringFacts ==
  ASSUME LexInv, mode = "string"
  PROVE  \E a \in Offsets :
           /\ Behind(a) /\ start = Where(a) /\ StringTo(a, pos, text) /\ CharAt(a) = Quote
           /\ a < Len(src) /\ pos - a \in Nat \ {0}
           /\ \A i \in 1..(Len(src) - a) : Rest(a)[i] = CharAt(a + i - 1)
  <1>1. mode \in Loops /\ Shape
    BY DEF Loops, LexInv
  <1>2. PICK a \in Offsets : Behind(a) /\ Begun("string", a, pos, text) /\ start = Where(a)
    BY <1>1, InLoop
  <1>3. StringTo(a, pos, text) /\ CharAt(a) = Quote /\ a < pos
    BY <1>2 DEF Begun, StringTo
  <1>4. /\ src \in Seq(STRING) /\ pos \in Nat /\ Len(src) \in Nat /\ pos <= Len(src)
    BY <1>1, ShapeFacts
  <1>5. a \in Nat /\ a < Len(src) /\ pos - a \in Nat \ {0} /\ Len(src) \in Offsets /\ a <= Len(src)
    BY <1>3, <1>4 DEF Offsets
  <1>6. \A i \in 1..(Len(src) - a) : Rest(a)[i] = CharAt(a + i - 1)
    BY <1>4, <1>5, SliceFacts DEF Rest
  <1> QED BY <1>2, <1>3, <1>5, <1>6

(* A string goes on with one character,                                     *)
LEMMA InStringKeeps == LexInv /\ InString => LexInv'
  <1> SUFFICES ASSUME LexInv, InString PROVE LexInv'
    OBVIOUS
  <1>1. /\ src' = src /\ mode = "string" /\ mode \in Loops /\ Shape /\ ~AtEnd
        /\ Reads(1, Append(text, Peek(0)))
    BY DEF InString, In, LexInv, Loops
  <1>2. PICK a \in Offsets :
           /\ Behind(a) /\ start = Where(a) /\ StringTo(a, pos, text) /\ CharAt(a) = Quote
           /\ a < Len(src) /\ pos - a \in Nat \ {0}
           /\ \A i \in 1..(Len(src) - a) : Rest(a)[i] = CharAt(a + i - 1)
    BY <1>1, StringFacts
  <1>3. /\ src \in Seq(STRING) /\ pos \in Nat /\ Len(src) \in Nat /\ pos < Len(src)
        /\ Peek(0) = CharAt(pos) /\ text \in Seq(Chars) /\ a \in Nat
    <2>1. /\ src \in Seq(STRING) /\ pos \in Nat /\ Len(src) \in Nat /\ pos <= Len(src)
          /\ Peek(0) = CharAt(pos) /\ (AtEnd <=> pos = Len(src)) /\ text \in Seq(Chars)
      BY <1>1, ShapeFacts DEF Shape
    <2>2. a \in Nat
      BY DEF Offsets
    <2> QED BY <2>1, <2>2, <1>1
  <1>4. PICK n, q, c, r : n = pos - a /\ q = pos + 1 /\ c = CharAt(pos) /\ r = Rest(a)
    OBVIOUS
  <1>5. /\ n \in Nat \ {0} /\ n + 1 \in 1..(Len(src) - a) /\ a + (n + 1) - 1 = pos
        /\ q - a = n + 1 /\ q - a + 1 = n + 2 /\ a < q /\ q <= Len(src)
    BY <1>2, <1>3, <1>4
  <1>6. r[n + 1] = c
    BY <1>2, <1>4, <1>5
  <1>7. WellTo(r, n) /\ ~Escaped(r, n + 1) /\ SpellsTo(text, r, n) /\ Len(text) <= n
    BY <1>2, <1>4 DEF StringTo
  <1>8. c \in Chars /\ c \notin {Quote, "\\"}
    <2>1. c \in STRING
      <3>1. c = src[pos + 1] /\ pos + 1 \in 1..Len(src)
        BY <1>3, <1>4 DEF CharAt
      <3> QED BY <3>1, <1>3
    <2> QED BY <2>1, <1>3, <1>4 DEF InString, Chars
  <1>9. WellTo(r, n + 1) /\ ~Escaped(r, n + 2) /\ SpellsTo(Append(text, c), r, n + 1)
    BY <1>3, <1>5, <1>6, <1>7, <1>8, PlainChar
  <1>10. Append(text, c) \in Seq(Chars) /\ Len(Append(text, c)) = Len(text) + 1 /\ Len(text) \in Nat
    BY <1>3, <1>8
  <1>11. Len(Append(text, c)) <= n + 1 /\ Len(Append(text, c)) <= Len(src)
    BY <1>3, <1>5, <1>7, <1>10
  <1>12. StringTo(a, q, Append(text, c))
    BY <1>2, <1>4, <1>5, <1>9, <1>11 DEF StringTo
  <1>13. Begun(mode, a, pos + 1, Append(text, c))
    BY <1>1, <1>4, <1>12 DEF Begun
  <1>14. Reads(1, Append(text, c)) /\ pos + 1 <= Len(src) /\ 1 \in 0..2
    BY <1>1, <1>3, <1>4
  <1> QED BY <1>1, <1>2, <1>10, <1>11, <1>13, <1>14, ReadsKeeps

(* or with the two of an escape, which may be the end of it;                *)
LEMMA InEscapeKeeps == LexInv /\ InEscape => LexInv'
  <1> SUFFICES ASSUME LexInv, InEscape PROVE LexInv'
    OBVIOUS
  <1>1. src' = src /\ mode = "string" /\ mode \in Loops /\ Shape
    BY DEF InEscape, In, LexInv, Loops
  <1>2. PICK a \in Offsets :
           /\ Behind(a) /\ start = Where(a) /\ StringTo(a, pos, text) /\ CharAt(a) = Quote
           /\ a < Len(src) /\ pos - a \in Nat \ {0}
           /\ \A i \in 1..(Len(src) - a) : Rest(a)[i] = CharAt(a + i - 1)
    BY <1>1, StringFacts
  <1>3. /\ src \in Seq(STRING) /\ pos \in Nat /\ Len(src) \in Nat /\ pos < Len(src)
        /\ CharAt(pos) = "\\" /\ Peek(1) = CharAt(pos + 1) /\ text \in Seq(Chars) /\ a \in Nat
        /\ pos \in Offsets
    <2>1. /\ src \in Seq(STRING) /\ pos \in Nat /\ Len(src) \in Nat /\ pos <= Len(src)
          /\ Peek(0) = CharAt(pos) /\ Peek(1) = CharAt(pos + 1) /\ text \in Seq(Chars)
          /\ pos \in Offsets
      BY <1>1, ShapeFacts DEF Shape
    <2>2. a \in Nat
      BY DEF Offsets
    <2>3. CharAt(pos) = "\\"
      BY <2>1 DEF InEscape
    <2>4. pos < Len(src)
      BY <2>1, <2>3, CharIn, NoCharIs
    <2> QED BY <2>1, <2>2, <2>3, <2>4
  <1>4. PICK n, q, d, r : n = pos - a /\ q = pos + 2 /\ d = CharAt(pos + 1) /\ r = Rest(a)
    OBVIOUS
  <1>5. /\ n \in Nat \ {0} /\ n + 1 \in 1..(Len(src) - a) /\ a + (n + 1) - 1 = pos
        /\ q - a = n + 2 /\ q - a + 1 = n + 3 /\ a < q
    BY <1>2, <1>3, <1>4
  <1>6. r[n + 1] = "\\"
    BY <1>2, <1>3, <1>4, <1>5
  <1>7. WellTo(r, n) /\ ~Escaped(r, n + 1) /\ SpellsTo(text, r, n) /\ Len(text) <= n
    BY <1>2, <1>4 DEF StringTo
  <1>8. /\ WellTo(r, n + 1) /\ Escaped(r, n + 2)
        /\ \A T : \A t \in Seq(T), x \in T :
             SpellsTo(t, r, n) /\ r[n + 2] \in DOMAIN Escapes /\ x = Escapes[r[n + 2]]
               => /\ WellTo(r, n + 2) /\ ~Escaped(r, n + 3)
                  /\ SpellsTo(Append(t, x), r, n + 2)
    BY <1>5, <1>6, <1>7, EscapedChar
  <1>9. CASE pos + 1 >= Len(src)
    <2>1. Err("UnterminatedString", 1)
      BY <1>9 DEF InEscape
    <2>2. pos + 1 = Len(src) /\ n + 1 = Len(src) - a /\ n + 1 \in Nat \ {0}
      BY <1>3, <1>4, <1>5, <1>9
    <2>3. \A b \in (a + 1)..Len(src) : ~IsGap(a, b) /\ \A k \in Kinds : ~Lexeme(k, a, b)
      BY <2>2, <1>2, <1>3, <1>4, <1>8, NoString
    <2>4. Reason("UnterminatedString", Where(pos + 1), a)
      BY <2>2, <1>2 DEF Reason
    <2>5. "UnterminatedString" \in Codes \ {"none"} /\ pos + 1 <= Len(src) /\ 1 \in 0..2
      BY <2>2, <1>3 DEF Codes
    <2> QED BY <2>1, <2>3, <2>4, <2>5, <1>1, <1>2, ErrKeeps
  <1>10. ASSUME ~(pos + 1 >= Len(src))
         PROVE  /\ q \in Offsets /\ q <= Len(src) /\ r[n + 2] = d /\ pos + 2 <= Len(src) /\ 2 \in 0..2
    <2>1. /\ n + 2 \in 1..(Len(src) - a) /\ a + (n + 2) - 1 = pos + 1 /\ q <= Len(src)
          /\ q \in Offsets
      BY <1>3, <1>4, <1>5, <1>10 DEF Offsets
    <2>2. r[n + 2] = d
      BY <2>1, <1>2, <1>4
    <2> QED BY <2>1, <2>2, <1>4
  <1>11. CASE ~(pos + 1 >= Len(src)) /\ d \in DOMAIN Escapes
    <2>1. PICK x, t : x = Escapes[d] /\ t = Append(text, x)
      OBVIOUS
    <2>2. Reads(2, t)
      BY <2>1, <1>3, <1>4, <1>11 DEF InEscape
    <2>3. x \in Chars
      BY <2>1, <1>11 DEF Chars
    <2>4. WellTo(r, n + 2) /\ ~Escaped(r, n + 3) /\ SpellsTo(t, r, n + 2)
      BY <2>1, <2>3, <1>3, <1>7, <1>8, <1>10, <1>11
    <2>5. t \in Seq(Chars) /\ Len(t) = Len(text) + 1 /\ Len(text) \in Nat
      BY <2>1, <2>3, <1>3
    <2>6. Len(t) <= n + 2 /\ Len(t) <= Len(src)
      BY <2>5, <1>3, <1>5, <1>7
    <2>7. StringTo(a, q, t)
      BY <2>4, <2>6, <1>2, <1>4, <1>5 DEF StringTo
    <2>8. Begun(mode, a, pos + 2, t)
      BY <2>7, <1>1, <1>4 DEF Begun
    <2> QED BY <2>2, <2>5, <2>6, <2>8, <1>1, <1>2, <1>10, <1>11, ReadsKeeps
  <1>12. CASE ~(pos + 1 >= Len(src)) /\ d \notin DOMAIN Escapes
    <2>1. Err("BadEscapeSequence", 2)
      BY <1>3, <1>4, <1>12 DEF InEscape
    <2>2. Escaped(r, n + 1 + 1) /\ r[n + 1 + 1] \notin DOMAIN Escapes /\ n + 1 \in Nat \ {0}
      <3>1. n + 1 + 1 = n + 2
        BY <1>5
      <3> QED BY <3>1, <1>5, <1>8, <1>10, <1>12
    <2>3. \A b \in (a + 1)..Len(src) : ~IsGap(a, b) /\ \A k \in Kinds : ~Lexeme(k, a, b)
      BY <2>2, <1>2, <1>3, <1>4, <1>8, NoString
    <2>4. BadEscape(a, q)
      <3>1. q - 2 = pos /\ q - 1 = pos + 1 /\ q - a >= 3 /\ q - a - 1 = n + 1
        BY <1>3, <1>4, <1>5
      <3>2. ~Escaped(Slice(a, q), n + 1)
        <4>1. PICK s : s = Slice(a, q)
          OBVIOUS
        <4>2. a <= q /\ Len(src) \in Offsets /\ a <= Len(src)
          BY <1>2, <1>3, <1>4 DEF Offsets
        <4>3. \A i \in 1..(q - a) : s[i] = src[a + i]
          BY <4>1, <4>2, <1>3, <1>10, <1>12, SliceFacts
        <4>4. \A i \in 1..(Len(src) - a) : r[i] = src[a + i]
          BY <4>2, <1>3, <1>4, SliceFacts DEF Rest
        <4>5. \A i \in 1..(n + 1 - 1) : i \in 1..(q - a) /\ i \in 1..(Len(src) - a)
          BY <1>3, <1>5
        <4>6. \A i \in 1..(n + 1 - 1) : s[i] = r[i]
          BY <4>3, <4>4, <4>5
        <4>7. PICK m : m = n + 1
          OBVIOUS
        <4>8. m \in Nat /\ (\A i \in 1..(m - 1) : s[i] = r[i]) /\ ~Escaped(r, m)
          BY <4>6, <4>7, <1>5, <1>7
        <4>9. ~Escaped(s, m)
          BY <4>8, EscapedSame
        <4> QED BY <4>1, <4>7, <4>9
      <3> QED BY <3>1, <3>2, <1>3, <1>4, <1>12 DEF BadEscape
    <2>5. Reason("BadEscapeSequence", Where(pos + 2), a)
      BY <2>4, <1>2, <1>4, <1>10, <1>12 DEF Reason
    <2>6. "BadEscapeSequence" \in Codes \ {"none"}
      BY DEF Codes
    <2> QED BY <2>1, <2>3, <2>5, <2>6, <1>1, <1>2, <1>10, <1>12, ErrKeeps
  <1> QED BY <1>9, <1>11, <1>12

(* its end is a quote, or that of the file.                                 *)
LEMMA EndStringKeeps == LexInv /\ EndString => LexInv'
  <1> SUFFICES ASSUME LexInv, EndString PROVE LexInv'
    OBVIOUS
  <1>1. src' = src /\ mode = "string" /\ mode # "failed" /\ Shape
    BY DEF EndString, In, LexInv
  <1>2. PICK a \in Offsets :
           /\ Behind(a) /\ start = Where(a) /\ StringTo(a, pos, text) /\ CharAt(a) = Quote
           /\ a < Len(src) /\ pos - a \in Nat \ {0}
           /\ \A i \in 1..(Len(src) - a) : Rest(a)[i] = CharAt(a + i - 1)
    BY <1>1, StringFacts
  <1>3. /\ src \in Seq(STRING) /\ pos \in Nat /\ Len(src) \in Nat /\ pos <= Len(src)
        /\ Peek(0) = CharAt(pos) /\ (AtEnd <=> pos = Len(src)) /\ pos \in Offsets
        /\ text \in Seq(Chars) /\ MaxInt \in Nat
    BY <1>1, ShapeFacts DEF Shape
  <1>4. /\ WellTo(Rest(a), pos - a) /\ ~Escaped(Rest(a), pos - a + 1)
        /\ SpellsTo(text, Rest(a), pos - a) /\ a < pos
    BY <1>2 DEF StringTo
  <1>5. CASE AtEnd
    <2>1. Err("UnterminatedString", 0)
      BY <1>5 DEF EndString
    <2>2. pos = Len(src) /\ pos + 0 = Len(src) /\ pos + 0 <= Len(src) /\ 0 \in 0..2
      BY <1>3, <1>5
    <2>3. PICK n : n = pos - a
      OBVIOUS
    <2>4. n \in Nat \ {0} /\ n = Len(src) - a /\ WellTo(Rest(a), n)
      BY <2>2, <2>3, <1>2, <1>4
    <2>5. \A b \in (a + 1)..Len(src) : ~IsGap(a, b) /\ \A k \in Kinds : ~Lexeme(k, a, b)
      BY <2>4, <1>2, <1>3, NoString
    <2>6. Reason("UnterminatedString", Where(pos + 0), a)
      BY <2>2, <1>2 DEF Reason
    <2>7. "UnterminatedString" \in Codes \ {"none"}
      BY DEF Codes
    <2> QED BY <2>1, <2>2, <2>5, <2>6, <2>7, <1>1, <1>2, ErrKeeps
  <1>6. CASE ~AtEnd
    <2>1. Push("StringLiteral", text, 0, start, 1) /\ CharAt(pos) = Quote
      BY <1>3, <1>6 DEF EndString
    <2>2. pos < Len(src) /\ pos + 1 <= Len(src) /\ a < pos + 1 /\ 1 \in 0..2 /\ 0 \in 0..MaxInt
      BY <1>3, <1>4, <1>6 DEF Offsets
    <2>3. /\ Lexeme("StringLiteral", a, pos + 1) /\ Longest(a, pos + 1)
          /\ Spells(text, Slice(a, pos + 1))
      BY <2>1, <2>2, <1>2, <1>3, <1>4, StringLexeme
    <2>4. "StringLiteral" \in Kinds
      BY DEF Kinds
    <2> QED BY <2>1, <2>2, <2>3, <2>4, <1>1, <1>2, <1>3, PushKeeps
  <1> QED BY <1>5, <1>6

(* A symbol is a token, and anything else a mistake.                        *)
LEMMA SymbolKeeps == LexInv /\ Symbol => LexInv'
  <1> SUFFICES ASSUME LexInv, Symbol PROVE LexInv'
    OBVIOUS
  <1>1. src' = src /\ mode = "trivia" /\ mode # "failed" /\ Shape /\ Behind(pos)
    BY DEF Symbol, AtToken, In, LexInv
  <1>2. /\ src \in Seq(STRING) /\ pos \in Nat /\ Len(src) \in Nat /\ pos < Len(src)
        /\ Peek(0) = CharAt(pos) /\ Peek(1) = CharAt(pos + 1) /\ pos \in Offsets /\ MaxInt \in Nat
        /\ at = Where(pos)
    <2>1. /\ src \in Seq(STRING) /\ pos \in Nat /\ Len(src) \in Nat /\ pos <= Len(src)
          /\ Peek(0) = CharAt(pos) /\ Peek(1) = CharAt(pos + 1) /\ (AtEnd <=> pos = Len(src))
          /\ pos \in Offsets /\ MaxInt \in Nat /\ at = Where(pos)
      BY <1>1, ShapeFacts DEF Shape
    <2>2. ~AtEnd
      BY DEF Symbol, AtToken
    <2> QED BY <2>1, <2>2
  <1>3. /\ CharAt(pos) \notin Blanks /\ ~(CharAt(pos) = "/" /\ CharAt(pos + 1) \in {"/", "*"})
        /\ ~Alnum(CharAt(pos)) /\ CharAt(pos) # Quote
    BY <1>2 DEF Symbol, AtToken, CommentAt
  <1>4. PICK a : a = pos
    OBVIOUS
  <1>5. a \in Offsets /\ Behind(a) /\ a < Len(src) /\ at = Where(a)
    BY <1>1, <1>2, <1>4
  <1>6. 0 \in 0..2 /\ 1 \in 0..2 /\ 2 \in 0..2 /\ 0 \in 0..MaxInt /\ "Symbol" \in Kinds
    BY <1>2 DEF Kinds
  <1>7. CASE CharAt(pos) \in DOMAIN Pairs /\ Pairs[CharAt(pos)] = CharAt(pos + 1)
    <2>1. Push("Symbol", <<CharAt(pos), CharAt(pos + 1)>>, 0, at, 2)
      BY <1>2, <1>7 DEF Symbol
    <2>2. /\ pos + 2 \in Offsets /\ Lexeme("Symbol", pos, pos + 2) /\ Longest(pos, pos + 2)
          /\ Slice(pos, pos + 2) = <<CharAt(pos), CharAt(pos + 1)>>
      BY <1>2, <1>3, <1>7, SymbolLexeme
    <2>3. pos + 2 <= Len(src) /\ pos < pos + 2
      BY <2>2, <1>2 DEF Offsets
    <2>4. PICK t : t = <<CharAt(pos), CharAt(pos + 1)>>
      OBVIOUS
    <2>5. t \in Seq(Chars)
      <3>1. PICK d, s : d = pos + 2 /\ s = Slice(pos, d)
        OBVIOUS
      <3>2. d \in Offsets /\ pos <= d
        BY <2>2, <3>1, <1>2
      <3>3. s \in Seq(STRING)
        BY <3>1, <3>2, <1>2, SliceFacts
      <3> QED BY <2>2, <2>4, <3>1, <3>3, Widen
    <2>6. Push("Symbol", t, 0, at, 2) /\ t = Slice(a, pos + 2)
      BY <2>1, <2>2, <2>4, <1>4
    <2> QED BY <2>2, <2>3, <2>5, <2>6, <1>1, <1>4, <1>5, <1>6, PushKeeps
  <1>8. CASE /\ ~(CharAt(pos) \in DOMAIN Pairs /\ Pairs[CharAt(pos)] = CharAt(pos + 1))
             /\ CharAt(pos) \in Single
    <2>1. Push("Symbol", <<CharAt(pos)>>, 0, at, 1)
      BY <1>2, <1>8 DEF Symbol
    <2>2. /\ Lexeme("Symbol", pos, pos + 1) /\ Longest(pos, pos + 1)
          /\ Slice(pos, pos + 1) = <<CharAt(pos)>>
      BY <1>2, <1>3, <1>8, SymbolLexeme
    <2>3. pos + 1 <= Len(src) /\ pos < pos + 1
      BY <1>2
    <2>4. PICK t : t = <<CharAt(pos)>>
      OBVIOUS
    <2>5. t \in Seq(Chars)
      <3>1. PICK d, s : d = pos + 1 /\ s = Slice(pos, d)
        OBVIOUS
      <3>2. d \in Offsets /\ pos <= d
        BY <2>3, <3>1, <1>2 DEF Offsets
      <3>3. s \in Seq(STRING)
        BY <3>1, <3>2, <1>2, SliceFacts
      <3> QED BY <2>2, <2>4, <3>1, <3>3, Widen
    <2>6. Push("Symbol", t, 0, at, 1) /\ t = Slice(a, pos + 1)
      BY <2>1, <2>2, <2>4, <1>4
    <2> QED BY <2>2, <2>3, <2>5, <2>6, <1>1, <1>4, <1>5, <1>6, PushKeeps
  <1>9. CASE /\ ~(CharAt(pos) \in DOMAIN Pairs /\ Pairs[CharAt(pos)] = CharAt(pos + 1))
             /\ CharAt(pos) \notin Single
    <2>1. PICK n : n = IF CharAt(pos) = "!" THEN 1 ELSE 0
      OBVIOUS
    <2>2. Err("UnexpectedChar", n) /\ n \in 0..2 /\ pos + n <= Len(src)
      BY <2>1, <1>2, <1>6, <1>9 DEF Symbol
    <2>3. \A b \in (a + 1)..Len(src) : ~IsGap(a, b) /\ \A k \in Kinds : ~Lexeme(k, a, b)
      BY <1>2, <1>3, <1>4, <1>9, SymbolLexeme
    <2>4. Reason("UnexpectedChar", Where(pos + n), a)
      <3>1. ~OpensBlock(a)
        BY <1>3, <1>4 DEF OpensBlock
      <3>2. pos + n = IF CharAt(a) = "!" THEN a + 1 ELSE a
        BY <2>1, <1>2, <1>4
      <3>3. Where(pos + n) = Where(IF CharAt(a) = "!" THEN a + 1 ELSE a)
        BY <3>2
      <3> QED BY <3>1, <3>3, <1>3, <1>4 DEF Reason
    <2>5. "UnexpectedChar" \in Codes \ {"none"}
      BY DEF Codes
    <2> QED BY <2>2, <2>3, <2>4, <2>5, <1>1, <1>5, ErrKeeps
  <1> QED BY <1>7, <1>8, <1>9

(* At the end the text is covered.                                          *)
LEMMA EndOfFileKeeps == LexInv /\ EndOfFile => LexInv'
  <1> SUFFICES ASSUME LexInv, EndOfFile PROVE LexInv'
    OBVIOUS
  <1>1. mode = "trivia" /\ Shape /\ Behind(pos) /\ AtEnd
    BY DEF EndOfFile, In, LexInv
  <1>2. PICK u : u = Token("EndOfFile", <<>>, 0, at)
    OBVIOUS
  <1>3. /\ src' = src /\ toks' = Append(toks, u) /\ mode' = "done"
        /\ UNCHANGED <<pos, at, text, start, error>>
    BY <1>2 DEF EndOfFile, In
  <1>4. /\ pos = Len(src) /\ Len(src) \in Nat /\ MaxInt \in Nat /\ at = Where(pos)
        /\ toks \in Seq(TokenSet) /\ Len(toks) <= Len(src) /\ Covers(toks, Len(src))
    BY <1>1, ShapeFacts DEF Shape, Behind
  <1>5. u \in TokenSet /\ u = Token("EndOfFile", <<>>, 0, Where(Len(src)))
    <2>1. Where(pos) \in [line : Nat, col : Nat]
      <3>1. \A i \in 1..(pos + 1) : i \in Nat
        BY <1>4
      <3> QED BY <3>1, <1>4, WhereType
    <2>2. <<>> \in Seq(Chars)
      OBVIOUS
    <2> QED BY <2>1, <2>2, <1>2, <1>4 DEF Token, TokenSet
  <1>6. PICK us : us = Append(toks, u)
    OBVIOUS
  <1>7. us \in Seq(TokenSet) /\ Len(us) = Len(toks) + 1 /\ Last(us) = u /\ Front(us) = toks
    <2>1. /\ us \in Seq(TokenSet) /\ Len(us) = Len(toks) + 1 /\ us[Len(us)] = u
          /\ \A i \in 1..Len(toks) : us[i] = toks[i]
      BY <1>4, <1>5, <1>6
    <2>2. Last(us) = u
      BY <2>1 DEF Last
    <2>3. PICK f : f = Front(us)
      OBVIOUS
    <2>4. f \in Seq(TokenSet) /\ Len(f) = Len(toks) /\ \A i \in 1..Len(toks) : f[i] = us[i]
      BY <2>1, <2>3, <1>4 DEF Front
    <2>5. f = toks
      BY <2>1, <2>4, <1>4, SeqEqual
    <2> QED BY <2>1, <2>2, <2>3, <2>5
  <1>8. /\ Offsets' = Offsets /\ (\A x : Where(x)' = Where(x))
        /\ (\A ts, x : Covers(ts, x)' <=> Covers(ts, x))
    BY <1>3, SameText
  <1>9. Shape'
    <2>1. Len(us) <= Len(src) + 1
      BY <1>4, <1>7
    <2>2. toks' \in Seq(TokenSet) /\ Len(toks)' <= Len(src)' + 1
      BY <2>1, <1>3, <1>6, <1>7
    <2>3. at' = Where(pos)'
      BY <1>3, <1>4, <1>8
    <2>4. /\ src' \in Sources /\ pos' \in Offsets' /\ text' \in Seq(Chars) /\ Len(text)' <= Len(src)'
          /\ error'.code \in Codes /\ error'.code = "none"
      BY <1>1, <1>3, <1>8 DEF Shape
    <2> QED BY <2>2, <2>3, <2>4, <1>3 DEF Shape
  <1>10. TokensAreTheText'
    <2>1. PICK n, ts : n = Len(src) /\ ts = toks
      OBVIOUS
    <2>2. Len(src)' = n /\ Front(toks') = ts /\ Last(toks') = Token("EndOfFile", <<>>, 0, Where(n))
      BY <2>1, <1>3, <1>5, <1>6, <1>7
    <2>3. Covers(ts, n)' /\ Where(n)' = Where(n)
      BY <2>1, <1>4, <1>8
    <2>4. Covers(Front(toks), Len(src))'
      BY <2>2, <2>3
    <2>5. (Last(toks) = Token("EndOfFile", <<>>, 0, Where(Len(src))))'
      BY <2>2, <2>3 DEF Token
    <2> QED BY <2>4, <2>5 DEF TokensAreTheText
  <1>11. \A i \in 1..Len(toks') : toks'[i].value <= MaxInt
    BY <1>3, <1>6, <1>7, Values
  <1>12. mode' \notin Loops /\ mode' # "trivia" /\ ErrorsAreReal' /\ CrashMeansOverflow'
    BY <1>3, <1>11 DEF Loops, ErrorsAreReal, CrashMeansOverflow
  <1> QED BY <1>9, <1>10, <1>12 DEF LexInv

(* Nothing changes where nothing is done.                                   *)
LEMMA StaysKeeps == LexInv /\ UNCHANGED vars => LexInv'
  <1> SUFFICES ASSUME LexInv, UNCHANGED vars PROVE LexInv'
    OBVIOUS
  <1>1. UNCHANGED <<src, pos, at, mode, text, start, toks, error>>
    BY DEF vars
  <1>2. /\ Offsets' = Offsets /\ (\A x : Where(x)' = Where(x)) /\ (\A x : CharAt(x)' = CharAt(x))
        /\ (\A x : Rest(x)' = Rest(x)) /\ (\A x, y : Slice(x, y)' = Slice(x, y))
        /\ (\A ts, x : Covers(ts, x)' <=> Covers(ts, x)) /\ (\A x, y : IsGap(x, y)' <=> IsGap(x, y))
        /\ (\A x, y, z : Lexeme(x, y, z)' <=> Lexeme(x, y, z))
        /\ (\A x, y : Longest(x, y)' <=> Longest(x, y))
        /\ (\A x : OpensBlock(x)' <=> OpensBlock(x)) /\ (\A x, y : BadEscape(x, y)' <=> BadEscape(x, y))
    BY <1>1, SameText
  <1>3. Shape'
    BY <1>1, <1>2 DEF LexInv, Shape
  <1>4. \A a : Behind(a)' <=> Behind(a)
    BY <1>1, <1>2 DEF Behind
  <1>5. \A m \in Loops : \A a, p, t : Begun(m, a, p, t)' <=> Begun(m, a, p, t)
    <2>1. \A a, p : (LineTo(a, p)' <=> LineTo(a, p)) /\ (BlockTo(a, p)' <=> BlockTo(a, p))
      BY <1>2 DEF LineTo, BlockTo
    <2>2. \A a, p, t : (WordTo(a, p, t)' <=> WordTo(a, p, t)) /\ (NumberTo(a, p, t)' <=> NumberTo(a, p, t))
      BY <1>1, <1>2 DEF WordTo, NumberTo
    <2>3. \A a, p, t : StringTo(a, p, t)' <=> StringTo(a, p, t)
      BY <1>2 DEF StringTo
    <2>4. \A a, p, t : Begun("line", a, p, t)' <=> Begun("line", a, p, t)
      BY <2>1 DEF Begun
    <2>5. \A a, p, t : Begun("block", a, p, t)' <=> Begun("block", a, p, t)
      BY <2>1 DEF Begun
    <2>6. \A a, p, t : Begun("ident", a, p, t)' <=> Begun("ident", a, p, t)
      BY <2>2 DEF Begun
    <2>7. \A a, p, t : Begun("number", a, p, t)' <=> Begun("number", a, p, t)
      BY <2>2 DEF Begun
    <2>8. \A a, p, t : Begun("string", a, p, t)' <=> Begun("string", a, p, t)
      BY <2>3 DEF Begun
    <2> QED BY <2>4, <2>5, <2>6, <2>7, <2>8 DEF Loops
  <1>6. (mode = "trivia" => Behind(pos))'
    BY <1>1, <1>4 DEF LexInv
  <1>7. (mode \in Loops =>
           \E a \in Offsets : /\ Behind(a) /\ Begun(mode, a, pos, text)
                              /\ mode \in {"ident", "number", "string"} => start = Where(a))'
    <2>1. SUFFICES ASSUME mode \in Loops
                   PROVE \E a \in Offsets' :
                           /\ Behind(a)' /\ Begun(mode, a, pos, text)'
                           /\ mode' \in {"ident", "number", "string"} => start' = Where(a)'
      BY <1>1 DEF Loops
    <2>2. PICK a \in Offsets : /\ Behind(a) /\ Begun(mode, a, pos, text)
                               /\ mode \in {"ident", "number", "string"} => start = Where(a)
      BY <2>1, InLoop
    <2>3. PICK m, p, t : m \in Loops /\ m = mode /\ p = pos /\ t = text
      BY <2>1
    <2>4. m = mode' /\ p = pos' /\ t = text'
      BY <2>3, <1>1
    <2>5. Begun(m, a, p, t)'
      BY <2>2, <2>3, <1>5
    <2>6. Begun(mode, a, pos, text)'
      BY <2>4, <2>5
    <2> QED BY <2>2, <2>6, <1>1, <1>2, <1>4
  <1>8. \A c \in Codes \ {"none"} : \A l, a : Reason(c, l, a)' <=> Reason(c, l, a)
    <2>1. PICK n : n = Len(src)
      OBVIOUS
    <2>2. Len(src)' = n
      BY <2>1, <1>1
    <2>3. \A l, a : Reason("UnterminatedComment", l, a)' <=> Reason("UnterminatedComment", l, a)
      BY <2>1, <2>2, <1>2 DEF Reason
    <2>4. \A l, a : Reason("UnterminatedString", l, a)' <=> Reason("UnterminatedString", l, a)
      BY <2>1, <2>2, <1>2 DEF Reason
    <2>5. \A l, a : Reason("BadEscapeSequence", l, a)' <=> Reason("BadEscapeSequence", l, a)
      BY <1>2 DEF Reason
    <2>6. \A l, a : Reason("UnexpectedChar", l, a)' <=> Reason("UnexpectedChar", l, a)
      BY <1>2 DEF Reason
    <2> QED BY <2>3, <2>4, <2>5, <2>6 DEF Codes
  <1>9. TokensAreTheText' /\ ErrorsAreReal'
    <2>1. TokensAreTheText'
      BY <1>1, <1>2 DEF LexInv, TokensAreTheText
    <2>2. ErrorsAreReal'
      <3> DEFINE Nothing(a) == \A b \in (a + 1)..Len(src) :
                                 ~IsGap(a, b) /\ \A k \in Kinds : ~Lexeme(k, a, b)
      <3>1. SUFFICES ASSUME mode = "failed"
                     PROVE \E a \in Offsets' : /\ a < Len(src)' /\ Covers(toks, a)'
                                               /\ Reason(error.code, error.loc, a)' /\ Nothing(a)'
        BY <1>1 DEF ErrorsAreReal
      <3>2. PICK a \in Offsets : /\ a < Len(src) /\ Covers(toks, a)
                                 /\ Reason(error.code, error.loc, a) /\ Nothing(a)
        BY <3>1 DEF LexInv, ErrorsAreReal
      <3>3. PICK c, l : c \in Codes \ {"none"} /\ c = error.code /\ l = error.loc
        BY <3>1 DEF LexInv, Shape
      <3>4. c = error.code' /\ l = error.loc'
        BY <3>3, <1>1
      <3>5. Reason(c, l, a)'
        BY <3>2, <3>3, <1>8
      <3>6. Reason(error.code, error.loc, a)'
        BY <3>4, <3>5
      <3>7. Nothing(a)'
        BY <3>2, <1>1, <1>2
      <3> HIDE DEF Nothing
      <3> QED BY <3>2, <3>6, <3>7, <1>1, <1>2
    <2> QED BY <2>1, <2>2
  <1>10. CrashMeansOverflow'
    BY <1>1, <1>2 DEF LexInv, CrashMeansOverflow
  <1> QED BY <1>3, <1>6, <1>7, <1>9, <1>10 DEF LexInv

-----------------------------------------------------------------------------
(* What holds of every text *)

(* In every state the tokens cover the text up to what the loop at hand has *)
(* begun, and what a scan ends with is what the text calls for.             *)
THEOREM LexingCorrect == Spec => []LexInv
  <1>1. Init => LexInv
    BY LexStarts
  <1>2. LexInv /\ [Next]_vars => LexInv'
    <2> SUFFICES ASSUME LexInv, [Next]_vars PROVE LexInv'
      OBVIOUS
    <2>1. CASE SkipBlank
      BY <2>1, SkipBlankKeeps
    <2>2. CASE EnterComment
      BY <2>2, EnterCommentKeeps
    <2>3. CASE InLine
      BY <2>3, InLineKeeps
    <2>4. CASE InBlock
      BY <2>4, InBlockKeeps
    <2>5. CASE BeginIdent \/ BeginNumber \/ BeginString
      BY <2>5, BeginKeeps
    <2>6. CASE InIdent \/ InNumber
      BY <2>6, InWordKeeps
    <2>7. CASE EndIdent
      BY <2>7, EndIdentKeeps
    <2>8. CASE EndNumber
      BY <2>8, EndNumberKeeps
    <2>9. CASE InString
      BY <2>9, InStringKeeps
    <2>10. CASE InEscape
      BY <2>10, InEscapeKeeps
    <2>11. CASE EndString
      BY <2>11, EndStringKeeps
    <2>12. CASE Symbol
      BY <2>12, SymbolKeeps
    <2>13. CASE EndOfFile
      BY <2>13, EndOfFileKeeps
    <2>14. CASE Over \/ UNCHANGED vars
      BY <2>14, StaysKeeps DEF Over
    <2> QED BY <2>1, <2>2, <2>3, <2>4, <2>5, <2>6, <2>7, <2>8, <2>9, <2>10, <2>11, <2>12, <2>13,
               <2>14 DEF Next
  <1> QED BY <1>1, <1>2, PTL DEF Spec

(* Every state has its type: positions, tokens and values stay within what  *)
(* the length of the text allows.                                           *)
THEOREM TypeCorrect == Spec => []TypeOK
  <1>1. LexInv => TypeOK
    <2> SUFFICES ASSUME LexInv PROVE TypeOK
      OBVIOUS
    <2>1. Shape
      BY DEF LexInv
    <2>2. pos \in Nat /\ pos <= Len(src) /\ Len(src) \in Nat /\ at = Where(pos)
      BY <2>1, ShapeFacts DEF Shape
    <2>3. Where(pos) \in [line : 1..(pos + 1), col : 1..(pos + 1)]
      BY <2>2, WhereType
    <2>4. \A i \in 1..(pos + 1) : i \in 1..(Len(src) + 1)
      BY <2>2
    <2>5. at \in [line : 1..(Len(src) + 1), col : 1..(Len(src) + 1)]
      BY <2>2, <2>3, <2>4
    <2> QED BY <2>1, <2>2, <2>5 DEF TypeOK, Shape, Loops, Offsets
  <1> QED BY <1>1, LexingCorrect, PTL

(* The tokens of every accepted text are the text: the longest lexemes with *)
(* their values, lines and columns, and blanks and comments between them.   *)
THEOREM TokensAreTheTextCorrect == Spec => []TokensAreTheText
  <1>1. LexInv => TokensAreTheText
    BY DEF LexInv
  <1> QED BY <1>1, LexingCorrect, PTL

(* Every refused text has, behind tokens that are right, an offset at which *)
(* no lexeme, blank or comment starts, and the error says why and where.    *)
THEOREM ErrorsAreRealCorrect == Spec => []ErrorsAreReal
  <1>1. LexInv => ErrorsAreReal
    BY DEF LexInv
  <1> QED BY <1>1, LexingCorrect, PTL

(* The compiler aborts in the lexer on no text but one with a literal above *)
(* the largest int64_t, and no token is worth more than that.               *)
THEOREM CrashMeansOverflowCorrect == Spec => []CrashMeansOverflow
  <1>1. LexInv => CrashMeansOverflow
    BY DEF LexInv
  <1> QED BY <1>1, LexingCorrect, PTL
=============================================================================
