------------------------- MODULE EnvironmentProofs -------------------------
(***************************************************************************)
(* The cache of Util::Environment keeps its promise for every set of       *)
(* variables and texts.  How a text converts plays no part in it, so that  *)
(* Convert and InRange stay unexpanded.  What extractIntList makes of any  *)
(* text is a proof of its own, by induction over the text; so is when its  *)
(* loop overflows, and with it what can end the process.                   *)
(***************************************************************************)
EXTENDS Environment, FiniteSetTheorems, FunctionTheorems, WellFoundedInduction, SequenceTheorems, TLAPS

\* A remembered answer came from the cache, and the cache still gives it, save for
\* a boolean of which it keeps the char.
Kept == AnswersAgain \/ (given.type = "bool" /\ Answer(given.var, "bool").rc # "ok")
AnswerIsCached == given # NoAnswer => Cached(given.var) /\ Kept

IInv == TypeOK /\ AnswerIsCached

\* The character a boolean leaves in the cache is a text.
LEMMA CharIsText == \A b \in BOOLEAN : Char(b) \in Text
BY DEF Char, Text, Field, Kinds

\* and no boolean.
LEMMA CharIsNoBoolean == \A b \in BOOLEAN : Convert(Char(b), "bool").rc # "ok"
<1> SUFFICES ASSUME NEW b \in BOOLEAN PROVE Convert(Char(b), "bool").rc # "ok"
  OBVIOUS
<1>1. Convert(Char(b), "bool") = ToBoolean(Char(b))
  BY DEF Convert
<1>2. ~IsOne(Char(b), {"TRUE", "FALSE"})
  BY DEF Char, IsOne
<1>3. QED BY <1>1, <1>2 DEF ToBoolean, Bad

\* A boolean that converts is one.
LEMMA BooleanValue ==
  ASSUME NEW text \in Text, Convert(text, "bool").rc = "ok"
  PROVE  Convert(text, "bool").value \in BOOLEAN
<1>1. Convert(text, "bool") = ToBoolean(text)
  BY DEF Convert
<1>2. ToBoolean(text) # Bad
  BY <1>1 DEF Bad
<1>3. ToBoolean(text).value \in BOOLEAN
  BY <1>2 DEF ToBoolean, Ok
<1>4. QED BY <1>1, <1>3

\* What a read of an exported variable leaves in the cache is a text.
LEMMA CacheIsText ==
  ASSUME NEW text \in Text, NEW type \in Types, Convert(text, type).rc = "ok"
  PROVE  ToCache(text, type) \in Text
<1>1. CASE type # "bool"
  BY <1>1 DEF ToCache
<1>2. CASE type = "bool"
  BY <1>2, BooleanValue, CharIsText DEF ToCache
<1>3. QED BY <1>1, <1>2

\* A variable that is neither cached nor exported does not read.
LEMMA AnswerHasText ==
  ASSUME NEW v \in Variables, NEW type \in Types, TypeOK, Answer(v, type).rc = "ok"
  PROVE  /\ Source(v) \in Text
         /\ Answer(v, type) = Convert(Source(v), type)
<1>1. Source(v) # Unset
  BY DEF Answer, Bad
<1>2. Source(v) \in Text \cup {Unset}
  BY DEF Source, TypeOK
<1>3. QED BY <1>1, <1>2 DEF Answer

\* Every step keeps the types and the cached answer.
LEMMA StepKeepsIInv == IInv /\ [Next]_vars => IInv'
<1> SUFFICES ASSUME IInv, [Next]_vars PROVE IInv'
  OBVIOUS
<1> USE EnvironmentAssumption
<1>1. ASSUME NEW v \in Variables, ChangeEnvironment(v) PROVE IInv'
  <2>1. TypeOK'
    BY <1>1 DEF ChangeEnvironment, IInv, TypeOK, Unset
  <2>2. AnswerIsCached'
    BY <1>1 DEF ChangeEnvironment, IInv, AnswerIsCached, Kept, AnswersAgain, Answer, Source, Cached
  <2>3. QED BY <2>1, <2>2 DEF IInv
<1>2. ASSUME NEW v \in Variables, NEW type \in Types, NEW check \in BOOLEAN, Read(v, type, check)
      PROVE  IInv'
  <2>1. Source(v) \in Text /\ Answer(v, type) = Convert(Source(v), type)
        /\ Convert(Source(v), type).rc = "ok"
    BY <1>2, AnswerHasText DEF Read, IInv
  <2>2. CASE Cached(v)
    <3>1. UNCHANGED <<unix, d_values>>
      BY <1>2, <2>2 DEF Read
    <3>2. TypeOK'
      BY <1>2, <3>1 DEF Read, IInv, TypeOK
    <3>3. CASE given' = given
      BY <3>1, <3>2, <3>3 DEF IInv, AnswerIsCached, Kept, AnswersAgain, Answer, Source, Cached
    <3>4. CASE given' = [var |-> v, type |-> type, value |-> Answer(v, type).value]
      BY <2>1, <2>2, <3>1, <3>2, <3>4 DEF IInv, AnswerIsCached, Kept, AnswersAgain, Answer, Source, Cached
    <3>5. QED BY <1>2, <3>2, <3>3, <3>4 DEF Read, IInv, AnswerIsCached
  <2>3. CASE ~Cached(v)
    <3>1. Source(v) = unix[v] /\ UNCHANGED unix
          /\ d_values' = [d_values EXCEPT ![v] = ToCache(unix[v], type)]
      BY <1>2, <2>3 DEF Read, Source
    <3>2. ToCache(unix[v], type) \in Text
      BY <2>1, <3>1, CacheIsText
    <3>3. TypeOK'
      BY <1>2, <3>1, <3>2 DEF Read, IInv, TypeOK
    <3>4. ASSUME given' = given PROVE AnswerIsCached'
      <4>1. SUFFICES ASSUME given # NoAnswer PROVE Cached(given.var)' /\ Kept'
        BY <3>4 DEF AnswerIsCached
      <4>2. Cached(given.var) /\ given.var \in Variables /\ given.var # v
        BY <2>3, <4>1 DEF IInv, AnswerIsCached, TypeOK
      <4>3. d_values'[given.var] = d_values[given.var]
        BY <3>1, <4>2 DEF IInv, TypeOK
      <4>4. QED
        BY <3>4, <4>1, <4>2, <4>3 DEF IInv, AnswerIsCached, Kept, AnswersAgain, Answer, Source, Cached
    <3>5. ASSUME given' = [var |-> v, type |-> type, value |-> Answer(v, type).value]
          PROVE  AnswerIsCached'
      <4>1. given'.var = v /\ given'.type = type /\ Source(v)' = ToCache(unix[v], type)
            /\ d_values'[v] = ToCache(unix[v], type) /\ ToCache(unix[v], type) # Unset
        BY <3>1, <3>2, <3>5 DEF IInv, TypeOK, Source, Cached, Text, Unset
      <4>2. Answer(v, type)' = Convert(ToCache(unix[v], type), type)
        BY <4>1 DEF Answer
      <4>3. CASE type # "bool"
        BY <2>1, <3>1, <3>5, <4>1, <4>2, <4>3 DEF AnswerIsCached, Kept, AnswersAgain, Cached, ToCache
      <4>4. CASE type = "bool"
        <5>1. \E b \in BOOLEAN : ToCache(unix[v], type) = Char(b)
          BY <2>1, <3>1, <4>4, BooleanValue DEF ToCache
        <5>2. Answer(v, type)'.rc # "ok"
          BY <4>2, <4>4, <5>1, CharIsNoBoolean
        <5>3. QED BY <4>1, <4>4, <5>2 DEF AnswerIsCached, Kept, Cached
      <4>5. QED BY <4>3, <4>4
    <3>6. QED BY <1>2, <3>3, <3>4, <3>5 DEF Read, IInv, AnswerIsCached
  <2>4. QED BY <2>2, <2>3
<1>3. ASSUME NEW v \in Variables, NEW type \in Types, NEW check \in BOOLEAN, ReadFails(v, type, check)
      PROVE  IInv'
  <2>1. Failure(v, type) \in Errors
    BY DEF Failure, OutOfRange, Errors
  <2>2. QED
    BY <1>3, <2>1 DEF ReadFails, IInv, TypeOK, AnswerIsCached, Kept, AnswersAgain, Answer, Source, Cached
<1>4. ASSUME NEW v \in Variables,
             d_values' = [d_values EXCEPT ![v] = unix[v]], given' = Forget(v), UNCHANGED unix,
             lost' \in BOOLEAN, rc' = "none"
      PROVE  IInv'
  <2>1. TypeOK'
    BY <1>4 DEF IInv, TypeOK, Forget
  <2>2. AnswerIsCached'
    <3>1. SUFFICES ASSUME (given # NoAnswer)' PROVE Cached(given.var)' /\ Kept'
      BY DEF AnswerIsCached
    <3>2. given' = given /\ given.var # v /\ given.var \in Variables
      BY <1>4, <3>1 DEF Forget, IInv, TypeOK
    <3>3. d_values'[given.var] = d_values[given.var]
      BY <1>4, <3>2 DEF IInv, TypeOK
    <3>4. QED
      BY <1>4, <3>1, <3>2, <3>3 DEF IInv, AnswerIsCached, Kept, AnswersAgain, Answer, Source, Cached
  <2>3. QED BY <2>1, <2>2 DEF IInv
<1>5. ASSUME NEW v \in Variables, Reset(v) PROVE IInv'
  BY <1>4, <1>5 DEF Reset
<1>6. ASSUME NEW v \in Variables, SemiReset(v) PROVE IInv'
  BY <1>4, <1>6 DEF SemiReset, IInv, TypeOK
<1>7. CASE UNCHANGED vars
  BY <1>7 DEF vars, IInv, TypeOK, AnswerIsCached, Kept, AnswersAgain, Answer, Source, Cached
<1>8. QED BY <1>1, <1>2, <1>3, <1>5, <1>6, <1>7 DEF Next

\* Before the first call nothing is cached and no answer was given.
LEMMA InitIsIInv == Init => IInv
<1> SUFFICES ASSUME Init PROVE IInv
  OBVIOUS
<1>1. TypeOK
  BY EnvironmentAssumption DEF Init, TypeOK
<1>2. AnswerIsCached
  BY DEF Init, AnswerIsCached
<1>3. QED BY <1>1, <1>2 DEF IInv

\* The invariant holds throughout.
LEMMA Invariance == Spec => []IInv
BY InitIsIInv, StepKeepsIInv, PTL DEF Spec

\* The environment and the cache hold texts in every reachable state.
THEOREM TypeCorrect == Spec => []TypeOK
<1>1. IInv => TypeOK
  BY DEF IInv
<1>2. QED BY Invariance, <1>1, PTL

\* Until it is reset, a variable reads the same each time, whatever the process
\* exports meanwhile and whatever else is read; only a boolean may not read at all.
THEOREM CacheKeepsItsAnswers == Spec => []RepeatedReadsAgree
<1>1. IInv => RepeatedReadsAgree
  BY DEF IInv, AnswerIsCached, Kept, RepeatedReadsAgree
<1>2. QED BY Invariance, <1>1, PTL

\* A read that fails leaves the cache as it was: only Read, Reset and SemiReset
\* write it, and what they return is no error.
THEOREM FailedReadsStayOut == Spec => FailedReadsCacheNothing
<1> DEFINE KeepsCache == rc' \in Errors => d_values' = d_values
<1>1. [Next]_vars => [KeepsCache]_vars
  <2> SUFFICES ASSUME Next, rc' \in Errors PROVE d_values' = d_values
    OBVIOUS
  <2>1. rc' # "ok" /\ rc' # "none"
    BY DEF Errors
  <2>2. PICK v \in Variables :
          \/ ChangeEnvironment(v)
          \/ \E type \in Types, check \in BOOLEAN : Read(v, type, check) \/ ReadFails(v, type, check)
          \/ Reset(v)
          \/ SemiReset(v)
    BY DEF Next
  <2> QED BY <2>1, <2>2 DEF ChangeEnvironment, Read, ReadFails, Reset, SemiReset
<1> HIDE DEF KeepsCache
<1>2. Spec => [][KeepsCache]_vars
  BY <1>1, PTL DEF Spec
<1> QED BY <1>2, PTL DEF FailedReadsCacheNothing, KeepsCache

(***************************************************************************)
(* What extractIntList returns, for every text.  First the arithmetic: a   *)
(* long that fits is the int it becomes.                                   *)
(***************************************************************************)

\* Powers of two, which the provers know only as the number of subsets of a set.
LEMMA PowersOfTwo ==
  ASSUME NEW n \in Nat
  PROVE  2 ^ n \in Nat \ {0} /\ 2 ^ (n + 1) = 2 * 2 ^ n
<1> DEFINE x == n + 1
           A == SUBSET (1 .. n)
           f == [s \in A |-> s \cup {x}]
           B == {s \cup {x} : s \in A}
<1>1. /\ IsFiniteSet(1 .. n) /\ Cardinality(1 .. n) = n
      /\ IsFiniteSet(1 .. x) /\ Cardinality(1 .. x) = n + 1
  BY FS_Interval
<1>2. IsFiniteSet(A) /\ Cardinality(A) = 2 ^ n
  BY <1>1, FS_SUBSET
<1>3. Cardinality(SUBSET (1 .. x)) = 2 ^ (n + 1)
  BY <1>1, FS_SUBSET
<1>4. \A s \in A : x \notin s
  OBVIOUS
<1>5. ExistsBijection(A, B)
  <2>1. f \in [A -> B]
    OBVIOUS
  <2>2. \A t \in B : \E s \in A : f[s] = t
    OBVIOUS
  <2>3. \A s, t \in A : f[s] = f[t] => s = t
    <3>1. SUFFICES ASSUME NEW s \in A, NEW t \in A, s \cup {x} = t \cup {x} PROVE s = t
      OBVIOUS
    <3>2. x \notin s /\ x \notin t
      BY <1>4
    <3> HIDE DEF A, x
    <3> QED BY <3>1, <3>2
  <2> HIDE DEF f, A, B
  <2>4. f \in Bijection(A, B)
    BY <2>1, <2>2, <2>3, Fun_IsBij
  <2> QED BY <2>4 DEF ExistsBijection
<1>6. IsFiniteSet(B) /\ Cardinality(B) = Cardinality(A)
  <2> HIDE DEF A, B
  <2> QED BY <1>2, <1>5, FS_Bijection
<1>7. A \cap B = {}
  <2>1. \A t \in B : x \in t
    OBVIOUS
  <2> HIDE DEF A, B, x
  <2> QED BY <1>4, <2>1
<1>8. SUBSET (1 .. x) = A \cup B
  <2>1. 1 .. x = (1 .. n) \cup {x}
    OBVIOUS
  <2>2. ASSUME NEW s \in SUBSET (1 .. x), s \notin A PROVE s \in B
    <3>1. x \in s
      BY <2>1, <2>2
    <3>2. s \ {x} \in A
      BY <2>1, <2>2
    <3>3. s = (s \ {x}) \cup {x}
      BY <3>1
    <3> HIDE DEF x, A
    <3> QED BY <3>2, <3>3
  <2>3. A \subseteq SUBSET (1 .. x)
    BY <2>1
  <2>4. B \subseteq SUBSET (1 .. x)
    BY <2>1
  <2> QED BY <2>2, <2>3, <2>4
<1>9. Cardinality(A \cup B) = Cardinality(A) + Cardinality(B) - Cardinality(A \cap B)
  <2> HIDE DEF A, B
  <2> QED BY <1>2, <1>6, FS_Union
<1>10. Cardinality(A) \in Nat
  BY <1>2, FS_CardinalityType
<1>11. Cardinality(A) # 0
  <2>1. {} \in A
    OBVIOUS
  <2> HIDE DEF A
  <2> QED BY <1>2, <2>1, FS_EmptySet
<1>12. Cardinality(A \cap B) = 0
  <2> HIDE DEF A, B
  <2> QED BY <1>7, FS_EmptySet
<1>13. Cardinality(SUBSET (1 .. x)) = 2 * Cardinality(A)
  <2> DEFINE T == SUBSET (1 .. x)
  <2>1. T = A \cup B
    BY <1>8
  <2> HIDE DEF A, B, T
  <2>2. Cardinality(T) = 2 * Cardinality(A)
    BY <1>6, <1>9, <1>10, <1>12, <2>1
  <2> QED BY <2>2 DEF T
<1> HIDE DEF A, B, x
<1>14. 2 ^ n \in Nat \ {0}
  BY <1>2, <1>10, <1>11, Zenon
<1> QED BY <1>2, <1>3, <1>13, <1>14

\* An int of Width bits goes up to half a power of two.
LEMMA IntBounds ==
  MaxInt \in Nat /\ 2 ^ Width = 2 * (MaxInt + 1) /\ 2 ^ Width \in Nat \ {0}
<1>1. Width - 1 \in Nat /\ (Width - 1) + 1 = Width
  BY EnvironmentAssumption
<1>2. 2 ^ (Width - 1) \in Nat \ {0} /\ 2 ^ ((Width - 1) + 1) = 2 * 2 ^ (Width - 1)
  BY <1>1, PowersOfTwo
<1> QED BY <1>1, <1>2 DEF MaxInt

\* A number is its own remainder if it is smaller.
LEMMA SmallRemainder ==
  ASSUME NEW a \in Nat, NEW b \in Nat, a < b
  PROVE  a % b = a
OBVIOUS

\* A number that fits an int is not changed by the conversion.
LEMMA WrapFits ==
  ASSUME NEW n \in -MaxInt - 1 .. MaxInt
  PROVE  Wrap(n) = n
<1>1. MaxInt \in Nat /\ 2 ^ Width = 2 * (MaxInt + 1) /\ 2 ^ Width \in Nat \ {0}
  BY IntBounds
<1>2. n + MaxInt + 1 \in Nat /\ n + MaxInt + 1 < 2 ^ Width /\ n \in Int
  BY <1>1
<1>3. (n + MaxInt + 1) % (2 ^ Width) = n + MaxInt + 1
  BY <1>1, <1>2, SmallRemainder
<1> QED BY <1>1, <1>2, <1>3 DEF Wrap

(***************************************************************************)
(* The fold over the tokens takes one after the other.  The function that  *)
(* FoldLeft defines by recursion over sets of positions exists by induction *)
(* on their number; for the induction, what holds is the set of the numbers *)
(* it holds of.                                                            *)
(***************************************************************************)

\* A set that holds 0 and with a number the next one holds all numbers.
LEMMA NatSetInduction ==
  ASSUME NEW S, 0 \in S, \A n \in Nat : n \in S => n + 1 \in S
  PROVE  Nat \subseteq S
<1> DEFINE R == {ss \in Nat \X Nat : ss[1] < ss[2]}
           T == Nat \ S
<1>1. IsWellFoundedOn(R, Nat)
  BY NatLessThanWellFounded, Zenon DEF OpToRel
<1>2. SUFFICES ASSUME T # {} PROVE FALSE
  OBVIOUS
<1>3. \A x, y \in Nat : x < y => <<x, y>> \in R
  OBVIOUS
<1> HIDE DEF R
<1>4. PICK x \in T : \A y \in T : ~ (<<y, x>> \in R)
  <2>1. T \subseteq Nat
    OBVIOUS
  <2> HIDE DEF T
  <2> QED BY <1>1, <1>2, <2>1, WFMin
<1>5. x # 0 /\ x \in Nat
  BY <1>4
<1>6. x - 1 \in Nat /\ x - 1 < x
  BY <1>5
<1>7. x - 1 \notin T
  BY <1>3, <1>4, <1>5, <1>6
<1> QED BY <1>4, <1>5, <1>6, <1>7

\* the loop over the tokens from state b on
Tokens(b, text) == FoldLeft(TakeToken, b, text)

\* g is the function FoldLeft defines by recursion over the sets of positions.
IsFold(g, D, b, text) ==
  g = [s \in SUBSET D |-> IF s = {} THEN b ELSE TakeToken(g[s \ {Max(s)}], text[Max(s)])]

\* The largest position is the one none is above.
LEMMA MaxIs ==
  ASSUME NEW n \in Int, NEW s \in SUBSET Int, n \in s, \A x \in s : x <= n
  PROVE  Max(s) = n
<1>1. \E x \in s : \A y \in s : x >= y
  OBVIOUS
<1>2. Max(s) \in s /\ \A y \in s : Max(s) >= y
  BY <1>1 DEF Max
<1>3. Max(s) >= n /\ Max(s) <= n /\ Max(s) \in Int
  BY <1>2
<1> QED BY <1>3

\* The recursion over sets of positions has a solution.
LEMMA FoldExists ==
  ASSUME NEW b, NEW text, NEW n \in Nat
  PROVE  \E g : IsFold(g, 1 .. n, b, text)
<1> DEFINE N == {m \in Nat : \E g : IsFold(g, 1 .. m, b, text)}
<1>1. 0 \in N
  <2> DEFINE g == [s \in SUBSET (1 .. 0) |-> b]
  <2>1. g = [s \in SUBSET (1 .. 0) |-> IF s = {} THEN b ELSE TakeToken(g[s \ {Max(s)}], text[Max(s)])]
    <3>1. \A s \in SUBSET (1 .. 0) : s = {}
      OBVIOUS
    <3> HIDE DEF g
    <3>2. \A s \in SUBSET (1 .. 0) : b = IF s = {} THEN b ELSE TakeToken(g[s \ {Max(s)}], text[Max(s)])
      BY <3>1, Zenon
    <3> QED BY <3>2, Zenon DEF g
  <2>2. IsFold(g, 1 .. 0, b, text)
    BY <2>1, Zenon DEF IsFold
  <2> QED BY <2>2
<1>2. ASSUME NEW m \in Nat, m \in N PROVE m + 1 \in N
  <2>1. PICK g : IsFold(g, 1 .. m, b, text)
    BY <1>2
  <2> DEFINE h == [s \in SUBSET (1 .. m + 1) |-> IF m + 1 \in s
                                                 THEN TakeToken(g[s \ {m + 1}], text[m + 1])
                                                 ELSE g[s]]
             Turn(s) == IF s = {} THEN b ELSE TakeToken(h[s \ {Max(s)}], text[Max(s)])
  <2>2. \A s \in SUBSET (1 .. m) : h[s] = g[s]
    <3>1. \A s \in SUBSET (1 .. m) : s \in SUBSET (1 .. m + 1) /\ m + 1 \notin s
      OBVIOUS
    <3> QED BY <3>1
  <2>3. ASSUME NEW s \in SUBSET (1 .. m + 1) PROVE h[s] = Turn(s)
    <3>1. CASE m + 1 \in s
      <4>1. Max(s) = m + 1
        BY <3>1, MaxIs
      <4>2. s \ {m + 1} \in SUBSET (1 .. m)
        OBVIOUS
      <4>3. h[s] = TakeToken(h[s \ {m + 1}], text[m + 1])
        BY <2>2, <3>1, <4>2
      <4> HIDE DEF h
      <4> QED BY <3>1, <4>1, <4>3
    <3>2. CASE m + 1 \notin s
      <4>1. s \in SUBSET (1 .. m)
        BY <3>2
      <4>2. s \ {Max(s)} \in SUBSET (1 .. m)
        BY <4>1
      <4>3. g[s] = IF s = {} THEN b ELSE TakeToken(g[s \ {Max(s)}], text[Max(s)])
        BY <2>1, <4>1, Zenon DEF IsFold
      <4> HIDE DEF h
      <4> QED BY <2>2, <4>1, <4>2, <4>3, Zenon
    <3> QED BY <3>1, <3>2
  <2>4. h = [s \in SUBSET (1 .. m + 1) |-> h[s]]
    OBVIOUS
  <2> HIDE DEF h
  <2>5. IsFold(h, 1 .. m + 1, b, text)
    BY <2>3, <2>4, Zenon DEF IsFold
  <2> QED BY <2>5
<1>3. Nat \subseteq N
  <2> HIDE DEF N
  <2> QED BY <1>1, <1>2, NatSetInduction
<1> QED BY <1>3

\* The loop goes through a state per token.
LEMMA FoldTokens ==
  ASSUME NEW b, NEW text, NEW n \in Nat, DOMAIN text = 1 .. n
  PROVE  \E F : /\ F[0] = b
                /\ \A k \in 0 .. n - 1 : F[k + 1] = TakeToken(F[k], text[k + 1])
                /\ Tokens(b, text) = F[n]
<1> DEFINE g == CHOOSE g : IsFold(g, 1 .. n, b, text)
           F == [k \in 0 .. n |-> g[1 .. k]]
<1>1. IsFold(g, 1 .. n, b, text)
  BY FoldExists
<1>2. Tokens(b, text) = g[1 .. n]
  BY Zenon DEF Tokens, FoldLeft, MapThenFoldSet, IsFold
<1> HIDE DEF g
<1>3. \A s \in SUBSET (1 .. n) : g[s] = IF s = {} THEN b ELSE TakeToken(g[s \ {Max(s)}], text[Max(s)])
  BY <1>1, Zenon DEF IsFold
<1>4. F[0] = b
  <2>1. {} \in SUBSET (1 .. n) /\ 1 .. 0 = {} /\ 0 \in 0 .. n
    OBVIOUS
  <2> QED BY <1>3, <2>1
<1>5. ASSUME NEW k \in 0 .. n - 1 PROVE F[k + 1] = TakeToken(F[k], text[k + 1])
  <2>1. /\ 1 .. k + 1 \in SUBSET (1 .. n) /\ 1 .. k + 1 # {}
        /\ (1 .. k + 1) \ {k + 1} = 1 .. k
        /\ k \in 0 .. n /\ k + 1 \in 0 .. n
    OBVIOUS
  <2>2. Max(1 .. k + 1) = k + 1
    <3> DEFINE D == 1 .. k + 1
               j == k + 1
    <3>1. j \in Int /\ D \in SUBSET Int /\ j \in D /\ \A x \in D : x <= j
      OBVIOUS
    <3> HIDE DEF D, j
    <3>2. Max(D) = j
      BY <3>1, MaxIs
    <3> QED BY <3>2 DEF D, j
  <2>3. g[1 .. k + 1] = TakeToken(g[1 .. k], text[k + 1])
    BY <1>3, <2>1, <2>2, Zenon
  <2> QED BY <2>1, <2>3, Zenon
<1>6. F[n] = g[1 .. n]
  OBVIOUS
<1> HIDE DEF F
<1> QED BY <1>2, <1>4, <1>5, <1>6

(***************************************************************************)
(* FlattenSeq is its sequences one after the other, and a range in order   *)
(* has one form only.                                                      *)
(***************************************************************************)

\* f is the function FlattenSeq defines by recursion, over n sequences.
IsFlatten(f, n, p) ==
  f = [i \in 1 .. n |-> IF i = 1 THEN p[i] ELSE f[i - 1] \o p[i]]

\* The recursion over the sequences has a solution,
LEMMA FlattenExists ==
  ASSUME NEW n \in Nat, NEW p
  PROVE  \E f : IsFlatten(f, n, p)
<1> DEFINE N == {m \in Nat : \E f : IsFlatten(f, m, p)}
<1>1. 0 \in N
  <2> DEFINE f == [i \in 1 .. 0 |-> p[i]]
  <2>1. f = [i \in 1 .. 0 |-> IF i = 1 THEN p[i] ELSE f[i - 1] \o p[i]]
    <3>1. 1 .. 0 = {}
      OBVIOUS
    <3> QED BY <3>1
  <2>2. IsFlatten(f, 0, p)
    BY <2>1, Zenon DEF IsFlatten
  <2> QED BY <2>2
<1>2. ASSUME NEW m \in Nat, m \in N PROVE m + 1 \in N
  <2>1. PICK f : IsFlatten(f, m, p)
    BY <1>2
  <2> DEFINE g == [i \in 1 .. m + 1 |-> IF i = m + 1
                                        THEN IF i = 1 THEN p[i] ELSE f[m] \o p[i]
                                        ELSE f[i]]
  <2>2. \A i \in 1 .. m : i \in 1 .. m + 1 /\ i # m + 1 /\ g[i] = f[i]
    OBVIOUS
  <2>3. \A i \in 1 .. m + 1 : i = m + 1 \/ i \in 1 .. m
    OBVIOUS
  <2>4. ASSUME NEW i \in 1 .. m + 1 PROVE g[i] = IF i = 1 THEN p[i] ELSE g[i - 1] \o p[i]
    <3>1. CASE i = m + 1
      <4>1. i # 1 => i - 1 = m /\ m \in 1 .. m
        BY <3>1
      <4>2. g[i] = IF i = 1 THEN p[i] ELSE f[m] \o p[i]
        BY <3>1
      <4> HIDE DEF g
      <4> QED BY <2>2, <4>1, <4>2, Zenon
    <3>2. CASE i \in 1 .. m
      <4>1. f[i] = IF i = 1 THEN p[i] ELSE f[i - 1] \o p[i]
        BY <2>1, <3>2, Zenon DEF IsFlatten
      <4>2. i # 1 => i - 1 \in 1 .. m
        BY <3>2
      <4> HIDE DEF g
      <4> QED BY <2>2, <3>2, <4>1, <4>2, Zenon
    <3> QED BY <2>3, <3>1, <3>2
  <2>5. g = [i \in 1 .. m + 1 |-> g[i]]
    OBVIOUS
  <2> HIDE DEF g
  <2>6. IsFlatten(g, m + 1, p)
    BY <2>4, <2>5, Zenon DEF IsFlatten
  <2> QED BY <2>6
<1>3. Nat \subseteq N
  <2> HIDE DEF N
  <2> QED BY <1>1, <1>2, NatSetInduction
<1> QED BY <1>3

\* which depends on the sequences before a place only,
LEMMA FlattenUnique ==
  ASSUME NEW n \in Nat, NEW k \in Nat, n <= k, NEW p, NEW q, NEW f, NEW g,
         IsFlatten(f, n, p), IsFlatten(g, k, q), \A i \in 1 .. n : p[i] = q[i]
  PROVE  \A i \in 1 .. n : f[i] = g[i]
<1> DEFINE N == {m \in Nat : m \in 1 .. n => f[m] = g[m]}
<1>1. 0 \in N
  OBVIOUS
<1>2. ASSUME NEW m \in Nat, m \in N PROVE m + 1 \in N
  <2>1. SUFFICES ASSUME m + 1 \in 1 .. n PROVE f[m + 1] = g[m + 1]
    OBVIOUS
  <2>2. m + 1 \in 1 .. k /\ p[m + 1] = q[m + 1] /\ (m + 1) - 1 = m
    BY <2>1
  <2>3. f[m + 1] = IF m + 1 = 1 THEN p[m + 1] ELSE f[m] \o p[m + 1]
    <3>1. \A i \in 1 .. n : f[i] = IF i = 1 THEN p[i] ELSE f[i - 1] \o p[i]
      BY Zenon DEF IsFlatten
    <3> QED BY <2>1, <2>2, <3>1
  <2>4. g[m + 1] = IF m + 1 = 1 THEN q[m + 1] ELSE g[m] \o q[m + 1]
    BY <2>2, Zenon DEF IsFlatten
  <2>5. m + 1 # 1 => f[m] = g[m]
    BY <1>2, <2>1
  <2> QED BY <2>2, <2>3, <2>4, <2>5, Zenon
<1>3. Nat \subseteq N
  <2> HIDE DEF N
  <2> QED BY <1>1, <1>2, NatSetInduction
<1> QED BY <1>3

\* and which FlattenSeq takes.
LEMMA FlattenIs ==
  ASSUME NEW p, Len(p) \in Nat \ {0}
  PROVE  \E f : IsFlatten(f, Len(p), p) /\ FlattenSeq(p) = f[Len(p)]
<1> DEFINE f == CHOOSE h : IsFlatten(h, Len(p), p)
<1>1. Len(p) \in Nat /\ ~(Len(p) = 0)
  OBVIOUS
<1>2. IsFlatten(f, Len(p), p)
  BY <1>1, FlattenExists
<1>3. FlattenSeq(p) = f[Len(p)]
  BY <1>1, Zenon DEF FlattenSeq, IsFlatten
<1> QED BY <1>2, <1>3

\* Sequences of one kind of elements flatten to such a sequence.
LEMMA FlattenType ==
  ASSUME NEW S, NEW s \in Seq(Seq(S))
  PROVE  FlattenSeq(s) \in Seq(S)
<1> DEFINE n == Len(s)
<1>1. n \in Nat /\ \A i \in 1 .. n : s[i] \in Seq(S)
  OBVIOUS
<1>2. CASE n = 0
  <2>1. s = <<>>
    BY <1>2
  <2> QED BY <1>2, <2>1 DEF FlattenSeq
<1>3. CASE n # 0
  <2>1. PICK f : IsFlatten(f, n, s) /\ FlattenSeq(s) = f[n]
    BY <1>1, <1>3, FlattenIs
  <2> DEFINE N == {m \in Nat : m \in 1 .. n => f[m] \in Seq(S)}
  <2>2. 0 \in N
    OBVIOUS
  <2>3. ASSUME NEW m \in Nat, m \in N PROVE m + 1 \in N
    <3>1. SUFFICES ASSUME m + 1 \in 1 .. n PROVE f[m + 1] \in Seq(S)
      OBVIOUS
    <3>2. \A i \in 1 .. n : f[i] = IF i = 1 THEN s[i] ELSE f[i - 1] \o s[i]
      BY <2>1, Zenon DEF IsFlatten
    <3>3. /\ (m + 1) - 1 = m /\ s[m + 1] \in Seq(S)
          /\ m + 1 # 1 => f[m] \in Seq(S)
      BY <1>1, <2>3, <3>1
    <3>4. f[m + 1] = IF m + 1 = 1 THEN s[m + 1] ELSE f[m] \o s[m + 1]
      BY <3>1, <3>2, <3>3
    <3>5. \A a, b \in Seq(S) : a \o b \in Seq(S)
      OBVIOUS
    <3> QED BY <3>3, <3>4, <3>5, Zenon
  <2>4. Nat \subseteq N
    <3> HIDE DEF N
    <3> QED BY <2>2, <2>3, NatSetInduction
  <2> QED BY <1>1, <1>3, <2>1, <2>4
<1> QED BY <1>2, <1>3

\* FlattenSeq takes its sequences one after the other.
LEMMA FlattenAppend ==
  ASSUME NEW S, NEW s \in Seq(Seq(S)), NEW x \in Seq(S)
  PROVE  FlattenSeq(Append(s, x)) = FlattenSeq(s) \o x
<1> DEFINE t == Append(s, x)
           n == Len(s)
<1>1. /\ n \in Nat /\ Len(t) = n + 1 /\ t[n + 1] = x
      /\ \A i \in 1 .. n : t[i] = s[i]
      /\ n = 0 => s = <<>>
  OBVIOUS
<1> HIDE DEF t
<1>2. PICK g : IsFlatten(g, n + 1, t) /\ FlattenSeq(t) = g[n + 1]
  BY <1>1, FlattenIs
<1>3. g[n + 1] = IF n + 1 = 1 THEN x ELSE g[n] \o x
  <2>1. n + 1 \in 1 .. n + 1 /\ (n + 1) - 1 = n
    BY <1>1
  <2> QED BY <1>1, <1>2, <2>1, Zenon DEF IsFlatten
<1>4. CASE n = 0
  <2>1. FlattenSeq(s) = <<>> /\ n + 1 = 1
    BY <1>1, <1>4 DEF FlattenSeq
  <2>2. <<>> \o x = x
    OBVIOUS
  <2> QED BY <1>2, <1>3, <2>1, <2>2 DEF t
<1>5. CASE n # 0
  <2>1. PICK f : IsFlatten(f, n, s) /\ FlattenSeq(s) = f[n]
    BY <1>1, <1>5, FlattenIs
  <2>2. \A i \in 1 .. n : f[i] = g[i]
    <3>1. n + 1 \in Nat /\ n <= n + 1 /\ \A i \in 1 .. n : s[i] = t[i]
      BY <1>1
    <3> HIDE DEF n
    <3> QED BY <1>1, <1>2, <2>1, <3>1, FlattenUnique, SMTT(30)
  <2>3. n \in 1 .. n /\ n + 1 # 1
    BY <1>1, <1>5
  <2> QED BY <1>2, <1>3, <2>1, <2>2, <2>3 DEF t
<1> QED BY <1>4, <1>5

\* A range in order has only one form, the one the loop over it appends.
LEMMA AscendingIs ==
  ASSUME NEW from \in Int, NEW to \in Int, from <= to
  PROVE  Ascending(from, to) = Ints(from, to)
<1> DEFINE n == to - from + 1
           Up(s) == \A i, j \in DOMAIN s : i < j => s[i] < s[j]
<1>1. n \in Nat /\ n >= 1
  OBVIOUS
<1>2. Ints(from, to) \in [1 .. n -> from .. to] /\ Up(Ints(from, to))
  BY DEF Ints
<1>3. ASSUME NEW s \in [1 .. n -> from .. to], Up(s) PROVE s = Ints(from, to)
  <2> DEFINE Below == {m \in Nat : m + 1 \in 1 .. n => s[m + 1] >= from + m}
             Above == {m \in Nat : n - m \in 1 .. n => s[n - m] <= to - m}
  <2>1. \A i \in 1 .. n : s[i] \in Int /\ s[i] >= from /\ s[i] <= to
    OBVIOUS
  <2>2. \A i \in 1 .. n : i + 1 \in 1 .. n => s[i] < s[i + 1]
    BY <1>3
  <2>3. Nat \subseteq Below
    <3>1. 0 \in Below
      BY <2>1
    <3>2. ASSUME NEW m \in Nat, m \in Below PROVE m + 1 \in Below
      BY <2>1, <2>2, <3>2
    <3> HIDE DEF Below
    <3> QED BY <3>1, <3>2, NatSetInduction
  <2>4. Nat \subseteq Above
    <3>1. 0 \in Above
      BY <2>1
    <3>2. ASSUME NEW m \in Nat, m \in Above PROVE m + 1 \in Above
      <4>1. SUFFICES ASSUME n - (m + 1) \in 1 .. n PROVE s[n - (m + 1)] <= to - (m + 1)
        OBVIOUS
      <4>2. n - m \in 1 .. n /\ (n - (m + 1)) + 1 = n - m
        BY <1>1, <4>1
      <4>3. s[n - m] <= to - m
        BY <3>2, <4>2
      <4>4. s[n - (m + 1)] < s[n - m]
        BY <2>2, <4>1, <4>2
      <4> HIDE DEF n
      <4> QED BY <2>1, <4>1, <4>2, <4>3, <4>4
    <3> HIDE DEF Above
    <3> QED BY <3>1, <3>2, NatSetInduction
  <2>5. ASSUME NEW i \in 1 .. n PROVE s[i] = from + i - 1
    <3>1. i - 1 \in Nat /\ (i - 1) + 1 = i /\ n - i \in Nat /\ n - (n - i) = i
      BY <1>1
    <3>2. s[i] >= from + (i - 1)
      BY <2>3, <3>1
    <3>3. s[i] <= to - (n - i)
      BY <2>4, <3>1
    <3> QED BY <2>1, <3>1, <3>2, <3>3
  <2> QED BY <2>5 DEF Ints
<1> QED BY <1>2, <1>3 DEF Ascending

(***************************************************************************)
(* The list that has been read so far, of which a range may still be open: *)
(* what it lists, and what one field more adds.                            *)
(***************************************************************************)

\* What the loop over the tokens keeps.
TokenState == [rc : {"ok", "bad", "lost"}, inRange : BOOLEAN, start : Int, value : Seq(Int)]

EndsOpen(list) == list # <<>> /\ list[Len(list)].kind = "open"

\* A list of ranges and numbers whose last range may still be open.
HalfFormed(list) ==
  \A i \in DOMAIN list :
    \/ list[i].kind = "int"
    \/ list[i].kind = "open" /\ (i < Len(list) => IsRange(list, i + 1))
    \/ list[i].kind = "close" /\ IsRange(list, i)

\* The loop has read just this list.
Reads(s, list) ==
  /\ list \in Seq(Field) /\ HalfFormed(list)
  /\ s.inRange = EndsOpen(list)
  /\ s.inRange => s.start = list[Len(list)].num
  /\ s.value = Listed(list)

\* A range is a sequence of ints, and none is empty.
LEMMA IntsType ==
  ASSUME NEW from \in Int, NEW to \in Int
  PROVE  Ints(from, to) \in Seq(Int) /\ (from <= to => Ints(from, to) # <<>>)
<1>1. CASE from <= to
  <2>1. to - from + 1 \in Nat /\ to - from + 1 >= 1
    BY <1>1
  <2>2. Ints(from, to) \in [1 .. to - from + 1 -> Int]
    BY DEF Ints
  <2>3. Ints(from, to) \in Seq(Int) /\ Len(Ints(from, to)) = to - from + 1
    BY <2>1, <2>2
  <2> QED BY <2>1, <2>3
<1>2. CASE ~(from <= to)
  <2>1. 1 .. to - from + 1 = 1 .. 0
    BY <1>2
  <2>2. Ints(from, to) \in [1 .. 0 -> Int]
    BY <2>1 DEF Ints
  <2> QED BY <1>2, <2>2
<1> QED BY <1>1, <1>2

\* What toInt yields is a number.
LEMMA WrapType == ASSUME NEW n \in Int PROVE Wrap(n) \in Int
BY IntBounds DEF Wrap

\* A turn of the loop keeps its variables' types.
LEMMA TakeTokenType ==
  ASSUME NEW s \in TokenState, NEW field \in Field
  PROVE  TakeToken(s, field) \in TokenState
<1> DEFINE end == UpperLimit(field)
           failed == [s EXCEPT !.rc = "bad"]
<1>1. field.num \in Int /\ Wrap(field.num) \in Int /\ end \in Int /\ s.start \in Int /\ s.value \in Seq(Int)
  BY WrapType DEF Field, UpperLimit, TokenState
<1>2. failed \in TokenState
  BY DEF TokenState
<1>3. [s EXCEPT !.inRange = TRUE, !.start = Wrap(field.num)] \in TokenState
  BY <1>1 DEF TokenState
<1>4. [s EXCEPT !.rc = "lost"] \in TokenState
  BY DEF TokenState
<1>5. [s EXCEPT !.inRange = FALSE, !.value = @ \o Ints(s.start, end)] \in TokenState
  <2> HIDE DEF end
  <2> DEFINE ints == Ints(s.start, end)
  <2>1. s.value \o ints \in Seq(Int)
    <3>1. ints \in Seq(Int)
      BY <1>1, IntsType
    <3> HIDE DEF ints
    <3> QED BY <1>1, <3>1
  <2> QED BY <2>1 DEF TokenState
<1>6. [s EXCEPT !.value = Append(@, Wrap(field.num))] \in TokenState
  <2>1. Append(s.value, Wrap(field.num)) \in Seq(Int)
    BY <1>1
  <2> QED BY <2>1 DEF TokenState
<1> QED BY <1>2, <1>3, <1>4, <1>5, <1>6, Zenon DEF TakeToken

\* The fields of a text are fields.
LEMMA FieldOf ==
  ASSUME NEW list \in Seq(Field)
  PROVE  /\ Len(list) \in Nat /\ DOMAIN list = 1 .. Len(list)
         /\ \A i \in 1 .. Len(list) : list[i] \in Field /\ list[i].num \in Int
<1>1. \A i \in 1 .. Len(list) : list[i] \in Field
  OBVIOUS
<1>2. \A f \in Field : f.num \in Int
  BY DEF Field
<1> QED BY <1>1, <1>2

\* What each token of a list adds to it.
LEMMA ListingIs ==
  ASSUME NEW list \in Seq(Field), HalfFormed(list), NEW i \in 1 .. Len(list)
  PROVE  /\ Listing(list, i) \in Seq(Int)
         /\ list[i].kind = "int" => Listing(list, i) = << list[i].num >>
         /\ list[i].kind = "open" => Listing(list, i) = <<>>
         /\ list[i].kind = "close" => /\ i > 1
                                      /\ Listing(list, i) = Ints(list[i - 1].num, list[i].num)
                                      /\ list[i - 1].num <= list[i].num
<1>1. list[i] \in Field /\ list[i].num \in Int
  BY FieldOf
<1>2. CASE list[i].kind = "int"
  <2>1. Listing(list, i) = << list[i].num >>
    BY <1>2 DEF Listing
  <2> QED BY <1>1, <1>2, <2>1
<1>3. CASE list[i].kind = "open"
  <2>1. Listing(list, i) = <<>>
    BY <1>3 DEF Listing
  <2> QED BY <1>3, <2>1
<1>4. CASE list[i].kind = "close"
  <2>1. IsRange(list, i)
    BY <1>4 DEF HalfFormed
  <2>2. i > 1 /\ list[i - 1].num <= list[i].num /\ i - 1 \in 1 .. Len(list)
    BY <2>1 DEF IsRange
  <2>3. list[i - 1].num \in Int
    BY <2>2, FieldOf
  <2>4. Listing(list, i) = Ascending(list[i - 1].num, list[i].num)
    BY <1>4 DEF Listing
  <2>5. Listing(list, i) = Ints(list[i - 1].num, list[i].num)
    BY <1>1, <2>2, <2>3, <2>4, AscendingIs
  <2>6. Ints(list[i - 1].num, list[i].num) \in Seq(Int)
    BY <1>1, <2>3, IntsType
  <2> QED BY <1>4, <2>2, <2>5, <2>6
<1>5. list[i].kind \in {"int", "open", "close"}
  BY DEF HalfFormed
<1> QED BY <1>2, <1>3, <1>4, <1>5

\* The list is one of ints.
LEMMA ListedType ==
  ASSUME NEW list \in Seq(Field), HalfFormed(list)
  PROVE  Listed(list) \in Seq(Int)
<1> DEFINE n == Len(list)
           s == [i \in 1 .. n |-> Listing(list, i)]
<1>1. n \in Nat /\ DOMAIN list = 1 .. n
  BY FieldOf
<1>2. Listed(list) = FlattenSeq(s)
  BY <1>1 DEF Listed
<1>3. s \in [1 .. n -> Seq(Int)]
  BY ListingIs
<1>4. s \in Seq(Seq(Int))
  <2> HIDE DEF s, n
  <2> QED BY <1>1, <1>3
<1> HIDE DEF s
<1> QED BY <1>2, <1>4, FlattenType

\* Append leaves the elements before the new one where they are.
LEMMA AppendIs ==
  ASSUME NEW S, NEW s \in Seq(S), NEW x \in S
  PROVE  /\ Append(s, x) \in Seq(S)
         /\ Len(s) \in Nat /\ Len(Append(s, x)) = Len(s) + 1
         /\ DOMAIN s = 1 .. Len(s) /\ DOMAIN Append(s, x) = 1 .. Len(s) + 1
         /\ \A i \in 1 .. Len(s) : Append(s, x)[i] = s[i]
         /\ Append(s, x)[Len(s) + 1] = x
OBVIOUS

\* One field more adds what it lists.
LEMMA ListedAppend ==
  ASSUME NEW list \in Seq(Field), NEW f \in Field, HalfFormed(list), HalfFormed(Append(list, f))
  PROVE  Listed(Append(list, f)) = Listed(list) \o Listing(Append(list, f), Len(list) + 1)
<1> DEFINE n == Len(list)
           more == Append(list, f)
           s == [i \in 1 .. n |-> Listing(list, i)]
           t == [i \in 1 .. n + 1 |-> Listing(more, i)]
<1>1. /\ more \in Seq(Field) /\ n \in Nat /\ Len(more) = n + 1
      /\ DOMAIN list = 1 .. n /\ DOMAIN more = 1 .. n + 1
      /\ \A i \in 1 .. n : more[i] = list[i]
  BY AppendIs
<1>2. \A i \in 1 .. n : Listing(list, i) \in Seq(Int)
  BY ListingIs
<1>3. \A i \in 1 .. n + 1 : Listing(more, i) \in Seq(Int)
  <2> HIDE DEF more, n
  <2> QED BY <1>1, ListingIs DEF more
<1>4. ASSUME NEW i \in 1 .. n PROVE Listing(more, i) = Listing(list, i)
  <2>1. more[i] = list[i]
    BY <1>1
  <2>2. list[i].kind = "close" => i - 1 \in 1 .. n
    BY ListingIs
  <2>3. list[i].kind = "close" => more[i - 1] = list[i - 1]
    BY <1>1, <2>2
  <2> HIDE DEF more
  <2> QED BY <2>1, <2>3 DEF Listing
<1>5. Listed(list) = FlattenSeq(s) /\ Listed(more) = FlattenSeq(t)
  <2> HIDE DEF more
  <2> QED BY <1>1 DEF Listed
<1>6. t = Append(s, t[n + 1])
  <2>1. t \in Seq(Seq(Int)) /\ Len(t) = n + 1 /\ s \in Seq(Seq(Int)) /\ Len(s) = n
    <3> HIDE DEF more, n
    <3> QED BY <1>1, <1>2, <1>3
  <2>2. t[n + 1] \in Seq(Int)
    <3> HIDE DEF more, n
    <3> QED BY <1>1, <1>3
  <2>3. \A i \in 1 .. n : t[i] = s[i]
    <3> HIDE DEF more, n
    <3> QED BY <1>1, <1>4
  <2> HIDE DEF t, s, n, more
  <2> QED BY <1>1, <2>1, <2>2, <2>3
<1>7. FlattenSeq(t) = FlattenSeq(s) \o Listing(more, n + 1)
  <2>1. s \in Seq(Seq(Int))
    <3> HIDE DEF n
    <3> QED BY <1>1, <1>2
  <2>2. t[n + 1] = Listing(more, n + 1) /\ t[n + 1] \in Seq(Int)
    <3> HIDE DEF more, n
    <3> QED BY <1>1, <1>3
  <2> HIDE DEF t, s
  <2> QED BY <1>6, <2>1, <2>2, FlattenAppend
<1> QED BY <1>5, <1>7

(***************************************************************************)
(* One turn of the loop over the tokens.                                   *)
(***************************************************************************)

\* A number or an opening token after what is closed, and a closing token after
\* the opening one, keep the list half formed.
LEMMA HalfFormedAppend ==
  ASSUME NEW list \in Seq(Field), NEW f \in Field, HalfFormed(list),
         \/ f.kind \in {"int", "open"} /\ ~EndsOpen(list)
         \/ f.kind = "close" /\ EndsOpen(list) /\ list[Len(list)].num <= f.num
  PROVE  HalfFormed(Append(list, f))
<1> DEFINE n == Len(list)
           more == Append(list, f)
<1>1. /\ more \in Seq(Field) /\ n \in Nat /\ Len(more) = n + 1
      /\ DOMAIN list = 1 .. n /\ DOMAIN more = 1 .. n + 1
      /\ \A i \in 1 .. n : more[i] = list[i]
      /\ more[n + 1] = f
      /\ list # <<>> => n >= 1
  BY AppendIs
<1>2. f.kind = "close" => IsRange(more, n + 1)
  <2> HIDE DEF more
  <2> QED BY <1>1 DEF IsRange, EndsOpen
<1>3. ASSUME NEW i \in 1 .. n, list[i].kind = "open" PROVE IsRange(more, i + 1)
  <2>1. CASE i < n
    <3>1. IsRange(list, i + 1)
      BY <1>1, <1>3, <2>1 DEF HalfFormed
    <3>2. more[i] = list[i] /\ more[i + 1] = list[i + 1] /\ (i + 1) - 1 = i
      BY <1>1, <2>1
    <3> HIDE DEF more, n
    <3> QED BY <3>1, <3>2 DEF IsRange
  <2>2. CASE i = n
    <3>1. list # <<>>
      BY <1>1, <2>2
    <3>2. EndsOpen(list)
      BY <1>3, <2>2, <3>1 DEF EndsOpen
    <3>3. f.kind = "close"
      BY <3>2
    <3> QED BY <1>2, <2>2, <3>3
  <2> HIDE DEF more, n
  <2> QED BY <1>1, <2>1, <2>2
<1>4. ASSUME NEW i \in 1 .. n, list[i].kind = "close" PROVE IsRange(more, i)
  <2>1. IsRange(list, i)
    BY <1>1, <1>4 DEF HalfFormed
  <2>2. i - 1 \in 1 .. n
    BY <1>1, <2>1 DEF IsRange
  <2>3. more[i] = list[i] /\ more[i - 1] = list[i - 1]
    BY <1>1, <2>2
  <2> HIDE DEF more, n
  <2> QED BY <2>1, <2>3 DEF IsRange
<1>5. \A i \in 1 .. n : list[i].kind \in {"int", "open", "close"}
  BY <1>1 DEF HalfFormed
<1> HIDE DEF more, n
<1>6. ASSUME NEW i \in 1 .. n + 1
      PROVE  \/ more[i].kind = "int"
             \/ more[i].kind = "open" /\ (i < Len(more) => IsRange(more, i + 1))
             \/ more[i].kind = "close" /\ IsRange(more, i)
  <2>1. CASE i \in 1 .. n
    BY <1>1, <1>3, <1>4, <1>5, <2>1
  <2>2. CASE i = n + 1
    BY <1>1, <1>2, <2>2
  <2> QED BY <1>1, <2>1, <2>2
<1> QED BY <1>1, <1>6 DEF HalfFormed, more

\* What fits an int is what toInt yields.
LEMMA FittingField ==
  ASSUME NEW f \in Field, f.num \in -MaxInt - 1 .. MaxInt - 1
  PROVE  Wrap(f.num) = f.num /\ f.num # MaxInt /\ f.num \in Int
<1>1. MaxInt \in Nat /\ f.num \in Int
  BY IntBounds DEF Field
<1> QED BY <1>1, WrapFits

\* Which fields are dropped, which are mended, and how.
LEMMA ClosedIs ==
  ASSUME NEW f \in Field
  PROVE  /\ Closed(f) \in Field
         /\ f.kind \in {"int", "open", "close"} => Closed(f) = f /\ NotBlank(f)
         /\ f.kind = "empty" => ~NotBlank(f)
         /\ f.kind \in {"junk", "bare"} => NotBlank(f) /\ Closed(f).kind = "close"
         /\ f.kind = "junk" => Closed(f).num = f.num
         /\ f.kind = "bare" => Closed(f).num = 0
<1>1. Char(FALSE)[1].kind = "char"
  BY DEF Char
<1>2. f.num \in Int /\ f = [kind |-> f.kind, num |-> f.num]
  BY DEF Field
<1>3. CASE f.kind = "bare"
  <2>1. Closed(f) = [kind |-> "close", num |-> 0] /\ NotBlank(f)
    BY <1>1, <1>3 DEF Closed, NotBlank
  <2> QED BY <1>3, <2>1 DEF Field, Kinds
<1>4. CASE f.kind = "junk"
  <2>1. Closed(f) = [f EXCEPT !.kind = "close"] /\ NotBlank(f)
    BY <1>1, <1>4 DEF Closed, NotBlank
  <2>2. Closed(f) = [kind |-> "close", num |-> f.num]
    BY <2>1 DEF Field
  <2> QED BY <1>2, <1>4, <2>1, <2>2 DEF Field, Kinds
<1>5. CASE f.kind \notin {"bare", "junk"}
  <2>1. Closed(f) = f
    BY <1>5 DEF Closed
  <2>2. f.kind \in {"int", "open", "close"} => NotBlank(f)
    BY <1>1 DEF NotBlank
  <2>3. f.kind = "empty" => ~NotBlank(f)
    BY DEF NotBlank
  <2> QED BY <1>5, <2>1, <2>2, <2>3
<1> QED BY <1>3, <1>4, <1>5

\* what a field adds to the closed text
Piece(f) == IF NotBlank(f) THEN << Closed(f) >> ELSE <<>>

\* One turn of the loop that does not fail reads the token.
LEMMA TokenIsRead ==
  ASSUME NEW s \in TokenState, NEW list, NEW f \in Field,
         f.num \in -MaxInt - 1 .. MaxInt - 1,
         Reads(s, list), s.rc = "ok", TakeToken(s, f).rc = "ok"
  PROVE  Reads(TakeToken(s, f), list \o Piece(f))
<1> DEFINE after == TakeToken(s, f)
           c == Closed(f)
<1>1. /\ list \in Seq(Field) /\ HalfFormed(list) /\ s.inRange = EndsOpen(list)
      /\ s.inRange => s.start = list[Len(list)].num
      /\ s.value = Listed(list)
  BY DEF Reads
<1>2. Wrap(f.num) = f.num /\ f.num # MaxInt /\ f.num \in Int
  BY FittingField
<1>3. CASE f.kind = "empty"
  <2>1. after = s
    BY <1>3 DEF TakeToken
  <2>2. Piece(f) = <<>>
    BY <1>3, ClosedIs DEF Piece
  <2>3. list \o <<>> = list
    BY <1>1
  <2> QED BY <2>1, <2>2, <2>3
<1>4. ASSUME Piece(f) = << c >>, c \in Field, HalfFormed(Append(list, c)),
             after.inRange = (c.kind = "open"),
             after.inRange => after.start = c.num,
             after.value = s.value \o Listing(Append(list, c), Len(list) + 1)
      PROVE  Reads(after, list \o Piece(f))
  <2> DEFINE more == Append(list, c)
  <2>1. list \o Piece(f) = more
    BY <1>1, <1>4
  <2>2. /\ more \in Seq(Field) /\ Len(more) = Len(list) + 1 /\ Len(list) \in Nat
        /\ more[Len(list) + 1] = c
    BY <1>1, <1>4, AppendIs
  <2>3. Listed(more) = Listed(list) \o Listing(more, Len(list) + 1)
    BY <1>1, <1>4, ListedAppend
  <2>4. HalfFormed(more) /\ after.value = s.value \o Listing(more, Len(list) + 1)
    BY <1>4
  <2>5. more # <<>>
    BY <2>2
  <2> HIDE DEF more, after, c
  <2>6. EndsOpen(more) = (c.kind = "open")
    BY <2>2, <2>5 DEF EndsOpen
  <2> QED BY <1>1, <1>4, <2>1, <2>2, <2>3, <2>4, <2>6 DEF Reads
<1>5. CASE f.kind = "open"
  <2>1. ~s.inRange
    BY <1>5 DEF TakeToken, TokenState
  <2>2. after = [s EXCEPT !.inRange = TRUE, !.start = Wrap(f.num)]
    BY <1>5, <2>1 DEF TakeToken, TokenState
  <2>3. c = f /\ Piece(f) = << f >>
    BY <1>5, ClosedIs DEF Piece
  <2>4. HalfFormed(Append(list, f))
    BY <1>1, <1>5, <2>1, HalfFormedAppend
  <2>5. Listing(Append(list, f), Len(list) + 1) = <<>>
    BY <1>1, <1>5, AppendIs DEF Listing
  <2>6. after.inRange = TRUE /\ after.start = f.num /\ after.value = s.value
    BY <1>2, <2>2 DEF TokenState
  <2>7. s.value \o <<>> = s.value
    BY DEF TokenState
  <2> HIDE DEF c
  <2> QED BY <1>4, <1>5, <2>3, <2>4, <2>5, <2>6, <2>7
<1>6. CASE f.kind = "int"
  <2>1. ~s.inRange
    BY <1>6 DEF TakeToken, TokenState
  <2>2. after = [s EXCEPT !.value = Append(@, Wrap(f.num))]
    BY <1>6, <2>1 DEF TakeToken, TokenState
  <2>3. c = f /\ Piece(f) = << f >>
    BY <1>6, ClosedIs DEF Piece
  <2>4. HalfFormed(Append(list, f))
    BY <1>1, <1>6, <2>1, HalfFormedAppend
  <2>5. Listing(Append(list, f), Len(list) + 1) = << f.num >>
    BY <1>1, <1>6, AppendIs DEF Listing
  <2>6. after.inRange = FALSE /\ after.value = Append(s.value, f.num)
    BY <1>2, <2>1, <2>2 DEF TokenState
  <2>7. Append(s.value, f.num) = s.value \o << f.num >>
    BY <1>2 DEF TokenState
  <2> HIDE DEF c
  <2> QED BY <1>4, <1>6, <2>3, <2>4, <2>5, <2>6, <2>7
<1>7. CASE f.kind \in {"close", "junk", "bare"}
  <2> DEFINE end == UpperLimit(f)
  <2>1. c.kind = "close" /\ c.num = end /\ c \in Field /\ Piece(f) = << c >>
    BY <1>2, <1>7, ClosedIs DEF Piece, UpperLimit
  <2>2. s.inRange
    BY <1>7 DEF TakeToken, TokenState
  <2>3. Increases(s.start, end)
    BY <1>7, <2>2 DEF TakeToken, TokenState
  <2>4. end # MaxInt
    BY <1>7, <2>2, <2>3 DEF TakeToken, TokenState
  <2>5. after = [s EXCEPT !.inRange = FALSE, !.value = @ \o Ints(s.start, end)]
    BY <1>7, <2>2, <2>3, <2>4 DEF TakeToken, TokenState
  <2>6. list[Len(list)].num <= c.num /\ EndsOpen(list) /\ s.start = list[Len(list)].num
    BY <1>1, <2>1, <2>2, <2>3 DEF Increases
  <2>7. HalfFormed(Append(list, c))
    BY <1>1, <2>1, <2>6, HalfFormedAppend
  <2>8. Listing(Append(list, c), Len(list) + 1) = Ints(s.start, end)
    <3> DEFINE more == Append(list, c)
               n == Len(list)
    <3>1. /\ more \in Seq(Field) /\ n \in Nat /\ Len(more) = n + 1 /\ more[n + 1] = c
          /\ \A i \in 1 .. n : more[i] = list[i]
      BY <1>1, <2>1, AppendIs
    <3>2. n \in 1 .. n /\ (n + 1) - 1 = n
      BY <1>1, <2>6, <3>1 DEF EndsOpen
    <3>3. more[n] = list[n] /\ n + 1 \in 1 .. Len(more) /\ more[n + 1].kind = "close"
      BY <2>1, <3>1, <3>2
    <3> HIDE DEF more, n, c, after, end
    <3>4. Listing(more, n + 1) = Ints(more[n].num, more[n + 1].num)
      BY <2>7, <3>1, <3>2, <3>3, ListingIs DEF more
    <3> QED BY <2>1, <2>6, <3>1, <3>3, <3>4 DEF more, n
  <2>9. after.inRange = FALSE /\ after.value = s.value \o Ints(s.start, end)
    BY <2>5 DEF TokenState
  <2> HIDE DEF c, end
  <2> QED BY <1>4, <2>1, <2>7, <2>8, <2>9
<1>8. f.kind \in {"empty", "open", "int", "close", "junk", "bare"}
  BY DEF TakeToken, TokenState
<1> QED BY <1>3, <1>5, <1>6, <1>7, <1>8

(***************************************************************************)
(* The loop over a whole text, by induction over how much of it is read.   *)
(***************************************************************************)

Begin == [rc |-> "ok", inRange |-> FALSE, start |-> 0, value |-> <<>>]

\* the first k fields
Upto(text, k) == [i \in 1 .. k |-> text[i]]

\* F are the states of the loop.
IsRun(F, text) ==
  /\ F[0] = Begin
  /\ \A k \in 0 .. Len(text) - 1 : F[k + 1] = TakeToken(F[k], text[k + 1])

\* The first fields of a text, with one more each time, up to the whole of it.
LEMMA UptoIs ==
  ASSUME NEW text \in Seq(Field)
  PROVE  /\ Upto(text, 0) = <<>> /\ Upto(text, Len(text)) = text
         /\ \A k \in 0 .. Len(text) : Upto(text, k) \in Seq(Field)
         /\ \A k \in 0 .. Len(text) - 1 : Upto(text, k + 1) = Append(Upto(text, k), text[k + 1])
<1>1. /\ Len(text) \in Nat /\ DOMAIN text = 1 .. Len(text)
      /\ \A i \in 1 .. Len(text) : text[i] \in Field
  BY FieldOf
<1>2. Upto(text, 0) = <<>>
  BY DEF Upto
<1>3. Upto(text, Len(text)) = text
  BY <1>1 DEF Upto
<1>4. ASSUME NEW k \in 0 .. Len(text)
      PROVE  Upto(text, k) \in Seq(Field) /\ Len(Upto(text, k)) = k
  <2>1. k \in Nat /\ \A i \in 1 .. k : text[i] \in Field
    BY <1>1
  <2> QED BY <2>1 DEF Upto
<1>5. ASSUME NEW k \in 0 .. Len(text) - 1
      PROVE  Upto(text, k + 1) = Append(Upto(text, k), text[k + 1])
  <2> DEFINE a == Upto(text, k)
             b == Upto(text, k + 1)
             x == text[k + 1]
  <2>1. k \in 0 .. Len(text) /\ k + 1 \in 0 .. Len(text) /\ k + 1 \in 1 .. Len(text)
    BY <1>1
  <2>2. a \in Seq(Field) /\ Len(a) = k /\ b \in Seq(Field) /\ Len(b) = k + 1 /\ x \in Field
    BY <1>1, <1>4, <2>1
  <2>3. /\ \A i \in 1 .. k : b[i] = a[i]
        /\ b[k + 1] = x
    BY <2>1 DEF Upto
  <2> HIDE DEF a, b, x
  <2>4. b = Append(a, x)
    BY <2>1, <2>2, <2>3
  <2> QED BY <2>4 DEF a, b, x
<1> QED BY <1>2, <1>3, <1>4, <1>5

\* One field more adds its piece to the closed text.
LEMMA ClosingAppend ==
  ASSUME NEW text \in Seq(Field), NEW f \in Field
  PROVE  Closing(Append(text, f)) = Closing(text) \o Piece(f)
<1> DEFINE n == Len(text)
           more == Append(text, f)
           s == [i \in 1 .. n |-> Piece(text[i])]
           t == [i \in 1 .. n + 1 |-> Piece(more[i])]
<1>1. /\ more \in Seq(Field) /\ n \in Nat /\ Len(more) = n + 1
      /\ DOMAIN text = 1 .. n /\ DOMAIN more = 1 .. n + 1
      /\ \A i \in 1 .. n : more[i] = text[i]
      /\ more[n + 1] = f
  BY AppendIs
<1>2. \A g \in Field : Piece(g) \in Seq(Field)
  <2>1. \A g \in Field : Closed(g) \in Field
    BY ClosedIs
  <2> QED BY <2>1 DEF Piece
<1>3. /\ \A i \in 1 .. n : text[i] \in Field
      /\ \A i \in 1 .. n + 1 : more[i] \in Field
  <2> HIDE DEF more, n
  <2> QED BY <1>1, FieldOf DEF n
<1>4. Closing(text) = FlattenSeq(s) /\ Closing(more) = FlattenSeq(t)
  <2> HIDE DEF more, n
  <2> QED BY <1>1 DEF Closing, Piece
<1>5. s \in Seq(Seq(Field)) /\ Len(s) = n /\ t \in Seq(Seq(Field)) /\ Len(t) = n + 1
  <2>1. /\ \A i \in 1 .. n : Piece(text[i]) \in Seq(Field)
        /\ \A i \in 1 .. n + 1 : Piece(more[i]) \in Seq(Field)
    <3> HIDE DEF more, n
    <3> QED BY <1>2, <1>3
  <2>2. s \in [1 .. n -> Seq(Field)] /\ t \in [1 .. n + 1 -> Seq(Field)] /\ n + 1 \in Nat
    <3> HIDE DEF more, n
    <3> QED BY <1>1, <2>1
  <2> HIDE DEF s, t, n
  <2> QED BY <1>1, <2>2
<1>6. t = Append(s, Piece(f))
  <2>1. /\ \A i \in 1 .. n : t[i] = s[i]
        /\ t[n + 1] = Piece(f)
    <3> HIDE DEF more, n
    <3> QED BY <1>1
  <2>2. Piece(f) \in Seq(Field)
    BY <1>2
  <2> HIDE DEF t, s, n, more
  <2> QED BY <1>1, <1>5, <2>1, <2>2
<1>7. FlattenSeq(Append(s, Piece(f))) = FlattenSeq(s) \o Piece(f)
  <2> HIDE DEF s
  <2> QED BY <1>2, <1>5, FlattenAppend
<1> QED BY <1>4, <1>6, <1>7

\* Every text has its run of the loop.
LEMMA RunOf ==
  ASSUME NEW text \in Seq(Field)
  PROVE  \E F : IsRun(F, text) /\ Tokens(Begin, text) = F[Len(text)]
<1> DEFINE n == Len(text)
<1>1. n \in Nat /\ DOMAIN text = 1 .. n
  BY FieldOf
<1> HIDE DEF n
<1>2. PICK F : /\ F[0] = Begin
               /\ \A k \in 0 .. n - 1 : F[k + 1] = TakeToken(F[k], text[k + 1])
               /\ Tokens(Begin, text) = F[n]
  BY <1>1, FoldTokens, SMTT(30)
<1> QED BY <1>2, Zenon DEF IsRun, n

\* As long as the loop has not failed, it has read what the closed text lists.
LEMMA RunReads ==
  ASSUME NEW text \in Seq(Field), Fits(text), NEW F, IsRun(F, text)
  PROVE  \A k \in 0 .. Len(text) :
           F[k] \in TokenState /\ (F[k].rc = "ok" => Reads(F[k], Closing(Upto(text, k))))
<1> DEFINE n == Len(text)
           Holds(k) == F[k] \in TokenState /\ (F[k].rc = "ok" => Reads(F[k], Closing(Upto(text, k))))
           N == {k \in Nat : k \in 0 .. n => Holds(k)}
<1>1. 0 \in N
  <2>1. F[0] = Begin
    BY DEF IsRun
  <2>2. Begin \in TokenState
    BY DEF Begin, TokenState
  <2>3. Closing(<<>>) = <<>> /\ Listed(<<>>) = <<>>
    BY DEF Closing, Listed, FlattenSeq
  <2>4. Reads(Begin, <<>>)
    <3>1. Begin.inRange = FALSE /\ Begin.value = <<>>
      BY DEF Begin
    <3>2. <<>> \in Seq(Field) /\ DOMAIN <<>> = {}
      OBVIOUS
    <3>3. HalfFormed(<<>>)
      BY <3>2, Zenon DEF HalfFormed
    <3>4. EndsOpen(<<>>) = FALSE
      BY Zenon DEF EndsOpen
    <3> QED BY <2>3, <3>1, <3>2, <3>3, <3>4, Zenon DEF Reads
  <2> QED BY <2>1, <2>2, <2>3, <2>4, UptoIs
<1>2. ASSUME NEW k \in Nat, k \in N PROVE k + 1 \in N
  <2>1. SUFFICES ASSUME k + 1 \in 0 .. n PROVE Holds(k + 1)
    OBVIOUS
  <2>2. n \in Nat /\ k \in 0 .. n /\ k \in 0 .. n - 1 /\ k + 1 \in 1 .. n
    BY <2>1, FieldOf
  <2> DEFINE f == text[k + 1]
  <2>3. F[k + 1] = TakeToken(F[k], f)
    BY <2>2 DEF IsRun
  <2>4. f \in Field /\ f.num \in -MaxInt - 1 .. MaxInt - 1
    BY <2>2, FieldOf DEF Fits
  <2>5. F[k] \in TokenState /\ (F[k].rc = "ok" => Reads(F[k], Closing(Upto(text, k))))
    BY <1>2, <2>2
  <2>6. Closing(Upto(text, k + 1)) = Closing(Upto(text, k)) \o Piece(f)
    BY <2>2, <2>4, UptoIs, ClosingAppend
  <2> HIDE DEF f
  <2>7. F[k + 1] \in TokenState
    BY <2>3, <2>4, <2>5, TakeTokenType
  <2>8. F[k + 1].rc = "ok" => F[k].rc = "ok"
    BY <2>3 DEF TakeToken
  <2> QED BY <2>3, <2>4, <2>5, <2>6, <2>7, <2>8, TokenIsRead
<1>3. Nat \subseteq N
  <2> HIDE DEF N
  <2> QED BY <1>1, <1>2, NatSetInduction
<1>4. n \in Nat
  BY FieldOf
<1> QED BY <1>3, <1>4

\* Nothing need be repaired in a documented list.
LEMMA ClosingSame ==
  ASSUME NEW text \in Seq(Field), \A i \in 1 .. Len(text) : text[i].kind \in {"int", "open", "close"}
  PROVE  \A k \in 0 .. Len(text) : Closing(Upto(text, k)) = Upto(text, k)
<1> DEFINE n == Len(text)
           N == {k \in Nat : k \in 0 .. n => Closing(Upto(text, k)) = Upto(text, k)}
<1>1. 0 \in N
  BY UptoIs DEF Closing, FlattenSeq
<1>2. ASSUME NEW k \in Nat, k \in N PROVE k + 1 \in N
  <2>1. SUFFICES ASSUME k + 1 \in 0 .. n PROVE Closing(Upto(text, k + 1)) = Upto(text, k + 1)
    OBVIOUS
  <2>2. n \in Nat /\ k \in 0 .. n /\ k \in 0 .. n - 1 /\ k + 1 \in 1 .. n
    BY <2>1, FieldOf
  <2> DEFINE f == text[k + 1]
             s == Upto(text, k)
  <2>3. f \in Field /\ Piece(f) = << f >>
    BY <2>2, FieldOf, ClosedIs DEF Piece
  <2>4. Upto(text, k + 1) = Append(s, f) /\ s \in Seq(Field)
    BY <2>2, UptoIs
  <2>5. Closing(Append(s, f)) = Closing(s) \o << f >>
    BY <2>3, <2>4, ClosingAppend
  <2>6. Closing(s) = s
    BY <1>2, <2>2
  <2> HIDE DEF s, f
  <2>7. s \o << f >> = Append(s, f)
    BY <2>3, <2>4
  <2> QED BY <2>4, <2>5, <2>6, <2>7
<1>3. Nat \subseteq N
  <2> HIDE DEF N
  <2> QED BY <1>1, <1>2, NatSetInduction
<1>4. n \in Nat
  BY FieldOf
<1> QED BY <1>3, <1>4

\* The loop does not fail on a documented list.
LEMMA RunSucceeds ==
  ASSUME NEW text \in Seq(Field), Fits(text), WellFormed(text), NEW F, IsRun(F, text)
  PROVE  \A k \in 0 .. Len(text) : F[k].rc = "ok"
<1> DEFINE n == Len(text)
           N == {k \in Nat : k \in 0 .. n => F[k].rc = "ok"}
<1>1. 0 \in N
  BY DEF IsRun, Begin
<1>2. ASSUME NEW k \in Nat, k \in N PROVE k + 1 \in N
  <2>1. SUFFICES ASSUME k + 1 \in 0 .. n PROVE F[k + 1].rc = "ok"
    OBVIOUS
  <2>2. /\ n \in Nat /\ k \in 0 .. n /\ k \in 0 .. n - 1 /\ k + 1 \in 1 .. n
        /\ DOMAIN text = 1 .. n
    BY <2>1, FieldOf
  <2> DEFINE f == text[k + 1]
             s == F[k]
             list == Upto(text, k)
  <2>3. F[k + 1] = TakeToken(s, f)
    BY <2>2 DEF IsRun
  <2>4. f \in Field /\ f.num \in -MaxInt - 1 .. MaxInt - 1
    BY <2>2, FieldOf DEF Fits
  <2>5. Wrap(f.num) = f.num /\ f.num # MaxInt /\ f.num \in Int
    BY <2>4, FittingField
  <2>6. \A i \in 1 .. n : text[i].kind \in {"int", "open", "close"}
    BY <2>2 DEF WellFormed
  <2>7. s.rc = "ok" /\ s \in TokenState /\ Reads(s, list)
    <3>1. Closing(list) = list
      BY <2>2, <2>6, ClosingSame
    <3> QED BY <1>2, <2>2, <3>1, RunReads
  <2>8. /\ Len(list) = k
        /\ k # 0 => list # <<>> /\ list[k] = text[k] /\ k \in 1 .. n
        /\ k = 0 => list = <<>>
    BY <2>2 DEF Upto
  <2>9. s.inRange = (k # 0 /\ text[k].kind = "open")
    <3> HIDE DEF list, s
    <3> QED BY <2>2, <2>7, <2>8 DEF Reads, EndsOpen
  <2>10. s.inRange => s.start = text[k].num
    <3> HIDE DEF list, s
    <3> QED BY <2>2, <2>7, <2>8, <2>9 DEF Reads
  <2>11. CASE f.kind \in {"int", "open"}
    <3>1. ~s.inRange
      <4>1. SUFFICES ASSUME k # 0, text[k].kind = "open" PROVE FALSE
        BY <2>9
      <4>2. k \in 1 .. n /\ k < n
        BY <2>2, <4>1
      <4>3. IsRange(text, k + 1)
        BY <2>2, <4>1, <4>2 DEF WellFormed
      <4>4. f.kind = "close"
        BY <4>3 DEF IsRange
      <4> QED BY <2>11, <4>4
    <3>2. CASE f.kind = "int"
      <4>1. TakeToken(s, f) = [s EXCEPT !.value = Append(@, Wrap(f.num))]
        <5> HIDE DEF s, f
        <5> QED BY <2>7, <3>1, <3>2 DEF TakeToken
      <4> QED BY <2>3, <2>7, <4>1 DEF TokenState
    <3>3. CASE f.kind = "open"
      <4>1. TakeToken(s, f) = [s EXCEPT !.inRange = TRUE, !.start = Wrap(f.num)]
        <5> HIDE DEF s, f
        <5> QED BY <2>7, <3>1, <3>3 DEF TakeToken
      <4> QED BY <2>3, <2>7, <4>1 DEF TokenState
    <3> QED BY <2>11, <3>2, <3>3
  <2>12. CASE f.kind = "close"
    <3>1. IsRange(text, k + 1)
      BY <2>2, <2>12 DEF WellFormed
    <3>2. k > 0 /\ text[k].kind = "open" /\ text[k].num <= f.num
      BY <2>2, <3>1 DEF IsRange
    <3>3. s.inRange /\ s.start <= f.num
      <4> HIDE DEF s, f
      <4>1. k # 0
        BY <2>2, <3>2
      <4>2. s.inRange
        BY <2>9, <3>2, <4>1, Zenon
      <4> QED BY <2>10, <3>2, <4>2
    <3>4. UpperLimit(f) = f.num
      BY <2>5, <2>12 DEF UpperLimit
    <3>5. TakeToken(s, f) = [s EXCEPT !.inRange = FALSE, !.value = @ \o Ints(s.start, f.num)]
      <4> HIDE DEF s, f
      <4> QED BY <2>5, <2>7, <2>12, <3>3, <3>4 DEF TakeToken, Increases
    <3> QED BY <2>3, <2>7, <3>5 DEF TokenState
  <2> QED BY <2>2, <2>6, <2>11, <2>12
<1>3. Nat \subseteq N
  <2> HIDE DEF N
  <2> QED BY <1>1, <1>2, NatSetInduction
<1>4. n \in Nat
  BY FieldOf
<1> QED BY <1>3, <1>4

\* What extractIntList makes of the state its loop ends in.
LEMMA ExtractIs ==
  ASSUME NEW text
  PROVE  LET all == Tokens(Begin, text)
         IN ExtractIntList(text) =
              IF IsEmpty(text) /\ Asserts THEN Lost
              ELSE IF HasSpace(text) \/ LeadingComma(text) THEN Bad
              ELSE IF all.rc = "lost" THEN Lost
              ELSE IF all.rc = "bad" \/ all.value = <<>> THEN Bad
              ELSE Ok(all.value)
BY Zenon DEF ExtractIntList, Tokens, Begin

(***************************************************************************)
(* The whole of extractIntList.                                            *)
(***************************************************************************)

\* A list that ends in a number or in a closed range is more than nothing.
LEMMA ListedSome ==
  ASSUME NEW list \in Seq(Field), NEW f \in Field, HalfFormed(list), HalfFormed(Append(list, f)),
         f.kind # "open"
  PROVE  Listed(Append(list, f)) # <<>>
<1> DEFINE n == Len(list)
           more == Append(list, f)
           adds == Listing(more, n + 1)
<1>1. /\ more \in Seq(Field) /\ n \in Nat /\ Len(more) = n + 1
      /\ DOMAIN more = 1 .. n + 1 /\ more[n + 1] = f
      /\ n + 1 \in 1 .. n + 1 /\ (n + 1) - 1 = n
  BY AppendIs
<1>2. f.kind \in {"int", "open", "close"}
  <2> HIDE DEF more, n
  <2> QED BY <1>1 DEF HalfFormed, more
<1>3. adds \in Seq(Int) /\ adds # <<>>
  <2> HIDE DEF n
  <2>1. HalfFormed(more)
    OBVIOUS
  <2> HIDE DEF more
  <2>2. CASE f.kind = "int"
    <3>1. adds = << f.num >> /\ adds \in Seq(Int)
      BY <1>1, <2>1, <2>2, ListingIs
    <3>2. << f.num >> # <<>>
      OBVIOUS
    <3> HIDE DEF adds
    <3> QED BY <3>1, <3>2
  <2>3. CASE f.kind = "close"
    <3>1. /\ n + 1 > 1 /\ adds = Ints(more[n].num, more[n + 1].num) /\ adds \in Seq(Int)
          /\ more[n].num <= more[n + 1].num
      BY <1>1, <2>1, <2>3, ListingIs
    <3>2. n \in 1 .. n + 1
      BY <1>1, <3>1
    <3>3. more[n].num \in Int /\ more[n + 1].num \in Int
      BY <1>1, <3>2, FieldOf
    <3> QED BY <3>1, <3>3, IntsType
  <2> QED BY <1>2, <2>2, <2>3
<1>4. Listed(more) = Listed(list) \o adds
  BY ListedAppend
<1>5. Listed(list) \in Seq(Int)
  BY ListedType
<1> HIDE DEF adds, more
<1> QED BY <1>3, <1>4, <1>5 DEF more

\* extractIntList reads every documented list that fits an int as it stands.
LEMMA DocumentedListIsRead ==
  ASSUME NEW text \in Text, WellFormed(text), Fits(text)
  PROVE  ExtractIntList(text).rc = "ok" /\ ExtractIntList(text).value = Listed(text)
<1> DEFINE n == Len(text)
           all == Tokens(Begin, text)
           front == Upto(text, n - 1)
           last == text[n]
<1>1. /\ text \in Seq(Field) /\ DOMAIN text = 1 .. n
      /\ n \in Nat /\ n >= 1 /\ n - 1 \in 0 .. n - 1 /\ n - 1 \in 0 .. n /\ n \in 0 .. n
      /\ (n - 1) + 1 = n /\ n \in 1 .. n /\ 1 \in 1 .. n
  <2>1. text \in Seq(Field) /\ text # <<>>
    BY DEF Text
  <2>2. n \in Nat /\ n # 0
    BY <2>1
  <2> HIDE DEF n
  <2> QED BY <2>1, <2>2, FieldOf DEF n
<1>2. \A i \in 1 .. n : text[i].kind \in {"int", "open", "close"}
  BY <1>1 DEF WellFormed
<1>3. PICK F : IsRun(F, text) /\ all = F[n]
  BY <1>1, RunOf
<1>4. all.rc = "ok"
  BY <1>1, <1>3, RunSucceeds
<1>5. all \in TokenState /\ Reads(all, text)
  <2>1. Closing(Upto(text, n)) = text
    BY <1>1, <1>2, ClosingSame, UptoIs
  <2> QED BY <1>1, <1>3, <1>4, <2>1, RunReads
<1>6. F[n - 1] \in TokenState /\ Reads(F[n - 1], front)
  <2>1. Closing(front) = front
    BY <1>1, <1>2, ClosingSame
  <2>2. F[n - 1].rc = "ok"
    BY <1>1, <1>3, RunSucceeds
  <2> QED BY <1>1, <1>3, <2>1, <2>2, RunReads
<1>7. all.value # <<>>
  <2>1. text = Append(front, last) /\ front \in Seq(Field) /\ last \in Field
    BY <1>1, UptoIs, FieldOf
  <2>2. HalfFormed(front) /\ HalfFormed(text)
    BY <1>5, <1>6 DEF Reads
  <2>3. last.kind # "open"
    BY <1>1 DEF WellFormed
  <2> HIDE DEF front, last, all
  <2>4. Listed(text) # <<>>
    BY <2>1, <2>2, <2>3, ListedSome
  <2> QED BY <1>5, <2>4 DEF Reads
<1>8. ~IsEmpty(text) /\ ~HasSpace(text) /\ ~LeadingComma(text)
  BY <1>1, <1>2 DEF IsEmpty, IsOne, HasSpace, LeadingComma
<1>9. ExtractIntList(text) = Ok(all.value)
  <2> HIDE DEF all
  <2> QED BY <1>4, <1>7, <1>8, ExtractIs DEF all
<1> HIDE DEF all
<1> QED BY <1>5, <1>9 DEF Ok, Reads

\* What extractIntList accepts, it reads as the list that repairing it gives.
LEMMA AcceptedListIsRepaired ==
  ASSUME NEW text \in Text, Fits(text), ExtractIntList(text).rc = "ok"
  PROVE  WellFormed(Repaired(text)) /\ ExtractIntList(text).value = Listed(Repaired(text))
<1> DEFINE n == Len(text)
           all == Tokens(Begin, text)
           list == Closing(text)
<1>1. text \in Seq(Field) /\ n \in Nat /\ n \in 0 .. n
  <2>1. text \in Seq(Field)
    BY DEF Text
  <2> QED BY <2>1, FieldOf
<1>2. PICK F : IsRun(F, text) /\ all = F[n]
  BY <1>1, RunOf
<1>3. all \in TokenState /\ (all.rc = "ok" => Reads(all, list))
  BY <1>1, <1>2, RunReads, UptoIs
<1>4. all.rc = "ok" /\ ExtractIntList(text).value = all.value
  <2> HIDE DEF all
  <2>1. ExtractIntList(text) = Ok(all.value) /\ all.rc \notin {"lost", "bad"}
    BY ExtractIs DEF Lost, Bad, all
  <2> QED BY <1>3, <2>1 DEF Ok, TokenState
<1>5. /\ list \in Seq(Field) /\ HalfFormed(list)
      /\ ExtractIntList(text).value = Listed(list)
  BY <1>3, <1>4 DEF Reads
<1> HIDE DEF list, all, n
<1>6. CASE ~EndsOpen(list)
  <2>1. Repaired(text) = list
    BY <1>6 DEF Repaired, EndsOpen, Last, list
  <2>2. WellFormed(list)
    <3>1. DOMAIN list = 1 .. Len(list) /\ Len(list) \in Nat
      BY <1>5, FieldOf
    <3>2. ASSUME NEW i \in 1 .. Len(list), list[i].kind = "open" PROVE i < Len(list)
      <4>1. list # <<>>
        BY <1>5
      <4>2. i # Len(list)
        BY <1>6, <3>2, <4>1 DEF EndsOpen
      <4> DEFINE m == Len(list)
      <4>3. i \in 1 .. m /\ m \in Nat /\ i # m
        BY <3>1, <4>2
      <4> HIDE DEF m
      <4>4. i < m
        BY <4>3
      <4> QED BY <4>4 DEF m
    <3> QED BY <1>5, <3>1, <3>2 DEF HalfFormed, WellFormed
  <2> QED BY <1>5, <2>1, <2>2
<1>7. CASE EndsOpen(list)
  <2> DEFINE k == Len(list)
             front == Upto(list, k - 1)
             last == list[k]
  <2>1. /\ k \in Nat /\ k >= 1 /\ k - 1 \in 0 .. k - 1 /\ k - 1 \in 0 .. k /\ k - 1 \in Nat
        /\ k \in 1 .. k /\ (k - 1) + 1 = k /\ last.kind = "open"
        /\ DOMAIN list = 1 .. k
    <3>1. k # 0 /\ k \in Nat
      BY <1>5, <1>7 DEF EndsOpen
    <3> HIDE DEF k
    <3> QED BY <1>5, <1>7, <3>1, FieldOf DEF EndsOpen, k
  <2>2. /\ list = Append(front, last) /\ front \in Seq(Field) /\ last \in Field
        /\ Len(front) = k - 1 /\ DOMAIN front = 1 .. k - 1
        /\ \A i \in 1 .. k - 1 : front[i] = list[i]
    <3>1. list = Append(front, last) /\ front \in Seq(Field) /\ last \in Field
      BY <1>5, <2>1, UptoIs, FieldOf
    <3>2. front = [i \in 1 .. k - 1 |-> list[i]]
      BY DEF Upto
    <3>3. Len(front) = k - 1 /\ DOMAIN front = 1 .. k - 1
      <4> HIDE DEF k, last
      <4>1. DOMAIN front = 1 .. k - 1
        BY <3>2
      <4> HIDE DEF front
      <4> QED BY <2>1, <3>1, <4>1, FieldOf
    <3> HIDE DEF k, last
    <3>4. \A i \in 1 .. k - 1 : front[i] = list[i]
      BY <3>2
    <3> QED BY <3>1, <3>3, <3>4
  <2>3. Repaired(text) = front
    <3>1. Front(list) = front
      <4> HIDE DEF k, last
      <4>1. Front(list) = [i \in 1 .. k - 1 |-> list[i]]
        BY <1>5, <2>1 DEF Front, k
      <4> QED BY <4>1 DEF Upto
    <3> HIDE DEF k, front, last
    <3> QED BY <1>7, <3>1 DEF Repaired, EndsOpen, Last, list
  <2>4. ASSUME NEW i \in 1 .. k - 1
        PROVE  \/ front[i].kind = "int"
               \/ front[i].kind = "open" /\ i < k - 1 /\ IsRange(front, i + 1)
               \/ front[i].kind = "close" /\ IsRange(front, i)
    <3>1. /\ i \in 1 .. k /\ i < k /\ front[i] = list[i]
          /\ i < k - 1 => front[i + 1] = list[i + 1] /\ (i + 1) - 1 = i
          /\ i > 1 => front[i - 1] = list[i - 1]
      <4> HIDE DEF k, front, last
      <4> QED BY <2>1, <2>2
    <3>2. \/ list[i].kind = "int"
          \/ list[i].kind = "open" /\ IsRange(list, i + 1)
          \/ list[i].kind = "close" /\ IsRange(list, i)
      BY <2>1, <3>1, <1>5 DEF HalfFormed
    <3>3. list[i].kind = "open" /\ IsRange(list, i + 1) => i < k - 1
      <4>1. i = k - 1 => list[i + 1].kind = "open"
        BY <2>1
      <4> HIDE DEF k
      <4> QED BY <2>1, <3>1, <4>1 DEF IsRange
    <3> HIDE DEF front, k
    <3> QED BY <3>1, <3>2, <3>3 DEF IsRange
  <2> HIDE DEF k, front, last
  <2>5. WellFormed(front) /\ HalfFormed(front)
    BY <2>2, <2>4 DEF WellFormed, HalfFormed
  <2>6. Listed(list) = Listed(front)
    <3>1. Listing(list, k) = <<>>
      BY <1>5, <2>1, ListingIs DEF k, last
    <3>2. Listed(list) = Listed(front) \o <<>>
      BY <1>5, <2>1, <2>2, <2>5, <3>1, ListedAppend
    <3>3. Listed(front) \in Seq(Int)
      BY <2>2, <2>5, ListedType
    <3> QED BY <3>2, <3>3
  <2> QED BY <1>5, <2>3, <2>5, <2>6
<1> QED BY <1>6, <1>7

\* extractIntList reads every documented list that fits an int as its comment says,
\* for every width of an int and every text, however long: each range in place, in
\* order, and complete.
THEOREM DocumentedListsRead == Spec => []ListsReadAsDocumented
<1>1. TypeOK => ListsReadAsDocumented
  <2>1. SUFFICES ASSUME TypeOK, NEW v \in Variables, WellFormed(unix[v]), unix[v] # Unset, Fits(unix[v])
                 PROVE  /\ ExtractIntList(unix[v]).rc = "ok"
                        /\ ExtractIntList(unix[v]).value = Listed(unix[v])
    BY DEF ListsReadAsDocumented
  <2>2. unix[v] \in Text
    BY <2>1 DEF TypeOK
  <2> QED BY <2>1, <2>2, DocumentedListIsRead
<1>2. QED BY TypeCorrect, <1>1, PTL

\* Whatever text extractIntList accepts, it reads as the documented list that is left
\* once blank fields, the rest of closing tokens and a range open at the end are
\* passed over: nothing else gets through, for every text, however long.
THEOREM AcceptedTextsAreLists == Spec => []AcceptedListsRepair
<1>1. TypeOK => AcceptedListsRepair
  <2>1. SUFFICES ASSUME TypeOK, NEW v \in Variables, unix[v] # Unset, Fits(unix[v]),
                        ExtractIntList(unix[v]).rc = "ok"
                 PROVE  /\ WellFormed(Repaired(unix[v]))
                        /\ ExtractIntList(unix[v]).value = Listed(Repaired(unix[v]))
    BY DEF AcceptedListsRepair
  <2>2. unix[v] \in Text
    BY <2>1 DEF TypeOK
  <2> QED BY <2>1, <2>2, AcceptedListIsRepaired
<1>2. QED BY TypeCorrect, <1>1, PTL

(***************************************************************************)
(* What ends the process.                                                  *)
(***************************************************************************)

\* The text opens a range and has a token behind it that closes one at the largest int.
EndsAtMax(text) ==
  \E i, j \in DOMAIN text :
    /\ i < j /\ text[i].kind = "open"
    /\ text[j].kind \in {"close", "junk", "bare"} /\ UpperLimit(text[j]) = MaxInt

\* The process dies at the reset of a variable it does not export, at the empty list in a
\* build with assertions, or at a range up to the largest int.
DiesForCause ==
  [][lost' => \E v \in Variables : \/ Reset(v) /\ unix[v] = Unset
                                   \/ IsEmpty(Source(v)) /\ Asserts
                                   \/ EndsAtMax(Source(v))]_vars

\* In a range, the loop has passed the token that opened it.
LEMMA RunIsLost ==
  ASSUME NEW text \in Seq(Field), NEW F, IsRun(F, text)
  PROVE  F[Len(text)].rc = "lost" => EndsAtMax(text)
<1> DEFINE n == Len(text)
           Opened(k) == \E i \in 1 .. k : text[i].kind = "open"
           Holds(k) == /\ F[k] \in TokenState
                       /\ F[k].inRange => Opened(k)
                       /\ F[k].rc = "lost" => EndsAtMax(text)
           N == {k \in Nat : k \in 0 .. n => Holds(k)}
<1>1. 0 \in N
  <2>1. F[0] = Begin /\ Begin \in TokenState /\ ~Begin.inRange /\ Begin.rc # "lost"
    BY DEF IsRun, Begin, TokenState
  <2> QED BY <2>1
<1>2. ASSUME NEW k \in Nat, k \in N PROVE k + 1 \in N
  <2>1. SUFFICES ASSUME k + 1 \in 0 .. n PROVE Holds(k + 1)
    OBVIOUS
  <2>2. n \in Nat /\ k \in 0 .. n /\ k \in 0 .. n - 1 /\ k + 1 \in 1 .. n /\ DOMAIN text = 1 .. n
    BY <2>1, FieldOf
  <2> DEFINE f == text[k + 1]
             s == F[k]
             t == F[k + 1]
             end == UpperLimit(f)
             failed == [s EXCEPT !.rc = "bad"]
  <2>3. t = TakeToken(s, f)
    BY <2>2 DEF IsRun
  <2>4. f \in Field
    BY <2>2, FieldOf
  <2>5. s \in TokenState /\ (s.inRange => Opened(k)) /\ (s.rc = "lost" => EndsAtMax(text))
    BY <1>2, <2>2
  <2>6. Opened(k) => Opened(k + 1)
    BY <2>2
  <2> HIDE DEF n, s, t, f, end
  <2>7. t \in TokenState
    BY <2>3, <2>4, <2>5, TakeTokenType
  <2>8. failed.rc = "bad" /\ failed.inRange = s.inRange
    BY <2>5 DEF TokenState
  <2>9. \/ t = s
        \/ t = failed
        \/ f.kind = "open" /\ t = [s EXCEPT !.inRange = TRUE, !.start = Wrap(f.num)]
        \/ /\ s.inRange /\ f.kind \in {"close", "junk", "bare"} /\ end = MaxInt
           /\ t = [s EXCEPT !.rc = "lost"]
        \/ t = [s EXCEPT !.inRange = FALSE, !.value = @ \o Ints(s.start, end)]
             /\ s.rc = "ok"
        \/ t = [s EXCEPT !.value = Append(@, Wrap(f.num))]
    BY <2>3, Zenon DEF TakeToken, end
  <2>10. t.inRange => s.inRange \/ f.kind = "open"
    <3> HIDE DEF failed
    <3> QED BY <2>5, <2>8, <2>9 DEF TokenState
  <2>11. t.rc = "lost" => s.rc = "lost" \/ (s.inRange /\ f.kind \in {"close", "junk", "bare"} /\ end = MaxInt)
    <3> HIDE DEF failed
    <3> QED BY <2>5, <2>8, <2>9 DEF TokenState
  <2>12. f.kind = "open" => Opened(k + 1)
    BY <2>2 DEF f
  <2>13. ASSUME Opened(k), f.kind \in {"close", "junk", "bare"}, end = MaxInt
         PROVE  EndsAtMax(text)
    <3>1. PICK i \in 1 .. k : text[i].kind = "open"
      BY <2>13
    <3>2. i \in DOMAIN text /\ k + 1 \in DOMAIN text /\ i < k + 1
      BY <2>2, <3>1
    <3> QED BY <2>13, <3>1, <3>2 DEF EndsAtMax, f, end
  <2> HIDE DEF Opened
  <2>14. F[k + 1] \in TokenState /\ (F[k + 1].inRange => Opened(k + 1))
         /\ (F[k + 1].rc = "lost" => EndsAtMax(text))
    BY <2>5, <2>6, <2>7, <2>10, <2>11, <2>12, <2>13 DEF t
  <2> QED BY <2>14
<1>3. Nat \subseteq N
  <2> HIDE DEF N
  <2> QED BY <1>1, <1>2, NatSetInduction
<1>4. n \in Nat /\ n \in 0 .. n
  BY FieldOf
<1> QED BY <1>3, <1>4

\* A text whose reading ends the process.
LEMMA ConversionIsLost ==
  ASSUME NEW text \in Text, NEW type \in Types, Convert(text, type).rc = "lost"
  PROVE  (IsEmpty(text) /\ Asserts) \/ EndsAtMax(text)
<1>1. \A x : Ok(x).rc # "lost" /\ Bad.rc # "lost"
  BY DEF Ok, Bad
<1>2. type = "ints" \/ type = "strings"
  <2>1. ToInt(text).rc # "lost" /\ ToPrefixedInt(text).rc # "lost" /\ ToBoolean(text).rc # "lost"
    BY <1>1, Zenon DEF ToInt, ToPrefixedInt, ToBoolean
  <2> QED BY <1>1, <2>1, Zenon DEF Convert, Types
<1>3. CASE type = "strings"
  <2>1. Convert(text, type) = ExtractStringList(text)
    BY <1>3 DEF Convert
  <2> QED BY <1>1, <2>1, Zenon DEF ExtractStringList
<1>4. CASE type = "ints"
  <2>1. Convert(text, type) = ExtractIntList(text)
    BY <1>4 DEF Convert
  <2>2. text \in Seq(Field)
    BY DEF Text
  <2>3. PICK F : IsRun(F, text) /\ Tokens(Begin, text) = F[Len(text)]
    BY <2>2, RunOf
  <2>4. (IsEmpty(text) /\ Asserts) \/ Tokens(Begin, text).rc = "lost"
    BY <1>1, <2>1, ExtractIs, Zenon
  <2> QED BY <2>2, <2>3, <2>4, RunIsLost
<1> QED BY <1>2, <1>3, <1>4

\* Only three things end a process that reads its environment: the null pointer reset
\* makes a string of, the assertion that a list is not empty, and the loop variable of a
\* range up to the largest int, which overflows before its comparison fails.
THEOREM DeathsExplained == Spec => DiesForCause
<1>1. TypeOK /\ [Next]_vars
        => [lost' => \E v \in Variables : \/ Reset(v) /\ unix[v] = Unset
                                          \/ IsEmpty(Source(v)) /\ Asserts
                                          \/ EndsAtMax(Source(v))]_vars
  <2> SUFFICES ASSUME TypeOK, Next, lost'
               PROVE  \E v \in Variables : \/ Reset(v) /\ unix[v] = Unset
                                           \/ IsEmpty(Source(v)) /\ Asserts
                                           \/ EndsAtMax(Source(v))
    OBVIOUS
  <2>1. PICK v \in Variables :
          \/ ChangeEnvironment(v)
          \/ \E type \in Types, check \in BOOLEAN : Read(v, type, check) \/ ReadFails(v, type, check)
          \/ Reset(v)
          \/ SemiReset(v)
    BY DEF Next
  <2>2. CASE Reset(v)
    <3>1. unix[v] = Unset
      BY <2>2 DEF Reset
    <3> QED BY <2>2, <3>1
  <2>3. CASE \E type \in Types, check \in BOOLEAN : ReadFails(v, type, check)
    <3>1. PICK type \in Types : Answer(v, type).rc = "lost"
      BY <2>3 DEF ReadFails
    <3>2. Source(v) # Unset /\ Convert(Source(v), type).rc = "lost"
      BY <3>1 DEF Answer, Bad
    <3>3. Source(v) \in Text
      BY <3>2 DEF Source, Cached, TypeOK
    <3> QED BY <3>2, <3>3, ConversionIsLost
  <2>4. CASE ~Reset(v) /\ ~\E type \in Types, check \in BOOLEAN : ReadFails(v, type, check)
    BY <2>1, <2>4 DEF ChangeEnvironment, Read, SemiReset
  <2> QED BY <2>2, <2>3, <2>4
<1> QED BY TypeCorrect, <1>1, PTL DEF Spec, DiesForCause
=============================================================================
