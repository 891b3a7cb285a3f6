-------------------------- MODULE ExperimentProofs ---------------------------
(***************************************************************************)
(* Proofs about the experiments: that the packets of a TimingWheel are       *)
(* neither lost nor doubled, leave neither early nor late, and in the order  *)
(* they were due; that its loop ends; and that the rates of RateControl      *)
(* answer to the samples.                                                    *)
(***************************************************************************)
EXTENDS TimingWheel, RateControl, WellFoundedInduction, SequenceTheorems, TLAPS

(***************************************************************************)
(* Induction over the natural numbers and over sequences, for sets: what     *)
(* holds is the set of the numbers, or of the sequences, it holds of.        *)
(***************************************************************************)
\* A set that holds 0 and with a number the next one holds all numbers.
LEMMA NatSetInduction ==
  ASSUME NEW S, 0 \in S, \A n \in Nat : n \in S => n + 1 \in S
  PROVE  Nat \subseteq S
<1> DEFINE R == {ss \in Nat \X Nat : ss[1] < ss[2]}
           T == Nat \ S
<1>1. IsWellFoundedOn(R, Nat)
  BY NatLessThanWellFounded, Zenon DEF OpToRel
<1>2. SUFFICES ASSUME T # {} PROVE FALSE
  OBVIOUS
<1>3. \A x, y \in Nat : x < y => <<x, y>> \in R
  OBVIOUS
<1> HIDE DEF R
<1>4. PICK x \in T : \A y \in T : ~ (<<y, x>> \in R)
  <2>1. T \subseteq Nat
    OBVIOUS
  <2> HIDE DEF T
  <2> QED BY <1>1, <1>2, <2>1, WFMin
<1>5. x # 0 /\ x \in Nat
  BY <1>4
<1>6. x - 1 \in Nat /\ x - 1 < x
  BY <1>5
<1>7. x - 1 \notin T
  BY <1>3, <1>4, <1>5, <1>6
<1> QED BY <1>4, <1>5, <1>6, <1>7

LEMMA AppendIs ==
  ASSUME NEW S, NEW s \in Seq(S), NEW x \in S
  PROVE  /\ Append(s, x) \in Seq(S)
         /\ Len(s) \in Nat /\ Len(Append(s, x)) = Len(s) + 1
         /\ DOMAIN s = 1 .. Len(s) /\ DOMAIN Append(s, x) = 1 .. Len(s) + 1
         /\ \A i \in 1 .. Len(s) : Append(s, x)[i] = s[i]
         /\ Append(s, x)[Len(s) + 1] = x
OBVIOUS

LEMMA FrontLast ==
  ASSUME NEW S, NEW s \in Seq(S), s # <<>>
  PROVE  /\ Front(s) \in Seq(S) /\ Len(Front(s)) = Len(s) - 1
         /\ Last(s) \in S /\ s = Append(Front(s), Last(s))
         /\ \A i \in 1 .. Len(s) - 1 : Front(s)[i] = s[i]
<1>1. Len(s) \in Nat \ {0} /\ DOMAIN s = 1 .. Len(s) /\ \A i \in 1 .. Len(s) : s[i] \in S
  OBVIOUS
<1>2. /\ Front(s) \in Seq(S) /\ Len(Front(s)) = Len(s) - 1
      /\ \A i \in 1 .. Len(s) - 1 : Front(s)[i] = s[i]
  <2>1. \A i \in 1 .. Len(s) - 1 : s[i] \in S
    BY <1>1
  <2>2. /\ SubSeq(s, 1, Len(s) - 1) \in Seq(S)
        /\ Len(SubSeq(s, 1, Len(s) - 1)) = IF 1 <= Len(s) - 1 THEN Len(s) - 1 - 1 + 1 ELSE 0
        /\ \A i \in 1 .. Len(s) - 1 - 1 + 1 : SubSeq(s, 1, Len(s) - 1)[i] = s[1 + i - 1]
    BY <1>1, <2>1, SubSeqProperties
  <2> QED BY <1>1, <2>2 DEF Front
<1>3. Last(s) \in S
  BY <1>1 DEF Last
<1>4. s = Append(Front(s), Last(s))
  <2> DEFINE t == Append(Front(s), Last(s))
  <2>1. t \in Seq(S) /\ Len(t) = Len(s)
    <3>1. t \in Seq(S) /\ Len(t) = Len(Front(s)) + 1
      BY <1>2, <1>3, AppendIs
    <3> QED BY <1>1, <1>2, <3>1
  <2>2. \A i \in 1 .. Len(s) : s[i] = t[i]
    <3>1. /\ \A i \in 1 .. Len(s) - 1 : t[i] = Front(s)[i]
          /\ t[Len(s)] = Last(s)
      BY <1>1, <1>2, <1>3, AppendIs
    <3> QED BY <1>1, <1>2, <3>1 DEF Last
  <2> HIDE DEF t
  <2>3. s = t
    BY <2>1, <2>2, SeqEqual
  <2> QED BY <2>3 DEF t
<1> QED BY <1>2, <1>3, <1>4

\* What holds of the empty sequence, and of a sequence with one element more, holds of all.
LEMMA SeqSetInduction ==
  ASSUME NEW S, NEW X, <<>> \in X,
         \A s \in Seq(S), x \in S : s \in X => Append(s, x) \in X
  PROVE  Seq(S) \subseteq X
<1> DEFINE N == {n \in Nat : \A s \in Seq(S) : Len(s) = n => s \in X}
<1>1. 0 \in N
  <2>1. \A s \in Seq(S) : Len(s) = 0 => s = <<>>
    BY EmptySeq
  <2> QED BY <2>1
<1>2. ASSUME NEW n \in Nat, n \in N PROVE n + 1 \in N
  <2>1. SUFFICES ASSUME NEW s \in Seq(S), Len(s) = n + 1 PROVE s \in X
    OBVIOUS
  <2>2. s # <<>>
    BY <2>1
  <2>3. /\ Front(s) \in Seq(S) /\ Len(Front(s)) = n
        /\ Last(s) \in S /\ s = Append(Front(s), Last(s))
    BY <2>1, <2>2, FrontLast
  <2>4. Front(s) \in X
    BY <1>2, <2>3
  <2> QED BY <2>3, <2>4
<1>3. Nat \subseteq N
  <2> HIDE DEF N
  <2> QED BY <1>1, <1>2, NatSetInduction
<1>4. \A s \in Seq(S) : Len(s) \in Nat
  OBVIOUS
<1> QED BY <1>3, <1>4

(***************************************************************************)
(* What FlattenSeq returns: its elements, and when none of them occurs       *)
(* twice.                                                                    *)
(***************************************************************************)
\* f is the function FlattenSeq defines by recursion.
IsFlatten(f, seqs) ==
  f = [i \in 1 .. Len(seqs) |-> IF i = 1 THEN seqs[i] ELSE f[i - 1] \o seqs[i]]

LEMMA FlattenExists ==
  ASSUME NEW S, NEW seqs \in Seq(Seq(S))
  PROVE  \E f : IsFlatten(f, seqs)
<1> DEFINE X == {s \in Seq(Seq(S)) : \E f : IsFlatten(f, s)}
<1>1. <<>> \in X
  <2>1. IsFlatten(<<>>, <<>>)
    <3>1. Len(<<>>) = 0 /\ 1 .. 0 = {}
      OBVIOUS
    <3>2. DOMAIN <<>> = {} /\ <<>> = [i \in {} |-> IF i = 1 THEN <<>>[i] ELSE <<>>[i - 1] \o <<>>[i]]
      OBVIOUS
    <3> QED BY <3>1, <3>2 DEF IsFlatten
  <2> QED BY <2>1
<1>2. ASSUME NEW s \in Seq(Seq(S)), NEW x \in Seq(S), s \in X PROVE Append(s, x) \in X
  <2> DEFINE t == Append(s, x)
             n == Len(s)
  <2>1. PICK f : IsFlatten(f, s)
    BY <1>2
  <2>2. /\ t \in Seq(Seq(S)) /\ n \in Nat /\ Len(t) = n + 1
        /\ \A i \in 1 .. n : t[i] = s[i]
    BY AppendIs
  <2> DEFINE g == [i \in 1 .. n + 1 |-> IF i = n + 1
                                        THEN IF i = 1 THEN t[i] ELSE f[n] \o t[i]
                                        ELSE f[i]]
  <2> HIDE DEF t, n
  <2>3. \A i \in 1 .. n : f[i] = IF i = 1 THEN s[i] ELSE f[i - 1] \o s[i]
    BY <2>1 DEF IsFlatten, n
  <2>4. \A i \in 1 .. n + 1 : g[i] = IF i = 1 THEN t[i] ELSE g[i - 1] \o t[i]
    <3>1. SUFFICES ASSUME NEW i \in 1 .. n + 1 PROVE g[i] = IF i = 1 THEN t[i] ELSE g[i - 1] \o t[i]
      OBVIOUS
    <3>2. CASE i = n + 1 /\ i = 1
      BY <3>2
    <3>3. CASE i = n + 1 /\ i # 1
      <4>1. i - 1 = n /\ n \in 1 .. n + 1 /\ n # n + 1
        BY <2>2, <3>3
      <4>2. g[i - 1] = f[n]
        BY <4>1
      <4> QED BY <3>3, <4>2
    <3>4. CASE i # n + 1
      <4>1. i \in 1 .. n /\ g[i] = f[i] /\ t[i] = s[i]
        <5>1. i \in 1 .. n
          BY <2>2, <3>4
        <5>2. g[i] = f[i]
          BY <3>4
        <5>3. t[i] = s[i]
          BY <2>2, <5>1
        <5> QED BY <5>1, <5>2, <5>3
      <4>2. i # 1 => i - 1 \in 1 .. n + 1 /\ i - 1 # n + 1
        BY <2>2, <3>4
      <4>3. i # 1 => g[i - 1] = f[i - 1]
        BY <4>2
      <4> QED BY <2>3, <4>1, <4>3
    <3> QED BY <3>2, <3>3, <3>4
  <2>5. g = [i \in 1 .. n + 1 |-> g[i]]
    OBVIOUS
  <2>6. g = [i \in 1 .. n + 1 |-> IF i = 1 THEN t[i] ELSE g[i - 1] \o t[i]]
    <3> HIDE DEF g
    <3> QED BY <2>4, <2>5
  <2>7. IsFlatten(g, t)
    <3> HIDE DEF g
    <3> QED BY <2>2, <2>6 DEF IsFlatten
  <2> QED BY <2>2, <2>7 DEF t
<1>3. Seq(Seq(S)) \subseteq X
  <2> HIDE DEF X
  <2> QED BY <1>1, <1>2, SeqSetInduction
<1> QED BY <1>3

LEMMA FlattenUnique ==
  ASSUME NEW s, NEW t, NEW f, NEW g, IsFlatten(f, s), IsFlatten(g, t),
         Len(s) \in Nat, Len(t) \in Nat, Len(s) <= Len(t),
         \A i \in 1 .. Len(s) : s[i] = t[i]
  PROVE  \A i \in 1 .. Len(s) : f[i] = g[i]
<1> DEFINE N == {n \in Nat : n \in 1 .. Len(s) => f[n] = g[n]}
<1>1. 0 \in N
  OBVIOUS
<1>2. ASSUME NEW n \in Nat, n \in N PROVE n + 1 \in N
  <2>1. SUFFICES ASSUME n + 1 \in 1 .. Len(s) PROVE f[n + 1] = g[n + 1]
    OBVIOUS
  <2>2. /\ n + 1 \in 1 .. Len(t) /\ s[n + 1] = t[n + 1]
        /\ (n + 1) - 1 = n
    BY <2>1
  <2>3. f[n + 1] = IF n + 1 = 1 THEN s[n + 1] ELSE f[n] \o s[n + 1]
    <3>1. \A i \in 1 .. Len(s) : f[i] = IF i = 1 THEN s[i] ELSE f[i - 1] \o s[i]
      BY DEF IsFlatten
    <3> QED BY <2>1, <2>2, <3>1
  <2>4. g[n + 1] = IF n + 1 = 1 THEN t[n + 1] ELSE g[n] \o t[n + 1]
    BY <2>2, Zenon DEF IsFlatten
  <2>5. n + 1 # 1 => f[n] = g[n]
    BY <1>2, <2>1
  <2> QED BY <2>2, <2>3, <2>4, <2>5, Zenon
<1>3. Nat \subseteq N
  <2> HIDE DEF N
  <2> QED BY <1>1, <1>2, NatSetInduction
<1> QED BY <1>3

LEMMA FlattenIs ==
  ASSUME NEW S, NEW seqs \in Seq(Seq(S)), seqs # <<>>
  PROVE  \E f : IsFlatten(f, seqs) /\ FlattenSeq(seqs) = f[Len(seqs)]
<1> DEFINE f == CHOOSE h : IsFlatten(h, seqs)
<1>1. Len(seqs) # 0
  BY EmptySeq
<1>2. IsFlatten(f, seqs)
  BY FlattenExists
<1>3. FlattenSeq(seqs) = f[Len(seqs)]
  BY <1>1, Zenon DEF FlattenSeq, IsFlatten
<1> QED BY <1>2, <1>3

LEMMA FlattenAppend ==
  ASSUME NEW S, NEW s \in Seq(Seq(S)), NEW x \in Seq(S)
  PROVE  FlattenSeq(Append(s, x)) = FlattenSeq(s) \o x
<1> DEFINE t == Append(s, x)
           n == Len(s)
<1>1. /\ t \in Seq(Seq(S)) /\ n \in Nat /\ Len(t) = n + 1
      /\ t[n + 1] = x /\ \A i \in 1 .. n : t[i] = s[i]
  BY AppendIs
<1>2. t # <<>>
  BY <1>1, EmptySeq
<1> HIDE DEF t
<1>3. PICK g : IsFlatten(g, t) /\ FlattenSeq(t) = g[n + 1]
  BY <1>1, <1>2, FlattenIs
<1>4. g[n + 1] = IF n + 1 = 1 THEN x ELSE g[n] \o x
  <2>1. n + 1 \in 1 .. Len(t) /\ (n + 1) - 1 = n
    BY <1>1
  <2> QED BY <1>1, <1>3, <2>1, Zenon DEF IsFlatten
<1>5. CASE s = <<>>
  <2>1. n = 0 /\ FlattenSeq(s) = <<>>
    BY <1>5 DEF FlattenSeq
  <2>2. <<>> \o x = x
    BY ConcatEmptySeq
  <2> QED BY <1>3, <1>4, <2>1, <2>2 DEF t
<1>6. CASE s # <<>>
  <2>1. PICK f : IsFlatten(f, s) /\ FlattenSeq(s) = f[n]
    BY <1>6, FlattenIs
  <2>2. n # 0
    BY <1>6, EmptySeq
  <2>3. \A i \in 1 .. n : f[i] = g[i]
    <3>1. n \in Nat /\ Len(t) \in Nat /\ n <= Len(t) /\ \A i \in 1 .. n : s[i] = t[i]
      BY <1>1
    <3> QED BY <1>3, <2>1, <3>1, FlattenUnique
  <2>4. n \in 1 .. n /\ n + 1 # 1
    BY <1>1, <2>2
  <2> QED BY <1>3, <1>4, <2>1, <2>3, <2>4 DEF t
<1> QED BY <1>5, <1>6

LEMMA RangeOf ==
  ASSUME NEW S, NEW s \in Seq(S)
  PROVE  /\ ToSet(s) \subseteq S
         /\ \A x : x \in ToSet(s) <=> \E i \in 1 .. Len(s) : x = s[i]
         /\ \A x : Contains(s, x) <=> x \in ToSet(s)
<1>1. DOMAIN s = 1 .. Len(s) /\ \A i \in 1 .. Len(s) : s[i] \in S
  OBVIOUS
<1> QED BY <1>1 DEF ToSet, Contains

LEMMA ConcatRange ==
  ASSUME NEW S, NEW s \in Seq(S), NEW t \in Seq(S)
  PROVE  /\ s \o t \in Seq(S)
         /\ ToSet(s \o t) = ToSet(s) \cup ToSet(t)
         /\ IsInjective(s) /\ IsInjective(t) /\ ToSet(s) \cap ToSet(t) = {} => IsInjective(s \o t)
<1> DEFINE m == Len(s)
           n == Len(t)
           u == s \o t
<1>1. /\ m \in Nat /\ n \in Nat /\ u \in Seq(S) /\ Len(u) = m + n
      /\ DOMAIN s = 1 .. m /\ DOMAIN t = 1 .. n /\ DOMAIN u = 1 .. m + n
      /\ \A i \in 1 .. m + n : u[i] = IF i <= m THEN s[i] ELSE t[i - m]
  BY ConcatProperties, LenProperties
<1> HIDE DEF m, n, u
<1>2. ToSet(s) \subseteq ToSet(u)
  <2>1. \A i \in 1 .. m : i \in 1 .. m + n /\ u[i] = s[i]
    BY <1>1
  <2> QED BY <1>1, <2>1 DEF ToSet
<1>3. ToSet(t) \subseteq ToSet(u)
  <2>1. \A i \in 1 .. n : i + m \in 1 .. m + n /\ u[i + m] = t[i]
    BY <1>1
  <2>2. ASSUME NEW x \in ToSet(t) PROVE x \in ToSet(u)
    <3>1. PICK i \in 1 .. n : x = t[i]
      BY <1>1, <2>2 DEF ToSet
    <3>2. i + m \in DOMAIN u /\ u[i + m] = x
      BY <1>1, <2>1, <3>1
    <3> QED BY <3>2 DEF ToSet
  <2> QED BY <2>2
<1>4. \A i \in 1 .. m + n : \/ i \in 1 .. m /\ u[i] = s[i]
                            \/ i - m \in 1 .. n /\ u[i] = t[i - m]
  BY <1>1
<1>5. ToSet(u) \subseteq ToSet(s) \cup ToSet(t)
  BY <1>1, <1>4 DEF ToSet
<1>6. ASSUME IsInjective(s), IsInjective(t), ToSet(s) \cap ToSet(t) = {}
      PROVE  IsInjective(u)
  <2>1. SUFFICES ASSUME NEW i \in 1 .. m + n, NEW j \in 1 .. m + n, u[i] = u[j] PROVE i = j
    BY <1>1 DEF IsInjective
  <2>2. \A a \in 1 .. m, b \in 1 .. n : s[a] # t[b]
    BY <1>1, <1>6 DEF ToSet
  <2>3. CASE i \in 1 .. m /\ j \in 1 .. m
    <3>1. u[i] = s[i] /\ u[j] = s[j]
      BY <1>1, <2>3
    <3> QED BY <1>1, <1>6, <2>1, <2>3, <3>1 DEF IsInjective
  <2>4. CASE i - m \in 1 .. n /\ j - m \in 1 .. n
    <3>1. u[i] = t[i - m] /\ u[j] = t[j - m]
      BY <1>1, <2>4
    <3>2. i - m = j - m
      BY <1>1, <1>6, <2>1, <2>4, <3>1 DEF IsInjective
    <3> QED BY <1>1, <3>2
  <2> QED BY <1>1, <1>4, <2>1, <2>2, <2>3, <2>4
<1> QED BY <1>1, <1>2, <1>3, <1>5, <1>6 DEF u

LEMMA FlattenRange ==
  ASSUME NEW S, NEW seqs \in Seq(Seq(S))
  PROVE  /\ FlattenSeq(seqs) \in Seq(S)
         /\ \A x : x \in ToSet(FlattenSeq(seqs)) <=> \E i \in 1 .. Len(seqs) : x \in ToSet(seqs[i])
         /\ /\ \A i \in 1 .. Len(seqs) : IsInjective(seqs[i])
            /\ \A i, j \in 1 .. Len(seqs) : i # j => ToSet(seqs[i]) \cap ToSet(seqs[j]) = {}
            => IsInjective(FlattenSeq(seqs))
<1> DEFINE Union(s) == \A x : x \in ToSet(FlattenSeq(s)) <=> \E i \in 1 .. Len(s) : x \in ToSet(s[i])
           Parts(s) == /\ \A i \in 1 .. Len(s) : IsInjective(s[i])
                       /\ \A i, j \in 1 .. Len(s) : i # j => ToSet(s[i]) \cap ToSet(s[j]) = {}
           X == {s \in Seq(Seq(S)) : /\ FlattenSeq(s) \in Seq(S) /\ Union(s)
                                     /\ Parts(s) => IsInjective(FlattenSeq(s))}
<1>1. <<>> \in X
  <2>1. FlattenSeq(<<>>) = <<>> /\ <<>> \in Seq(S) /\ <<>> \in Seq(Seq(S)) /\ Len(<<>>) = 0
    BY DEF FlattenSeq
  <2>2. ToSet(<<>>) = {} /\ IsInjective(<<>>)
    BY DEF ToSet, IsInjective
  <2>3. Union(<<>>)
    BY <2>1, <2>2
  <2> QED BY <2>1, <2>2, <2>3
<1>2. ASSUME NEW s \in Seq(Seq(S)), NEW t \in Seq(S), s \in X PROVE Append(s, t) \in X
  <2> DEFINE u == Append(s, t)
             n == Len(s)
  <2>1. /\ u \in Seq(Seq(S)) /\ n \in Nat /\ Len(u) = n + 1
        /\ u[n + 1] = t /\ \A i \in 1 .. n : u[i] = s[i]
    BY AppendIs
  <2>2. FlattenSeq(u) = FlattenSeq(s) \o t
    BY FlattenAppend
  <2>3. FlattenSeq(s) \in Seq(S) /\ Union(s)
    BY <1>2
  <2>4. /\ FlattenSeq(u) \in Seq(S)
        /\ ToSet(FlattenSeq(u)) = ToSet(FlattenSeq(s)) \cup ToSet(t)
    BY <2>2, <2>3, ConcatRange
  <2> HIDE DEF u
  <2>5. Union(u)
    <3>1. \A x : (\E i \in 1 .. n + 1 : x \in ToSet(u[i]))
                   <=> (\E i \in 1 .. n : x \in ToSet(s[i])) \/ x \in ToSet(t)
      <4>1. n + 1 \in 1 .. n + 1 /\ \A i \in 1 .. n + 1 : i \in 1 .. n \/ i = n + 1
        BY <2>1
      <4>2. \A i \in 1 .. n : i \in 1 .. n + 1
        BY <2>1
      <4> QED BY <2>1, <4>1, <4>2, Zenon
    <3>2. \A x : x \in ToSet(FlattenSeq(s)) <=> \E i \in 1 .. n : x \in ToSet(s[i])
      BY <2>3
    <3> HIDE DEF n
    <3> QED BY <2>1, <2>4, <3>1, <3>2
  <2>6. ASSUME Parts(u) PROVE IsInjective(FlattenSeq(u))
    <3>1. \A i \in 1 .. n : i \in 1 .. n + 1 /\ i # n + 1
      BY <2>1
    <3>2. Parts(s)
      BY <2>1, <2>6, <3>1
    <3>3. IsInjective(t) /\ IsInjective(FlattenSeq(s))
      <4>1. n + 1 \in 1 .. n + 1
        BY <2>1
      <4>2. IsInjective(u[n + 1])
        BY <2>1, <2>6, <4>1
      <4>3. Parts(s) => IsInjective(FlattenSeq(s))
        BY <1>2
      <4> QED BY <2>1, <3>2, <4>2, <4>3, Zenon
    <3>4. \A i \in 1 .. n : ToSet(s[i]) \cap ToSet(t) = {}
      <4>1. n + 1 \in 1 .. n + 1
        BY <2>1
      <4> QED BY <2>1, <2>6, <3>1, <4>1
    <3>5. ToSet(FlattenSeq(s)) \cap ToSet(t) = {}
      BY <2>3, <3>4
    <3> QED BY <2>2, <2>3, <3>3, <3>5, ConcatRange
  <2> HIDE DEF Union, Parts
  <2> QED BY <2>1, <2>4, <2>5, <2>6 DEF u
<1>3. Seq(Seq(S)) \subseteq X
  <2> HIDE DEF X
  <2> QED BY <1>1, <1>2, SeqSetInduction
<1> QED BY <1>3

LEMMA FlattenOne ==
  FlattenSeq(<< <<>> >>) = <<>>
<1>1. <<>> \in Seq(Seq({})) /\ <<>> \in Seq({}) /\ Append(<<>>, <<>>) = << <<>> >>
  OBVIOUS
<1>2. FlattenSeq(Append(<<>>, <<>>)) = FlattenSeq(<<>>) \o <<>>
  BY <1>1, FlattenAppend
<1>3. FlattenSeq(<<>>) = <<>> /\ <<>> \o <<>> = <<>>
  BY DEF FlattenSeq
<1> QED BY <1>1, <1>2, <1>3

LEMMA ConcatOneTwo ==
  ASSUME NEW S, NEW s \in Seq(S), NEW x \in S, NEW y \in S
  PROVE  s \o <<x>> = Append(s, x) /\ s \o <<x, y>> = Append(Append(s, x), y)
OBVIOUS

\* A packet goes behind the others of its slot, and the chain still ends in a
\* bucket with room.
LEMMA AddEntryAppends ==
  ASSUME NEW S, NEW b \in Seq(Seq(S)), b # <<>>, NEW e \in S
  PROVE  /\ AddEntry(b, e) \in Seq(Seq(S)) /\ AddEntry(b, e) # <<>>
         /\ FlattenSeq(AddEntry(b, e)) = Append(FlattenSeq(b), e)
         /\ (\A i \in DOMAIN b : (Len(b[i]) = BucketCap) <=> (i < Len(b)))
            => \A i \in DOMAIN AddEntry(b, e) :
                 (Len(AddEntry(b, e)[i]) = BucketCap) <=> (i < Len(AddEntry(b, e)))
<1> DEFINE f == Front(b)
           full == Append(Last(b), e)
           g == Append(f, full)
           h == Append(g, <<>>)
           n == Len(b)
<1>1. /\ n \in Nat \ {0} /\ DOMAIN b = 1 .. n
      /\ f \in Seq(Seq(S)) /\ Len(f) = n - 1 /\ DOMAIN f = 1 .. n - 1
      /\ Last(b) \in Seq(S) /\ b = Append(f, Last(b))
      /\ \A i \in 1 .. n - 1 : f[i] = b[i]
  <2>1. n \in Nat \ {0} /\ DOMAIN b = 1 .. n
    BY EmptySeq, LenProperties
  <2>2. /\ f \in Seq(Seq(S)) /\ Len(f) = n - 1
        /\ Last(b) \in Seq(S) /\ b = Append(f, Last(b))
        /\ \A i \in 1 .. n - 1 : f[i] = b[i]
    BY FrontLast
  <2> QED BY <2>1, <2>2, LenProperties
<1>2. full \in Seq(S) /\ full = Last(b) \o <<e>> /\ <<e>> \in Seq(S) /\ <<>> \in Seq(S)
  BY <1>1
<1> HIDE DEF f, full, n
<1>3. g \in Seq(Seq(S)) /\ h \in Seq(Seq(S)) /\ f \o <<full>> = g /\ f \o <<full, <<>> >> = h
  <2>1. f \in Seq(Seq(S)) /\ full \in Seq(S) /\ <<>> \in Seq(S)
    BY <1>1, <1>2
  <2>2. f \o <<full>> = Append(f, full) /\ f \o <<full, <<>> >> = Append(Append(f, full), <<>>)
    BY <2>1, ConcatOneTwo
  <2>3. Append(f, full) \in Seq(Seq(S)) /\ Append(Append(f, full), <<>>) \in Seq(Seq(S))
    BY <2>1
  <2> QED BY <2>2, <2>3
<1>4. AddEntry(b, e) = IF Len(full) = BucketCap THEN h ELSE g
  BY <1>3 DEF AddEntry, f, full
<1>5. FlattenSeq(g) = Append(FlattenSeq(b), e)
  <2>1. FlattenSeq(g) = FlattenSeq(f) \o full
    BY <1>1, <1>2, FlattenAppend
  <2>2. FlattenSeq(b) = FlattenSeq(f) \o Last(b)
    BY <1>1, FlattenAppend
  <2>3. FlattenSeq(f) \in Seq(S)
    BY <1>1, FlattenRange
  <2>4. FlattenSeq(f) \o (Last(b) \o <<e>>) = (FlattenSeq(f) \o Last(b)) \o <<e>>
    <3>1. Last(b) \in Seq(S) /\ <<e>> \in Seq(S)
      BY <1>1, <1>2
    <3>2. (FlattenSeq(f) \o Last(b)) \o <<e>> = FlattenSeq(f) \o (Last(b) \o <<e>>)
      BY <2>3, <3>1, ConcatAssociative, SMTT(30)
    <3> QED BY <3>2, Zenon
  <2>5. FlattenSeq(f) \o Last(b) \in Seq(S)
    BY <1>1, <2>3
  <2>6. (FlattenSeq(f) \o Last(b)) \o <<e>> = Append(FlattenSeq(f) \o Last(b), e)
    BY <2>5
  <2> QED BY <1>2, <2>1, <2>2, <2>4, <2>6
<1>6. FlattenSeq(h) = FlattenSeq(g)
  <2>1. FlattenSeq(h) = FlattenSeq(g) \o <<>>
    BY <1>2, <1>3, FlattenAppend
  <2>2. FlattenSeq(g) \in Seq(S)
    BY <1>3, FlattenRange
  <2> QED BY <2>1, <2>2, ConcatEmptySeq
<1>7. /\ Len(g) = n /\ DOMAIN g = 1 .. n /\ g[n] = full
      /\ \A i \in 1 .. n - 1 : g[i] = b[i]
  BY <1>1, <1>2, AppendIs
<1>8. /\ Len(h) = n + 1 /\ DOMAIN h = 1 .. n + 1 /\ h[n + 1] = <<>>
      /\ \A i \in 1 .. n : h[i] = g[i]
  <2> HIDE DEF g
  <2> QED BY <1>1, <1>2, <1>3, <1>7, AppendIs
<1>9. ASSUME \A i \in DOMAIN b : (Len(b[i]) = BucketCap) <=> (i < n)
      PROVE  \A i \in DOMAIN AddEntry(b, e) :
                 (Len(AddEntry(b, e)[i]) = BucketCap) <=> (i < Len(AddEntry(b, e)))
  <2> HIDE DEF g, h
  <2>1. \A i \in 1 .. n - 1 : i \in 1 .. n /\ i < n
    BY <1>1
  <2>2. \A i \in 1 .. n - 1 : Len(g[i]) = BucketCap
    BY <1>1, <1>7, <1>9, <2>1
  <2>3. CASE Len(full) = BucketCap
    <3>1. Len(<<>>) # BucketCap
      BY WheelAssumption
    <3>2. \A i \in 1 .. n : Len(h[i]) = BucketCap
      <4>1. \A i \in 1 .. n : i \in 1 .. n - 1 \/ i = n
        BY <1>1
      <4> QED BY <1>7, <1>8, <2>2, <2>3, <4>1
    <3> QED BY <1>1, <1>4, <1>8, <2>3, <3>1, <3>2
  <2>4. CASE Len(full) # BucketCap
    BY <1>1, <1>4, <1>7, <2>2, <2>4
  <2> QED BY <2>3, <2>4
<1>10. g # <<>> /\ h # <<>>
  <2> HIDE DEF g, h
  <2> QED BY <1>1, <1>7, <1>8
<1> HIDE DEF g, h
<1> QED BY <1>3, <1>4, <1>5, <1>6, <1>9, <1>10 DEF n

(***************************************************************************)
(* Arithmetic of slots and times.                                          *)
(***************************************************************************)
LEMMA DivMod ==
  ASSUME NEW a \in Nat, NEW n \in Nat \ {0}
  PROVE  /\ a \div n \in Nat /\ a % n \in 0 .. n - 1
         /\ a = (a \div n) * n + (a % n)
BY SMTT(60)

LEMMA Multiple ==
  ASSUME NEW q \in Int, NEW n \in Nat \ {0}
  PROVE  (q * n) % n = 0
BY SMTT(60)

\* Products with a positive width keep the order, by a width at least.
LEMMA TimesWidth ==
  ASSUME NEW w \in Nat \ {0}, NEW a \in Nat, NEW b \in Nat
  PROVE  /\ w * a \in Nat /\ w * 0 = 0 /\ w * 1 = w /\ w * (a + 1) = w * a + w
         /\ w * (a + b) = w * a + w * b
         /\ a <= b => w * a <= w * b
         /\ a < b => w * a + w <= w * b
<1>1. w * a \in Nat /\ w * 0 = 0 /\ w * 1 = w /\ w * (a + 1) = w * a + w /\ w * (a + b) = w * a + w * b
  BY SMTT(60)
<1>2. ASSUME NEW c \in Nat, NEW d \in Nat, c <= d PROVE w * c <= w * d
  <2>1. w * d = w * c + w * (d - c) /\ d - c \in Nat
    BY <1>2, SMTT(60)
  <2>2. w * (d - c) \in Nat /\ w * c \in Nat
    BY <2>1, SMTT(60)
  <2> HIDE <1>2
  <2> QED BY <2>1, <2>2
<1>3. a < b => w * (a + 1) <= w * b
  <2>1. a < b => a + 1 \in Nat /\ a + 1 <= b
    OBVIOUS
  <2> QED BY <1>2, <2>1
<1> QED BY <1>1, <1>2, <1>3

(***************************************************************************)
(* The inductive invariant of the wheel, first the times of its slots.       *)
(***************************************************************************)
\* The types of the wheel's variables.
WheelTypes ==
  /\ freq \in Speeds
  /\ tx_tsc \in [Wslots -> Nat]
  /\ chain \in [Wslots -> Seq(Seq(Nat)) \ {<<>>}]
  /\ cur_wslot \in Wslots
  /\ ready_queue \in Seq(Nat)
  /\ call \in {None} \cup [op : {"reap", "catchup"}, ref : Nat]
                     \cup [op : {"insert"}, ref : Nat, desired : Nat]
  /\ call.op = "insert" => Len(due) < Packets
  /\ last \in Nat
  /\ due \in Seq(Nat) /\ Len(due) <= Packets
  /\ left \in [1 .. Packets -> Int]
  /\ wrapped \in SUBSET (1 .. Len(due))

\* How many turns of the wheel lie before slot s.
Behind(s) == IF s >= cur_wslot THEN s - cur_wslot ELSE s - cur_wslot + NumWslots

\* The times of the slots, all of them multiples of the width, and the call in progress.
Turning ==
  /\ \A s \in Wslots : tx_tsc[s] = tx_tsc[cur_wslot] + Width * Behind(s)
  /\ \E k \in Nat : tx_tsc[cur_wslot] = k * Width
  /\ tx_tsc[cur_wslot] <= last + Width
  /\ call = None => tx_tsc[cur_wslot] > last
  /\ call # None => call.ref = last
  /\ call.op = "insert" => call.desired \in last .. last + Horizon

LEMMA WidthPositive ==
  ASSUME WheelTypes
  PROVE  Width \in Nat \ {0} /\ Horizon \in Nat
<1>1. /\ freq \in Nat /\ Unit \in Nat \ {0} /\ freq >= Unit /\ NumWslots - 1 \in Nat
  BY WheelAssumption DEF WheelTypes
<1>2. (1 * freq) \div Unit \in Nat /\ freq = ((1 * freq) \div Unit) * Unit + (freq % Unit)
      /\ freq % Unit < Unit
  <2>1. 1 * freq = freq
    BY <1>1
  <2> QED BY <1>1, <2>1, DivMod
<1>3. (1 * freq) \div Unit # 0
  BY <1>1, <1>2
<1>4. ((NumWslots - 1) * freq) \div Unit \in Nat
  <2>1. (NumWslots - 1) * freq \in Nat
    BY <1>1, SMTT(60)
  <2> QED BY <1>1, <2>1, DivMod
<1> QED BY <1>2, <1>3, <1>4 DEF Width, Horizon, Cycles

LEMMA WslotFacts ==
  ASSUME cur_wslot \in Wslots
  PROVE  /\ NumWslots \in Nat \ {0, 1}
         /\ Behind(cur_wslot) = 0
         /\ \A s \in Wslots : Behind(s) \in 0 .. NumWslots - 1
         /\ \A s \in Wslots : Behind(s) = 0 => s = cur_wslot
         /\ \A s \in Wslots : Next1(s) \in Wslots
BY WheelAssumption DEF Wslots, Behind, Next1

LEMMA CallShape ==
  ASSUME WheelTypes
  PROVE  /\ call = None <=> call.op = "none"
         /\ call # None => call.ref \in Nat
         /\ call.op = "insert" => call.desired \in Nat
         /\ call # None => call.op \in {"reap", "catchup", "insert"}
<1>1. None.op = "none"
  BY DEF None
<1>2. CASE call = None
  BY <1>1, <1>2
<1>3. CASE call \in [op : {"reap", "catchup"}, ref : Nat]
  BY <1>1, <1>3
<1>4. CASE call \in [op : {"insert"}, ref : Nat, desired : Nat]
  BY <1>1, <1>4
<1> QED BY <1>2, <1>3, <1>4 DEF WheelTypes

LEMMA WheelInit ==
  ASSUME Init PROVE WheelTypes /\ Turning
<1>1. WheelTypes
  <2>1. freq \in Nat \ {0} /\ Wslots \subseteq Nat /\ 0 \in Wslots /\ Packets \in Nat
    BY WheelAssumption DEF Init, Wslots
  <2>2. (1 * freq) \div Unit \in Nat
    BY <2>1, WheelAssumption, DivMod
  <2>3. \A s \in Wslots : (s + 1) * Width \in Nat
    BY <2>1, <2>2, SMTT(60) DEF Width, Cycles
  <2>4. << <<>> >> \in Seq(Seq(Nat)) \ {<<>>}
    OBVIOUS
  <2>5. <<>> \in Seq(Nat) /\ Len(<<>>) = 0
    OBVIOUS
  <2>6. None.op # "insert"
    BY DEF None
  <2> QED BY <2>1, <2>3, <2>4, <2>5, <2>6 DEF Init, WheelTypes
<1>2. Width \in Nat \ {0}
  BY <1>1, WidthPositive
<1>3. Turning
  <2> DEFINE W == Width
  <2>1. /\ W \in Nat \ {0} /\ cur_wslot = 0 /\ last = 0 /\ call = None /\ 0 \in Wslots
        /\ \A s \in Wslots : tx_tsc[s] = (s + 1) * W
    BY <1>2, WheelAssumption DEF Init, Wslots
  <2> HIDE DEF W
  <2>2. \A s \in Wslots : s \in Nat /\ Behind(s) = s
    BY <2>1 DEF Behind, Wslots
  <2>3. tx_tsc[cur_wslot] = W
    BY <2>1
  <2>4. \A s \in Wslots : tx_tsc[s] = W + W * Behind(s)
    BY <2>1, <2>2, SMTT(60)
  <2>5. W = 1 * W
    BY <2>1
  <2>6. None.op # "insert"
    BY DEF None
  <2> QED BY <2>1, <2>3, <2>4, <2>5, <2>6 DEF Turning, W
<1> QED BY <1>1, <1>3

LEMMA TimesOf ==
  ASSUME NEW t \in Nat, NEW u \in Times(t)
  PROVE  u \in Nat /\ u >= t
BY DEF Times

LEMMA ReapWslotTypes ==
  ASSUME WheelTypes, Turning, call # None, ReapWslot(cur_wslot)
  PROVE  /\ chain' \in [Wslots -> Seq(Seq(Nat)) \ {<<>>}]
         /\ ready_queue' \in Seq(Nat) /\ left' \in [1 .. Packets -> Int]
         /\ FlattenSeq(chain[cur_wslot]) \in Seq(Nat)
<1>1. FlattenSeq(chain[cur_wslot]) \in Seq(Nat)
  BY FlattenRange DEF WheelTypes
<1>2. << <<>> >> \in Seq(Seq(Nat)) \ {<<>>}
  OBVIOUS
<1>3. call.ref \in Int
  BY CallShape
<1>4. ready_queue \o FlattenSeq(chain[cur_wslot]) \in Seq(Nat)
  BY <1>1, ConcatProperties DEF WheelTypes
<1>5. chain' \in [Wslots -> Seq(Seq(Nat)) \ {<<>>}]
  <2>1. chain' = [chain EXCEPT ![cur_wslot] = << <<>> >>]
    BY DEF ReapWslot
  <2> QED BY <1>2, <2>1, Zenon DEF WheelTypes
<1>6. left' \in [1 .. Packets -> Int]
  BY <1>3 DEF ReapWslot, WheelTypes
<1> QED BY <1>1, <1>4, <1>5, <1>6 DEF ReapWslot

\* The slot a packet due at d goes to.
Dst(d) == LET sum == cur_wslot + Delta(d) IN IF sum >= NumWslots THEN sum - NumWslots ELSE sum

LEMMA DeltaIn ==
  ASSUME WheelTypes, Turning, NEW d \in Nat, ~Reapable(last), d \in last .. last + Horizon
  PROVE  /\ Delta(d) \in Nat /\ Dst(d) \in Nat
         /\ Delta(d) < NumWslots =>
              Dst(d) \in Wslots /\ d \in tx_tsc[Dst(d)] - Width .. tx_tsc[Dst(d)]
         /\ Delta(d) >= NumWslots => ~Exact
<1> DEFINE W == Width
           N == NumWslots
           x == tx_tsc[cur_wslot]
           q == (d - x) \div W
<1>1. /\ W \in Nat \ {0} /\ Horizon \in Nat /\ N \in Nat \ {0, 1} /\ x \in Nat /\ last \in Nat
      /\ cur_wslot \in 0 .. N - 1 /\ x <= last + W /\ x > last
      /\ \A s \in 0 .. N - 1 : tx_tsc[s] = x + W * Behind(s)
  <2>1. W \in Nat \ {0} /\ Horizon \in Nat
    BY WidthPositive
  <2>2. /\ N \in Nat \ {0, 1} /\ x \in Nat /\ last \in Nat /\ Wslots = 0 .. N - 1
        /\ cur_wslot \in Wslots
    BY WslotFacts DEF WheelTypes, Wslots
  <2>3. x <= last + W /\ ~(x <= last) /\ \A s \in Wslots : tx_tsc[s] = x + W * Behind(s)
    BY DEF Turning, Reapable
  <2> HIDE DEF W, N, x
  <2> QED BY <2>1, <2>2, <2>3
<1>2. Delta(d) = IF d <= x THEN 0 ELSE 1 + q
  BY DEF Delta
<1>3. Exact <=> Horizon <= (N - 1) * W
  BY DEF Exact
<1> HIDE DEF W, N, x, q
<1>4. CASE d <= x
  <2>1. Delta(d) = 0 /\ Dst(d) = cur_wslot
    BY <1>1, <1>2, <1>4 DEF Dst, N
  <2> QED BY <1>1, <1>4, <2>1 DEF N, W, x, Wslots
<1>5. CASE ~(d <= x)
  <2>1. d - x \in Nat /\ d - x > 0
    BY <1>1, <1>5
  <2>2. q \in Nat /\ d - x = q * W + ((d - x) % W) /\ (d - x) % W \in 0 .. W - 1
    BY <1>1, <2>1, DivMod DEF q
  <2>3. Delta(d) = q + 1
    BY <1>2, <1>5, <2>2
  <2>4. q * W = W * q /\ W * q \in Nat /\ W * (q + 1) = W * q + W
    BY <1>1, <2>2, TimesWidth, SMTT(60)
  <2>5. Dst(d) = IF cur_wslot + (q + 1) >= N THEN cur_wslot + (q + 1) - N ELSE cur_wslot + (q + 1)
    BY <1>1, <2>2, <2>3 DEF Dst, N
  <2>6. CASE q + 1 < N
    <3>1. Dst(d) \in 0 .. N - 1 /\ Behind(Dst(d)) = q + 1
      BY <1>1, <2>2, <2>5, <2>6 DEF Behind, N
    <3>2. tx_tsc[Dst(d)] = x + W * (q + 1)
      BY <1>1, <3>1
    <3>3. d \in tx_tsc[Dst(d)] - W .. tx_tsc[Dst(d)]
      BY <1>1, <2>1, <2>2, <2>4, <3>2
    <3>4. Delta(d) \in Nat /\ Delta(d) < N
      BY <2>2, <2>3, <2>6
    <3> QED BY <1>1, <3>1, <3>3, <3>4 DEF N, W, Wslots
  <2>7. CASE q + 1 >= N
    <3>1. N - 1 \in Nat /\ N - 1 <= q
      BY <1>1, <2>2, <2>7
    <3>2. W * (N - 1) <= W * q /\ W * (N - 1) \in Nat
      BY <1>1, <2>2, <3>1, TimesWidth
    <3>3. (N - 1) * W = W * (N - 1)
      BY <1>1, <3>1, SMTT(60)
    <3>4. d >= x + W * (N - 1)
      BY <1>1, <2>1, <2>2, <2>4, <3>2
    <3>5. Horizon > (N - 1) * W
      BY <1>1, <3>2, <3>3, <3>4
    <3>6. Dst(d) \in Nat
      BY <1>1, <2>2, <2>5, <2>7
    <3>7. Horizon \in Nat /\ (N - 1) * W \in Nat
      BY <1>1, <3>2, <3>3
    <3>8. Delta(d) \in Nat /\ ~(Delta(d) < N)
      BY <1>1, <2>2, <2>3, <2>7
    <3>9. ~Exact
      BY <1>3, <3>5, <3>7
    <3> QED BY <3>6, <3>8, <3>9 DEF N
  <2> QED BY <1>1, <2>2, <2>6, <2>7
<1> QED BY <1>4, <1>5

\* What Insert does, in one of two ways.
LEMMA InsertDoes ==
  ASSUME WheelTypes, Turning, Insert
  PROVE  LET d == call.desired  p == Len(due) + 1
         IN /\ call.op = "insert" /\ call' = None /\ ~Reapable(last) /\ d \in Nat
            /\ UNCHANGED <<freq, tx_tsc, cur_wslot, ready_queue, last, left>>
            /\ \/ UNCHANGED <<chain, due, wrapped>>
               \/ /\ Dst(d) \in Wslots /\ p \in 1 .. Packets
                  /\ chain' = [chain EXCEPT ![Dst(d)] = AddEntry(chain[Dst(d)], p)]
                  /\ due' = Append(due, d)
                  /\ \/ wrapped' = wrapped \cup {p} /\ ~Exact
                     \/ /\ wrapped' = wrapped
                        /\ d \in tx_tsc[Dst(d)] - Width .. tx_tsc[Dst(d)]
<1> DEFINE d == call.desired
           p == Len(due) + 1
           ends == Delta(d) >= NumWslots /\ (Asserts \/ Dst(d) >= NumWslots)
<1>1. /\ call.op = "insert" /\ call' = None /\ d \in Nat /\ call.ref = last
      /\ ~Reapable(last) /\ d \in last .. last + Horizon
  BY CallShape DEF Insert, Turning, d
<1>2. /\ UNCHANGED <<freq, tx_tsc, cur_wslot, ready_queue, last, left>>
      /\ IF ends THEN UNCHANGED <<chain, due, wrapped>>
         ELSE /\ chain' = [chain EXCEPT ![Dst(d)] = AddEntry(@, p)]
              /\ due' = Append(due, d)
              /\ wrapped' = IF Delta(d) >= NumWslots THEN wrapped \cup {p} ELSE wrapped
  BY Zenon DEF Insert, Dst
<1>3. /\ Delta(d) \in Nat /\ Dst(d) \in Nat
      /\ Delta(d) < NumWslots =>
           Dst(d) \in Wslots /\ d \in tx_tsc[Dst(d)] - Width .. tx_tsc[Dst(d)]
      /\ Delta(d) >= NumWslots => ~Exact
  BY <1>1, DeltaIn
<1>4. NumWslots \in Nat /\ p \in 1 .. Packets /\ Wslots = 0 .. NumWslots - 1
  <2>1. Len(due) < Packets /\ Len(due) \in Nat /\ Packets \in Nat
    BY <1>1, WheelAssumption DEF WheelTypes
  <2> QED BY <2>1, WheelAssumption DEF Wslots
<1>5. CASE ends
  BY <1>1, <1>2, <1>5, Zenon
<1>6. CASE ~ends
  <2>1. Dst(d) \in Wslots
    BY <1>3, <1>4, <1>6
  <2>2. /\ chain' = [chain EXCEPT ![Dst(d)] = AddEntry(chain[Dst(d)], p)]
        /\ due' = Append(due, d)
        /\ wrapped' = IF Delta(d) >= NumWslots THEN wrapped \cup {p} ELSE wrapped
    BY <1>2, <1>6, Zenon
  <2>3. Delta(d) >= NumWslots \/ Delta(d) < NumWslots
    BY <1>3, <1>4
  <2> HIDE DEF d, p, ends
  <2>4. \/ wrapped' = wrapped \cup {p} /\ ~Exact
        \/ /\ wrapped' = wrapped
           /\ d \in tx_tsc[Dst(d)] - Width .. tx_tsc[Dst(d)]
    <3>1. CASE Delta(d) >= NumWslots
      BY <1>3, <2>2, <3>1, Zenon
    <3>2. CASE ~(Delta(d) >= NumWslots)
      BY <1>3, <2>2, <2>3, <3>2, Zenon
    <3> QED BY <3>1, <3>2
  <2> QED BY <1>1, <1>2, <1>4, <2>1, <2>2, <2>4, Zenon DEF d, p
<1> QED BY <1>5, <1>6

LEMMA WheelTypesKept ==
  ASSUME WheelTypes, Turning, [Next]_vars
  PROVE  WheelTypes'
<1>1. ASSUME NEW c, Call(c), NEW t \in Times(last), c.op = "insert" => Len(due) < Packets,
             c \in [op : {"reap"}, ref : {t}] \cup [op : {"insert"}, ref : {t}, desired : Nat]
      PROVE  WheelTypes'
  <2>1. t \in Nat /\ c.ref = t
    BY <1>1, TimesOf DEF WheelTypes
  <2>2. c \in [op : {"reap", "catchup"}, ref : Nat] \cup [op : {"insert"}, ref : Nat, desired : Nat]
    BY <1>1, <2>1
  <2> QED BY <1>1, <2>1, <2>2 DEF Call, WheelTypes
<1>2. CASE CallReap
  <2>1. PICK t \in Times(last) : Call([op |-> "reap", ref |-> t])
    BY <1>2 DEF CallReap
  <2> QED BY <1>1, <2>1
<1>3. CASE CallInsert
  <2>. PICK t \in Times(last) : \E desired \in t .. t + Horizon :
          Call([op |-> "insert", ref |-> t, desired |-> desired])
    BY <1>3 DEF CallInsert
  <2>1. PICK desired \in t .. t + Horizon : Call([op |-> "insert", ref |-> t, desired |-> desired])
    OBVIOUS
  <2>2. Len(due) < Packets /\ desired \in Nat
    BY <1>3, <2>1, TimesOf, WidthPositive DEF CallInsert, WheelTypes
  <2> QED BY <1>1, <2>1, <2>2
<1>4. CASE CallCatchup
  <2>1. call' = [op |-> "catchup", ref |-> last] /\ last' = last
    BY <1>4 DEF CallCatchup, Call
  <2> QED BY <1>4, <2>1 DEF CallCatchup, Call, WheelTypes
<1>5. CASE ReapTurn
  <2>1. /\ chain' \in [Wslots -> Seq(Seq(Nat)) \ {<<>>}]
        /\ ready_queue' \in Seq(Nat) /\ left' \in [1 .. Packets -> Int]
    BY <1>5, ReapWslotTypes DEF ReapTurn
  <2>2. tx_tsc' \in [Wslots -> Nat]
    <3>1. Width * NumWslots \in Nat
      BY WidthPositive, WheelAssumption, TimesWidth
    <3>2. tx_tsc[cur_wslot] + Width * NumWslots \in Nat
      BY <3>1 DEF WheelTypes
    <3>3. tx_tsc' = [tx_tsc EXCEPT ![cur_wslot] = tx_tsc[cur_wslot] + Width * NumWslots]
      BY <1>5 DEF ReapTurn
    <3> QED BY <3>2, <3>3, Zenon DEF WheelTypes
  <2>3. cur_wslot' \in Wslots
    BY <1>5, WslotFacts DEF ReapTurn, WheelTypes
  <2>4. UNCHANGED <<freq, call, last, due, wrapped>>
    BY <1>5 DEF ReapTurn
  <2> QED BY <2>1, <2>2, <2>3, <2>4, Zenon DEF WheelTypes
<1>6. CASE ReapReturns
  BY <1>6, CallShape DEF ReapReturns, WheelTypes, None
<1>7. CASE CatchupTurn
  <2>1. call \in [op : {"reap", "catchup"}, ref : Nat] /\ call.op = "catchup"
    <3>1. call.op = "catchup" /\ None.op # "catchup"
      BY <1>7 DEF CatchupTurn, None
    <3> QED BY <3>1 DEF WheelTypes
  <2>2. ASSUME NEW t \in Times(last), NEW again \in Times(t),
               call' = [call EXCEPT !.ref = again], last' = again
        PROVE  WheelTypes'
    <3>1. again \in Nat
      BY <2>2, TimesOf DEF WheelTypes
    <3>2. call' \in [op : {"reap", "catchup"}, ref : Nat] /\ call'.op = "catchup"
      BY <2>1, <2>2, <3>1
    <3> QED BY <1>7, <2>2, <3>1, <3>2 DEF CatchupTurn, WheelTypes
  <2>3. ASSUME call' = None, last' = last PROVE WheelTypes'
    <3>1. None.op # "insert"
      BY DEF None
    <3> QED BY <1>7, <2>3, <3>1 DEF CatchupTurn, WheelTypes
  <2> QED BY <1>7, <2>2, <2>3 DEF CatchupTurn
<1>8. CASE Insert
  <2> DEFINE d == call.desired
             p == Len(due) + 1
  <2>1. /\ call' = None /\ d \in Nat
        /\ UNCHANGED <<freq, tx_tsc, cur_wslot, ready_queue, last, left>>
        /\ \/ UNCHANGED <<chain, due, wrapped>>
           \/ /\ Dst(d) \in Wslots /\ p \in 1 .. Packets
              /\ chain' = [chain EXCEPT ![Dst(d)] = AddEntry(chain[Dst(d)], p)]
              /\ due' = Append(due, d)
              /\ (wrapped' = wrapped \cup {p} \/ wrapped' = wrapped)
    BY <1>8, InsertDoes, Zenon
  <2>2. None.op # "insert" /\ None \in {None}
    BY DEF None
  <2>3. CASE UNCHANGED <<chain, due, wrapped>>
    BY <2>1, <2>2, <2>3, Zenon DEF WheelTypes
  <2>4. CASE /\ Dst(d) \in Wslots /\ p \in 1 .. Packets
             /\ chain' = [chain EXCEPT ![Dst(d)] = AddEntry(chain[Dst(d)], p)]
             /\ due' = Append(due, d)
             /\ (wrapped' = wrapped \cup {p} \/ wrapped' = wrapped)
    <3>1. chain[Dst(d)] \in Seq(Seq(Nat)) /\ chain[Dst(d)] # <<>> /\ p \in Nat
      BY <2>4 DEF WheelTypes
    <3>2. AddEntry(chain[Dst(d)], p) \in Seq(Seq(Nat)) \ {<<>>}
      BY <3>1, AddEntryAppends
    <3>3. chain' \in [Wslots -> Seq(Seq(Nat)) \ {<<>>}]
      BY <2>4, <3>2, Zenon DEF WheelTypes
    <3>4. due' \in Seq(Nat) /\ Len(due') = Len(due) + 1 /\ Len(due) \in Nat /\ Packets \in Nat
      BY <2>1, <2>4, WheelAssumption DEF WheelTypes
    <3>5. Len(due') <= Packets /\ wrapped' \in SUBSET (1 .. Len(due'))
      BY <2>4, <3>4, SMTT(30) DEF WheelTypes
    <3> HIDE DEF p, d
    <3> QED BY <2>1, <2>2, <3>3, <3>4, <3>5, Zenon DEF WheelTypes
  <2> QED BY <2>1, <2>3, <2>4, Zenon
<1>9. CASE UNCHANGED vars
  BY <1>9 DEF vars, WheelTypes
<1> QED BY <1>2, <1>3, <1>4, <1>5, <1>6, <1>7, <1>8, <1>9 DEF Next

LEMMA SameTurns ==
  ASSUME WheelTypes, Turning, UNCHANGED <<freq, tx_tsc, cur_wslot>>, last' \in Nat, last' >= last
  PROVE  /\ \A s \in Wslots : tx_tsc'[s] = tx_tsc'[cur_wslot'] + Width' * Behind(s)'
         /\ \E k \in Nat : tx_tsc'[cur_wslot'] = k * Width'
         /\ tx_tsc'[cur_wslot'] <= last' + Width'
         /\ Width' = Width /\ Horizon' = Horizon
<1>1. Width' = Width /\ Horizon' = Horizon
  BY DEF Width, Horizon, Cycles
<1>2. \A s \in Wslots : Behind(s)' = Behind(s)
  BY DEF Behind
<1>3. tx_tsc'[cur_wslot'] <= last' + Width'
  <2>1. tx_tsc[cur_wslot] \in Nat /\ last \in Nat /\ tx_tsc[cur_wslot] <= last + Width
    BY DEF WheelTypes, Turning
  <2>2. Width \in Nat
    BY WidthPositive
  <2> QED BY <1>1, <2>1, <2>2
<1> QED BY <1>1, <1>2, <1>3 DEF Turning

LEMMA TurnFacts ==
  ASSUME WheelTypes, Turning, ReapTurn
  PROVE  /\ cur_wslot' \in Wslots /\ cur_wslot' # cur_wslot
         /\ tx_tsc'[cur_wslot] = tx_tsc[cur_wslot] + Width * NumWslots
         /\ \A s \in Wslots : s # cur_wslot => /\ tx_tsc'[s] = tx_tsc[s]
                                               /\ Behind(s) \in Nat /\ Behind(s)' \in Nat
                                               /\ Behind(s) = Behind(s)' + 1
         /\ Behind(cur_wslot') = 1
         /\ \A s \in Wslots : s = cur_wslot => Behind(s)' = NumWslots - 1
         /\ tx_tsc'[cur_wslot'] = tx_tsc[cur_wslot] + Width
         /\ Width' = Width /\ Horizon' = Horizon
<1>1. /\ cur_wslot \in Wslots /\ cur_wslot' = Next1(cur_wslot)
      /\ NumWslots \in Nat \ {0, 1} /\ Wslots = 0 .. NumWslots - 1
  BY WheelAssumption DEF WheelTypes, ReapTurn, Wslots
<1>2. /\ cur_wslot' \in Wslots /\ cur_wslot' # cur_wslot
      /\ Behind(cur_wslot') = 1
      /\ \A s \in Wslots : s = cur_wslot => Behind(s)' = NumWslots - 1
      /\ \A s \in Wslots : s # cur_wslot => /\ Behind(s) \in Nat /\ Behind(s)' \in Nat
                                            /\ Behind(s) = Behind(s)' + 1
  BY <1>1 DEF Behind, Next1
<1>3. /\ tx_tsc'[cur_wslot] = tx_tsc[cur_wslot] + Width * NumWslots
      /\ \A s \in Wslots : s # cur_wslot => tx_tsc'[s] = tx_tsc[s]
  BY <1>1 DEF ReapTurn, WheelTypes
<1>4. tx_tsc'[cur_wslot'] = tx_tsc[cur_wslot] + Width * 1
  <2>1. tx_tsc[cur_wslot'] = tx_tsc[cur_wslot] + Width * Behind(cur_wslot')
    BY <1>2 DEF Turning
  <2> QED BY <1>2, <1>3, <2>1
<1>5. Width' = Width /\ Horizon' = Horizon
  BY DEF ReapTurn, Width, Horizon, Cycles
<1>6. Width * 1 = Width
  BY WidthPositive
<1>7. tx_tsc'[cur_wslot'] = tx_tsc[cur_wslot] + Width
  BY <1>4, <1>6
<1> QED BY <1>2, <1>3, <1>5, <1>7, Zenon

LEMMA TurningKept ==
  ASSUME WheelTypes, Turning, [Next]_vars
  PROVE  Turning'
<1>1. last \in Nat /\ Width \in Nat \ {0} /\ Horizon \in Nat
  BY WidthPositive DEF WheelTypes
<1>2. ASSUME NEW c, Call(c), NEW t \in Times(last), c.ref = t, c.op # "none",
             c.op = "insert" => c.desired \in t .. t + Horizon
      PROVE  Turning'
  <2>1. t \in Nat /\ t >= last
    BY <1>1, TimesOf
  <2>2. /\ UNCHANGED <<freq, tx_tsc, cur_wslot>> /\ last' = t /\ call' = c
    BY <1>2 DEF Call
  <2>3. c # None
    BY <1>2 DEF None
  <2> QED BY <1>2, <2>1, <2>2, <2>3, SameTurns DEF Turning
<1>3. CASE CallReap
  <2>1. PICK t \in Times(last) : Call([op |-> "reap", ref |-> t])
    BY <1>3 DEF CallReap
  <2> QED BY <1>2, <2>1
<1>4. CASE CallInsert
  <2>1. PICK t \in Times(last) : \E desired \in t .. t + Horizon :
          Call([op |-> "insert", ref |-> t, desired |-> desired])
    BY <1>4 DEF CallInsert
  <2>2. PICK desired \in t .. t + Horizon : Call([op |-> "insert", ref |-> t, desired |-> desired])
    BY <2>1
  <2> QED BY <1>2, <2>2
<1>5. CASE CallCatchup
  <2>1. call' = [op |-> "catchup", ref |-> last] /\ last' = last /\ UNCHANGED <<freq, tx_tsc, cur_wslot>>
    BY <1>5 DEF CallCatchup, Call
  <2>2. call' # None /\ call'.op # "insert" /\ call'.ref = last'
    BY <2>1 DEF None
  <2>3. last' \in Nat /\ last' >= last
    BY <1>1, <2>1
  <2> QED BY <2>1, <2>2, <2>3, SameTurns DEF Turning
<1>6. CASE ReapTurn
  <2> DEFINE W == Width
             N == NumWslots
             x == tx_tsc[cur_wslot]
  <2>1. /\ call' = call /\ last' = last /\ call # None /\ x <= last
    BY <1>6 DEF ReapTurn, Reapable, Turning
  <2>2. /\ W \in Nat \ {0} /\ N \in Nat \ {0, 1} /\ x \in Nat
    BY <1>1, WheelAssumption DEF WheelTypes
  <2>3. /\ tx_tsc'[cur_wslot'] = x + W /\ Width' = W /\ Horizon' = Horizon
        /\ tx_tsc'[cur_wslot] = x + W * N
        /\ \A s \in Wslots : s = cur_wslot => Behind(s)' = N - 1
        /\ \A s \in Wslots : s # cur_wslot =>
             /\ tx_tsc'[s] = x + W * Behind(s)
             /\ Behind(s) \in Nat /\ Behind(s)' \in Nat /\ Behind(s) = Behind(s)' + 1
    BY <1>6, TurnFacts DEF Turning
  <2> HIDE DEF W, N, x
  <2>4. \A s \in Wslots : tx_tsc'[s] = tx_tsc'[cur_wslot'] + Width' * Behind(s)'
    <3>1. SUFFICES ASSUME NEW s \in Wslots PROVE tx_tsc'[s] = (x + W) + W * Behind(s)'
      BY <2>3
    <3>2. CASE s = cur_wslot
      <4>1. N - 1 \in Nat /\ N = (N - 1) + 1
        BY <2>2
      <4>2. W * N = W * (N - 1) + W /\ W * (N - 1) \in Nat
        BY <2>2, <4>1, TimesWidth
      <4> QED BY <2>2, <2>3, <3>2, <4>2
    <3>3. CASE s # cur_wslot
      <4>1. W * Behind(s) = W * Behind(s)' + W /\ W * Behind(s)' \in Nat
        BY <2>2, <2>3, <3>3, TimesWidth
      <4> QED BY <2>2, <2>3, <3>3, <4>1
    <3> QED BY <3>2, <3>3
  <2>5. \E k \in Nat : tx_tsc'[cur_wslot'] = k * Width'
    <3>1. PICK k \in Nat : x = k * W
      BY DEF Turning, W, x
    <3>2. (k + 1) * W = k * W + W
      BY <2>2, SMTT(60)
    <3> QED BY <2>3, <3>1, <3>2
  <2>6. tx_tsc'[cur_wslot'] <= last' + Width'
    BY <1>1, <2>1, <2>2, <2>3
  <2>7. /\ call'.ref = last' /\ call' # None
        /\ call'.op = "insert" => call'.desired \in last' .. last' + Horizon'
    BY <2>1, <2>3 DEF Turning
  <2>8. (call = None)' <=> call' = None
    BY DEF None
  <2> QED BY <2>4, <2>5, <2>6, <2>7, <2>8 DEF Turning
<1>7. ASSUME UNCHANGED <<freq, tx_tsc, cur_wslot, last>>, call' = None, ~Reapable(last)
      PROVE  Turning'
  <2>1. last' \in Nat /\ last' >= last
    BY <1>1, <1>7
  <2>2. tx_tsc'[cur_wslot'] > last'
    BY <1>1, <1>7 DEF Reapable, WheelTypes
  <2>3. call'.op # "insert"
    BY <1>7 DEF None
  <2> QED BY <1>7, <2>1, <2>2, <2>3, SameTurns DEF Turning
<1>8. CASE ReapReturns
  <2>1. call.ref = last
    <3>1. call # None
      BY <1>8 DEF ReapReturns, None
    <3> QED BY <3>1 DEF Turning
  <2> QED BY <1>7, <1>8, <2>1 DEF ReapReturns
<1>9. CASE CatchupTurn
  <2>1. call.op = "catchup" /\ call # None /\ call.ref = last
    <3>1. call.op = "catchup" /\ call # None
      BY <1>9 DEF CatchupTurn, None
    <3> QED BY <3>1 DEF Turning
  <2>2. ASSUME NEW t \in Times(last), NEW again \in Times(t),
               call' = [call EXCEPT !.ref = again], last' = again
        PROVE  Turning'
    <3>1. again \in Nat /\ again >= last
      <4>1. t \in Nat /\ t >= last
        BY <1>1, TimesOf
      <4>2. again \in Nat /\ again >= t
        BY <4>1, TimesOf
      <4> QED BY <1>1, <4>1, <4>2
    <3>2. call \in [op : {"reap", "catchup"}, ref : Nat]
      BY <2>1 DEF WheelTypes
    <3>3. call'.op = "catchup" /\ call'.ref = again
      BY <2>1, <2>2, <3>2
    <3>4. call' # None
      BY <3>3 DEF None
    <3>5. UNCHANGED <<freq, tx_tsc, cur_wslot>>
      BY <1>9 DEF CatchupTurn
    <3> QED BY <2>2, <3>1, <3>3, <3>4, <3>5, SameTurns DEF Turning
  <2> QED BY <1>7, <1>9, <2>1, <2>2 DEF CatchupTurn
<1>10. CASE Insert
  BY <1>7, <1>10, InsertDoes
<1>11. CASE UNCHANGED vars
  <2>1. UNCHANGED <<freq, tx_tsc, cur_wslot, last, call>> /\ last' \in Nat /\ last' >= last
    BY <1>1, <1>11 DEF vars
  <2> QED BY <2>1, SameTurns DEF Turning
<1> QED BY <1>3, <1>4, <1>5, <1>6, <1>8, <1>9, <1>10, <1>11 DEF Next

(***************************************************************************)
(* Where the packets are, and since when they may leave.                     *)
(***************************************************************************)
\* The packets of slot s, oldest first.
Content(s) == FlattenSeq(chain[s])

Increasing(c) == \A i, j \in 1 .. Len(c) : i < j => c[i] < c[j]

\* Where the packets are: each in one slot or in the ready queue, in a slot in the
\* order of their insertion, and left tells which are in the ready queue.
Filed ==
  /\ IsInjective(ready_queue)
  /\ \A s \in Wslots : Increasing(Content(s))
  /\ \A s \in Wslots : ToSet(Content(s)) \cap ToSet(ready_queue) = {}
  /\ \A s, t \in Wslots : s # t => ToSet(Content(s)) \cap ToSet(Content(t)) = {}
  /\ \A p : p \in 1 .. Len(due) <=>
              p \in ToSet(ready_queue) \/ \E s \in Wslots : p \in ToSet(Content(s))
  /\ \A p \in 1 .. Packets : left[p] # -1 <=> p \in ToSet(ready_queue)

\* A packet waits in the slot behind its time, or in the one that begins with it.
Timed ==
  /\ \A s \in Wslots : \A p \in ToSet(Content(s)) \ wrapped : due[p] \in tx_tsc[s] - Width .. tx_tsc[s]
  /\ \A p \in ToSet(ready_queue) \ wrapped : left[p] >= due[p]
  /\ wrapped # {} => ~Exact

\* A bucket is full exactly when another one follows it.
Buckets ==
  \A s \in Wslots : \A i \in DOMAIN chain[s] :
    (Len(chain[s][i]) = BucketCap) <=> (i < Len(chain[s]))

\* The inductive invariant of the wheel.
WheelInv == WheelTypes /\ Turning /\ Filed /\ Timed /\ Buckets /\ LeaveInDueOrder

\* The steps that move a packet are a turn of reap and an insert.
LEMMA StepKinds ==
  ASSUME [Next]_vars
  PROVE  \/ ReapTurn \/ Insert
         \/ UNCHANGED <<freq, tx_tsc, cur_wslot, chain, ready_queue, due, left, wrapped>>
BY DEF Next, vars, CallReap, CallInsert, CallCatchup, Call, ReapReturns, CatchupTurn

LEMMA ContentType ==
  ASSUME WheelTypes, NEW s \in Wslots
  PROVE  Content(s) \in Seq(Nat)
<1>1. chain[s] \in Seq(Seq(Nat))
  BY DEF WheelTypes
<1> QED BY <1>1, FlattenRange DEF Content

LEMMA ReapMoves ==
  ASSUME WheelTypes, Turning, ReapTurn
  PROVE  /\ cur_wslot \in Wslots /\ tx_tsc[cur_wslot] <= last
         /\ Content(cur_wslot) \in Seq(Nat)
         /\ ready_queue' = ready_queue \o Content(cur_wslot)
         /\ ToSet(ready_queue') = ToSet(ready_queue) \cup ToSet(Content(cur_wslot))
         /\ \A s \in Wslots : IF s = cur_wslot THEN chain'[s] = << <<>> >> /\ Content(s)' = <<>>
                                               ELSE chain'[s] = chain[s] /\ Content(s)' = Content(s)
         /\ \A s \in Wslots : s # cur_wslot => tx_tsc'[s] = tx_tsc[s]
         /\ \A p \in 1 .. Packets : left'[p] = IF p \in ToSet(Content(cur_wslot)) THEN last ELSE left[p]
         /\ UNCHANGED <<freq, due, wrapped, Width>>
<1> DEFINE e == Content(cur_wslot)
<1>1. cur_wslot \in Wslots /\ call # None /\ call.ref = last
  BY DEF WheelTypes, ReapTurn, Turning
<1>2. tx_tsc[cur_wslot] <= last
  BY <1>1 DEF ReapTurn, Reapable
<1>3. e \in Seq(Nat)
  BY <1>1, ContentType
<1>4. ready_queue' = ready_queue \o e
  BY DEF ReapTurn, ReapWslot, Content
<1>5. \A p : Contains(e, p) <=> p \in ToSet(e)
  BY <1>3, RangeOf
<1>6. \A p \in 1 .. Packets : left'[p] = IF p \in ToSet(e) THEN last ELSE left[p]
  <2>1. left' = [p \in 1 .. Packets |-> IF Contains(e, p) THEN last ELSE left[p]]
    BY <1>1 DEF ReapTurn, ReapWslot, Content
  <2> HIDE DEF e
  <2> QED BY <1>5, <2>1
<1>7. ToSet(ready_queue') = ToSet(ready_queue) \cup ToSet(e)
  <2>1. ready_queue \in Seq(Nat)
    BY DEF WheelTypes
  <2> QED BY <1>3, <1>4, <2>1, ConcatRange
<1>8. \A s \in Wslots : chain'[s] = IF s = cur_wslot THEN << <<>> >> ELSE chain[s]
  BY DEF ReapTurn, ReapWslot, WheelTypes
<1>9. \A s \in Wslots : IF s = cur_wslot THEN chain'[s] = << <<>> >> /\ Content(s)' = <<>>
                                         ELSE chain'[s] = chain[s] /\ Content(s)' = Content(s)
  BY <1>8, FlattenOne, Zenon DEF Content
<1>10. \A s \in Wslots : s # cur_wslot => tx_tsc'[s] = tx_tsc[s]
  BY TurnFacts
<1>11. UNCHANGED <<freq, due, wrapped, Width>>
  BY TurnFacts DEF ReapTurn
<1> QED BY <1>1, <1>2, <1>3, <1>4, <1>6, <1>7, <1>9, <1>10, <1>11, Zenon

LEMMA InsertMoves ==
  ASSUME WheelTypes, Turning, Insert
  PROVE  LET d == call.desired  p == Len(due) + 1
         IN /\ UNCHANGED <<freq, tx_tsc, ready_queue, last, left, Width, Exact>> /\ d \in Nat
            /\ \/ UNCHANGED <<chain, due, wrapped>>
               \/ /\ Dst(d) \in Wslots /\ p \in 1 .. Packets
                  /\ chain'[Dst(d)] = AddEntry(chain[Dst(d)], p)
                  /\ \A s \in Wslots : Content(s)' = IF s = Dst(d) THEN Append(Content(s), p) ELSE Content(s)
                  /\ \A s \in Wslots : s # Dst(d) => chain'[s] = chain[s]
                  /\ due' = Append(due, d)
                  /\ \/ wrapped' = wrapped \cup {p} /\ ~Exact
                     \/ /\ wrapped' = wrapped
                        /\ d \in tx_tsc[Dst(d)] - Width .. tx_tsc[Dst(d)]
<1> DEFINE d == call.desired
           p == Len(due) + 1
<1>1. /\ d \in Nat
      /\ UNCHANGED <<freq, tx_tsc, cur_wslot, ready_queue, last, left>>
      /\ \/ UNCHANGED <<chain, due, wrapped>>
         \/ /\ Dst(d) \in Wslots /\ p \in 1 .. Packets
            /\ chain' = [chain EXCEPT ![Dst(d)] = AddEntry(chain[Dst(d)], p)]
            /\ due' = Append(due, d)
            /\ \/ wrapped' = wrapped \cup {p} /\ ~Exact
               \/ /\ wrapped' = wrapped
                  /\ d \in tx_tsc[Dst(d)] - Width .. tx_tsc[Dst(d)]
  BY InsertDoes, Zenon
<1>2. Width' = Width /\ (Exact' <=> Exact)
  BY <1>1 DEF Width, Exact, Horizon, Cycles
<1>3. ASSUME Dst(d) \in Wslots, p \in 1 .. Packets,
             chain' = [chain EXCEPT ![Dst(d)] = AddEntry(chain[Dst(d)], p)]
      PROVE  /\ chain'[Dst(d)] = AddEntry(chain[Dst(d)], p)
             /\ \A s \in Wslots : Content(s)' = IF s = Dst(d) THEN Append(Content(s), p) ELSE Content(s)
             /\ \A s \in Wslots : s # Dst(d) => chain'[s] = chain[s]
  <2>1. /\ chain[Dst(d)] \in Seq(Seq(Nat)) /\ chain[Dst(d)] # <<>> /\ p \in Nat
        /\ DOMAIN chain = Wslots
    BY <1>3 DEF WheelTypes
  <2>2. FlattenSeq(AddEntry(chain[Dst(d)], p)) = Append(FlattenSeq(chain[Dst(d)]), p)
    BY <2>1, AddEntryAppends
  <2>3. \A s \in Wslots : chain'[s] = IF s = Dst(d) THEN AddEntry(chain[Dst(d)], p) ELSE chain[s]
    <3> HIDE DEF d, p
    <3> QED BY <1>3, <2>1, Zenon
  <2>4. Dst(d) \in Wslots
    BY <1>3
  <2> HIDE DEF d, p
  <2>5. chain'[Dst(d)] = AddEntry(chain[Dst(d)], p)
    BY <2>3, <2>4
  <2>6. \A s \in Wslots : s # Dst(d) => chain'[s] = chain[s]
    BY <2>3
  <2>7. \A s \in Wslots : s = Dst(d) => FlattenSeq(chain'[s]) = Append(FlattenSeq(chain[s]), p)
    BY <2>2, <2>5
  <2>8. \A s \in Wslots : s # Dst(d) => FlattenSeq(chain'[s]) = FlattenSeq(chain[s])
    BY <2>6
  <2> QED BY <2>5, <2>6, <2>7, <2>8 DEF Content
<1> HIDE DEF d, p
<1>4. (Exact' <=> Exact) => Exact' = Exact
  BY DEF Exact
<1> QED BY <1>1, <1>2, <1>3, <1>4, Zenon DEF d, p

LEMMA IncreasingAppend ==
  ASSUME NEW c \in Seq(Nat), NEW p \in Nat
  PROVE  /\ ToSet(Append(c, p)) = ToSet(c) \cup {p}
         /\ Increasing(c) /\ (\A x \in ToSet(c) : x < p) => Increasing(Append(c, p))
         /\ Increasing(c) => IsInjective(c)
<1>1. /\ Append(c, p) \in Seq(Nat) /\ Len(c) \in Nat /\ Len(Append(c, p)) = Len(c) + 1
      /\ DOMAIN c = 1 .. Len(c) /\ DOMAIN Append(c, p) = 1 .. Len(c) + 1
      /\ \A i \in 1 .. Len(c) : Append(c, p)[i] = c[i]
      /\ Append(c, p)[Len(c) + 1] = p
      /\ \A i \in 1 .. Len(c) : c[i] \in Nat
  BY AppendIs
<1>2. /\ \A i \in 1 .. Len(c) + 1 : i \in 1 .. Len(c) \/ i = Len(c) + 1
      /\ \A i \in 1 .. Len(c) : i \in 1 .. Len(c) + 1
      /\ Len(c) + 1 \in 1 .. Len(c) + 1
  BY <1>1
<1>3. ToSet(Append(c, p)) = ToSet(c) \cup {p}
  BY <1>1, <1>2 DEF ToSet
<1>4. ASSUME Increasing(c), \A x \in ToSet(c) : x < p PROVE Increasing(Append(c, p))
  <2>1. \A i \in 1 .. Len(c) : c[i] < p
    BY <1>1, <1>4 DEF ToSet
  <2>2. SUFFICES ASSUME NEW i \in 1 .. Len(c) + 1, NEW j \in 1 .. Len(c) + 1, i < j
                 PROVE  Append(c, p)[i] < Append(c, p)[j]
    BY <1>1 DEF Increasing
  <2>3. i \in 1 .. Len(c)
    BY <1>1, <2>2
  <2> QED BY <1>1, <1>2, <1>4, <2>1, <2>2, <2>3 DEF Increasing
<1>5. ASSUME Increasing(c) PROVE IsInjective(c)
  <2>1. \A i, j \in 1 .. Len(c) : i < j \/ j < i \/ i = j
    BY <1>1
  <2> QED BY <1>1, <1>5, <2>1 DEF Increasing, IsInjective
<1> QED BY <1>3, <1>4, <1>5

LEMMA NothingIn ==
  ToSet(<<>>) = {} /\ Increasing(<<>>)
BY DEF ToSet, Increasing

LEMMA FiledKept ==
  ASSUME WheelTypes, Turning, Filed, [Next]_vars
  PROVE  Filed'
<1>1. CASE ReapTurn
  <2> DEFINE e == Content(cur_wslot)
  <2>1. /\ cur_wslot \in Wslots /\ e \in Seq(Nat) /\ ready_queue \in Seq(Nat)
        /\ ready_queue' = ready_queue \o e
        /\ ToSet(ready_queue') = ToSet(ready_queue) \cup ToSet(e)
        /\ \A s \in Wslots : Content(s)' = IF s = cur_wslot THEN <<>> ELSE Content(s)
        /\ due' = due
    BY <1>1, ReapMoves DEF WheelTypes
  <2>2. \A p \in 1 .. Packets : left'[p] = IF p \in ToSet(e) THEN last ELSE left[p]
    BY <1>1, ReapMoves
  <2>3. last # -1 /\ ToSet(e) \cap ToSet(ready_queue) = {} /\ Increasing(e) /\ IsInjective(ready_queue)
    BY <2>1 DEF WheelTypes, Filed
  <2> HIDE DEF e
  <2>4. IsInjective(ready_queue)'
    <3>1. IsInjective(e) /\ ToSet(ready_queue) \cap ToSet(e) = {}
      BY <2>1, <2>3, IncreasingAppend
    <3> QED BY <2>1, <2>3, <3>1, ConcatRange
  <2>5. \A s \in Wslots : Increasing(Content(s)')
    BY <2>1, NothingIn DEF Filed
  <2>6. \A s \in Wslots : ToSet(Content(s)') \cap ToSet(ready_queue') = {}
    <3>1. SUFFICES ASSUME NEW s \in Wslots, s # cur_wslot
                   PROVE  ToSet(Content(s)) \cap (ToSet(ready_queue) \cup ToSet(e)) = {}
      BY <2>1, NothingIn
    <3>2. ToSet(Content(s)) \cap ToSet(ready_queue) = {}
      BY DEF Filed
    <3>3. ToSet(Content(s)) \cap ToSet(e) = {}
      BY <2>1, <3>1 DEF Filed, e
    <3> QED BY <3>2, <3>3
  <2>7. \A s, t \in Wslots : s # t => ToSet(Content(s)') \cap ToSet(Content(t)') = {}
    BY <2>1, NothingIn DEF Filed
  <2>8. ASSUME NEW p
        PROVE  p \in 1 .. Len(due) <=>
                 p \in ToSet(ready_queue') \/ \E s \in Wslots : p \in ToSet(Content(s)')
    <3>1. (\E s \in Wslots : p \in ToSet(Content(s)))
          <=> p \in ToSet(e) \/ \E s \in Wslots : s # cur_wslot /\ p \in ToSet(Content(s))
      BY <2>1 DEF e
    <3>2. (\E s \in Wslots : p \in ToSet(Content(s)'))
          <=> \E s \in Wslots : s # cur_wslot /\ p \in ToSet(Content(s))
      BY <2>1, NothingIn
    <3>3. p \in 1 .. Len(due) <=>
            p \in ToSet(ready_queue) \/ \E s \in Wslots : p \in ToSet(Content(s))
      BY DEF Filed
    <3> QED BY <2>1, <3>1, <3>2, <3>3
  <2>9. \A p \in 1 .. Packets : left'[p] # -1 <=> p \in ToSet(ready_queue')
    BY <2>1, <2>2, <2>3 DEF Filed
  <2> QED BY <2>1, <2>4, <2>5, <2>6, <2>7, <2>8, <2>9 DEF Filed
<1>2. CASE Insert
  <2> DEFINE d == call.desired
             p == Len(due) + 1
  <2>1. /\ UNCHANGED <<ready_queue, left>>
        /\ \/ UNCHANGED <<chain, due>>
           \/ /\ Dst(d) \in Wslots /\ p \in 1 .. Packets /\ d \in Nat
              /\ \A s \in Wslots : Content(s)' = IF s = Dst(d) THEN Append(Content(s), p) ELSE Content(s)
              /\ due' = Append(due, d)
    BY <1>2, InsertMoves, Zenon
  <2>2. CASE UNCHANGED <<chain, due>>
    BY <2>1, <2>2 DEF Filed, Content
  <2>3. CASE /\ Dst(d) \in Wslots /\ p \in 1 .. Packets /\ d \in Nat
             /\ \A s \in Wslots : Content(s)' = IF s = Dst(d) THEN Append(Content(s), p) ELSE Content(s)
             /\ due' = Append(due, d)
    <3> DEFINE D == Dst(d)
    <3>1. /\ due \in Seq(Nat) /\ Len(due) \in Nat /\ p \in Nat /\ Len(due') = p
          /\ p \notin 1 .. Len(due) /\ \A x : x \in 1 .. p <=> x \in 1 .. Len(due) \/ x = p
          /\ \A x \in 1 .. Len(due) : x < p
      BY <2>3, SMTT(30) DEF WheelTypes
    <3>2. /\ D \in Wslots
          /\ \A s \in Wslots : Content(s)' = IF s = D THEN Append(Content(s), p) ELSE Content(s)
      BY <2>3
    <3> HIDE DEF p, D, d
    <3>3. \A s \in Wslots : Content(s) \in Seq(Nat)
      BY ContentType
    <3>4. \A s \in Wslots : ToSet(Content(s)') = IF s = D THEN ToSet(Content(s)) \cup {p} ELSE ToSet(Content(s))
      BY <3>1, <3>2, <3>3, IncreasingAppend
    <3>5. p \notin ToSet(ready_queue) /\ \A s \in Wslots : p \notin ToSet(Content(s))
      BY <3>1 DEF Filed
    <3>6. \A s \in Wslots : Increasing(Content(s)')
      <4>1. SUFFICES ASSUME NEW s \in Wslots PROVE Increasing(Content(s)')
        OBVIOUS
      <4>2. \A x \in ToSet(Content(s)) : x < p
        BY <3>1 DEF Filed
      <4>3. Increasing(Content(s)) /\ Content(s) \in Seq(Nat)
        BY <3>3 DEF Filed
      <4>4. Increasing(Append(Content(s), p))
        BY <3>1, <4>2, <4>3, IncreasingAppend
      <4>5. CASE s = D
        <5>1. Content(s)' = Append(Content(s), p)
          BY <3>2, <4>5
        <5> QED BY <4>4, <5>1
      <4>6. CASE s # D
        <5>1. Content(s)' = Content(s)
          BY <3>2, <4>6
        <5> QED BY <4>3, <5>1
      <4> QED BY <4>5, <4>6
    <3>7. \A s \in Wslots : ToSet(Content(s)') \cap ToSet(ready_queue') = {}
      BY <2>1, <3>4, <3>5 DEF Filed
    <3>8. \A s, t \in Wslots : s # t => ToSet(Content(s)') \cap ToSet(Content(t)') = {}
      BY <3>4, <3>5 DEF Filed
    <3>9. ASSUME NEW x
          PROVE  x \in 1 .. Len(due') <=>
                   x \in ToSet(ready_queue') \/ \E s \in Wslots : x \in ToSet(Content(s)')
      <4>1. (\E s \in Wslots : x \in ToSet(Content(s)'))
            <=> x = p \/ \E s \in Wslots : x \in ToSet(Content(s))
        BY <3>2, <3>4
      <4>2. x \in 1 .. Len(due) <=>
              x \in ToSet(ready_queue) \/ \E s \in Wslots : x \in ToSet(Content(s))
        BY DEF Filed
      <4> QED BY <2>1, <3>1, <4>1, <4>2
    <3> QED BY <2>1, <3>6, <3>7, <3>8, <3>9 DEF Filed
  <2> HIDE DEF d, p
  <2> QED BY <2>1, <2>2, <2>3
<1>3. CASE UNCHANGED <<freq, tx_tsc, cur_wslot, chain, ready_queue, due, left, wrapped>>
  BY <1>3 DEF Filed, Content
<1> QED BY <1>1, <1>2, <1>3, StepKinds

\* Every packet in the wheel or in the ready queue has a number below Len(due) + 1.
LEMMA PacketNumbers ==
  ASSUME WheelTypes, Filed
  PROVE  /\ \A s \in Wslots : ToSet(Content(s)) \subseteq 1 .. Len(due)
         /\ ToSet(ready_queue) \subseteq 1 .. Len(due)
         /\ Len(due) \in Nat /\ 1 .. Len(due) \subseteq 1 .. Packets
         /\ \A p \in 1 .. Len(due) : due[p] \in Nat
<1>1. due \in Seq(Nat) /\ Len(due) \in Nat /\ Len(due) <= Packets /\ Packets \in Nat
  BY WheelAssumption DEF WheelTypes
<1> QED BY <1>1 DEF Filed

LEMMA TimedKept ==
  ASSUME WheelTypes, Turning, Filed, Timed, [Next]_vars
  PROVE  Timed'
<1>1. CASE ReapTurn
  <2> DEFINE e == Content(cur_wslot)
  <2>1. /\ cur_wslot \in Wslots /\ tx_tsc[cur_wslot] <= last
        /\ ToSet(ready_queue') = ToSet(ready_queue) \cup ToSet(e)
        /\ \A s \in Wslots : Content(s)' = IF s = cur_wslot THEN <<>> ELSE Content(s)
        /\ \A s \in Wslots : s # cur_wslot => tx_tsc'[s] = tx_tsc[s]
        /\ due' = due /\ wrapped' = wrapped /\ Width' = Width /\ freq' = freq
    BY <1>1, ReapMoves
  <2>2. \A p \in 1 .. Packets : left'[p] = IF p \in ToSet(e) THEN last ELSE left[p]
    BY <1>1, ReapMoves
  <2>3. Exact' = Exact
    BY <2>1 DEF Exact, Horizon, Width, Cycles
  <2>4. \A s \in Wslots : \A p \in ToSet(Content(s)') \ wrapped : due[p] \in tx_tsc'[s] - Width .. tx_tsc'[s]
    BY <2>1, NothingIn DEF Timed
  <2>5. ASSUME NEW p \in ToSet(ready_queue') \ wrapped PROVE left'[p] >= due[p]
    <3>1. /\ p \in 1 .. Packets /\ due[p] \in Nat
          /\ tx_tsc[cur_wslot] \in Nat /\ last \in Nat /\ Width \in Nat
      BY <2>1, <2>5, PacketNumbers, WidthPositive DEF WheelTypes
    <3>2. CASE p \in ToSet(e)
      <4>1. due[p] \in tx_tsc[cur_wslot] - Width .. tx_tsc[cur_wslot]
        BY <2>1, <2>5, <3>2 DEF Timed
      <4>2. left'[p] = last
        BY <2>2, <3>1, <3>2
      <4> QED BY <2>1, <3>1, <4>1, <4>2
    <3>3. CASE p \notin ToSet(e)
      <4>1. left'[p] = left[p] /\ p \in ToSet(ready_queue) \ wrapped
        BY <2>1, <2>2, <2>5, <3>1, <3>3
      <4> QED BY <4>1 DEF Timed
    <3> QED BY <3>2, <3>3
  <2> QED BY <2>1, <2>3, <2>4, <2>5 DEF Timed
<1>2. CASE Insert
  <2> DEFINE d == call.desired
             p == Len(due) + 1
             D == Dst(d)
  <2>1. /\ UNCHANGED <<tx_tsc, ready_queue, left, Width, Exact>>
        /\ \/ UNCHANGED <<chain, due, wrapped>>
           \/ /\ D \in Wslots /\ p \in 1 .. Packets /\ d \in Nat
              /\ \A s \in Wslots : Content(s)' = IF s = D THEN Append(Content(s), p) ELSE Content(s)
              /\ due' = Append(due, d)
              /\ \/ wrapped' = wrapped \cup {p} /\ ~Exact
                 \/ wrapped' = wrapped /\ d \in tx_tsc[D] - Width .. tx_tsc[D]
    BY <1>2, InsertMoves, Zenon
  <2>2. CASE UNCHANGED <<chain, due, wrapped>>
    BY <2>1, <2>2 DEF Timed, Content
  <2>3. CASE /\ D \in Wslots /\ p \in 1 .. Packets /\ d \in Nat
             /\ \A s \in Wslots : Content(s)' = IF s = D THEN Append(Content(s), p) ELSE Content(s)
             /\ due' = Append(due, d)
             /\ \/ wrapped' = wrapped \cup {p} /\ ~Exact
                \/ wrapped' = wrapped /\ d \in tx_tsc[D] - Width .. tx_tsc[D]
    <3>1. /\ p \in Nat /\ p \notin 1 .. Len(due) /\ due'[p] = d
          /\ \A x \in 1 .. Len(due) : due'[x] = due[x]
      BY <2>3 DEF WheelTypes
    <3>2. \A s \in Wslots : ToSet(Content(s)) \subseteq 1 .. Len(due)
      BY PacketNumbers
    <3>3. wrapped \subseteq wrapped' /\ wrapped' \subseteq wrapped \cup {p}
          /\ (p \notin wrapped' => d \in tx_tsc[D] - Width .. tx_tsc[D])
          /\ (wrapped' # {} => ~Exact)
      BY <2>3 DEF Timed
    <3>4. /\ D \in Wslots
          /\ \A s \in Wslots : Content(s)' = IF s = D THEN Append(Content(s), p) ELSE Content(s)
      BY <2>3
    <3> HIDE DEF p, D, d
    <3>5. \A s \in Wslots : ToSet(Content(s)') = IF s = D THEN ToSet(Content(s)) \cup {p} ELSE ToSet(Content(s))
      BY <3>1, <3>4, ContentType, IncreasingAppend
    <3>6. ASSUME NEW s \in Wslots, NEW x \in ToSet(Content(s)') \ wrapped'
          PROVE  due'[x] \in tx_tsc[s] - Width .. tx_tsc[s]
      <4>1. CASE x \in ToSet(Content(s))
        <5>1. x \in ToSet(Content(s)) \ wrapped /\ due'[x] = due[x]
          BY <3>1, <3>2, <3>3, <3>6, <4>1
        <5> QED BY <5>1 DEF Timed
      <4>2. CASE x \notin ToSet(Content(s))
        <5>1. s = D /\ x = p
          BY <3>5, <3>6, <4>2
        <5> QED BY <3>1, <3>3, <3>6, <5>1
      <4> QED BY <4>1, <4>2
    <3>7. ASSUME NEW x \in ToSet(ready_queue) \ wrapped' PROVE left[x] >= due'[x]
      <4>1. x \in ToSet(ready_queue) \ wrapped /\ due'[x] = due[x]
        BY <3>1, <3>3, <3>7, PacketNumbers
      <4> QED BY <4>1 DEF Timed
    <3> QED BY <2>1, <3>3, <3>6, <3>7 DEF Timed
  <2> HIDE DEF d, p, D
  <2> QED BY <2>1, <2>2, <2>3
<1>3. CASE UNCHANGED <<freq, tx_tsc, cur_wslot, chain, ready_queue, due, left, wrapped>>
  BY <1>3 DEF Timed, Content, Width, Exact, Horizon, Cycles
<1> QED BY <1>1, <1>2, <1>3, StepKinds

LEMMA BucketsKept ==
  ASSUME WheelTypes, Turning, Buckets, [Next]_vars
  PROVE  Buckets'
<1> DEFINE Full(b) == \A i \in DOMAIN b : (Len(b[i]) = BucketCap) <=> (i < Len(b))
<1>1. Buckets <=> \A s \in Wslots : Full(chain[s])
  BY DEF Buckets
<1>2. Buckets' <=> \A s \in Wslots : Full(chain'[s])
  BY DEF Buckets
<1>3. CASE ReapTurn
  <2>1. \A s \in Wslots : chain'[s] = << <<>> >> \/ chain'[s] = chain[s]
    BY <1>3, ReapMoves
  <2>2. Full(<< <<>> >>)
    <3>1. Len(<<>>) # BucketCap
      BY WheelAssumption
    <3> QED BY <3>1
  <2> HIDE DEF Full
  <2>3. ASSUME NEW s \in Wslots PROVE Full(chain'[s])
    <3>1. CASE chain'[s] = << <<>> >>
      BY <2>2, <3>1
    <3>2. CASE chain'[s] = chain[s]
      BY <1>1, <3>2
    <3> QED BY <2>1, <3>1, <3>2
  <2> QED BY <1>2, <2>3
<1>4. CASE Insert
  <2> DEFINE p == Len(due) + 1
             D == Dst(call.desired)
  <2>1. \/ chain' = chain
        \/ /\ D \in Wslots /\ p \in 1 .. Packets
           /\ chain'[D] = AddEntry(chain[D], p)
           /\ \A s \in Wslots : s # D => chain'[s] = chain[s]
    BY <1>4, InsertMoves, Zenon
  <2>2. CASE chain' = chain
    BY <2>2 DEF Buckets
  <2>3. CASE /\ D \in Wslots /\ p \in 1 .. Packets
             /\ chain'[D] = AddEntry(chain[D], p)
             /\ \A s \in Wslots : s # D => chain'[s] = chain[s]
    <3>1. chain[D] \in Seq(Seq(Nat)) /\ chain[D] # <<>> /\ p \in Nat
      BY <2>3 DEF WheelTypes
    <3>2. Full(chain[D])
      BY <1>1, <2>3
    <3>3. Full(AddEntry(chain[D], p))
      BY <3>1, <3>2, AddEntryAppends
    <3> HIDE DEF Full, p, D
    <3>4. ASSUME NEW s \in Wslots PROVE Full(chain'[s])
      <4>1. CASE s = D
        BY <2>3, <3>3, <4>1
      <4>2. CASE s # D
        <5>1. chain'[s] = chain[s]
          BY <2>3, <4>2
        <5> QED BY <1>1, <5>1
      <4> QED BY <4>1, <4>2
    <3> QED BY <1>2, <3>4
  <2> HIDE DEF p, D
  <2> QED BY <2>1, <2>2, <2>3
<1>5. CASE UNCHANGED <<freq, tx_tsc, cur_wslot, chain, ready_queue, due, left, wrapped>>
  BY <1>5 DEF Buckets
<1> QED BY <1>3, <1>4, <1>5, StepKinds

\* Of two packets of a due order the first is not in a later slot than the second.
LEMMA SlotsInDueOrder ==
  ASSUME WheelTypes, Turning, Filed, Timed,
         NEW s \in Wslots, NEW p \in ToSet(Content(s)) \ wrapped,
         NEW q \in ToSet(Content(cur_wslot)) \ wrapped,
         due[p] < due[q] \/ (due[p] = due[q] /\ due[p] % Width # 0)
  PROVE  s = cur_wslot
<1> DEFINE W == Width
           x == tx_tsc[cur_wslot]
<1>1. /\ W \in Nat \ {0} /\ cur_wslot \in Wslots /\ x \in Nat /\ tx_tsc[s] \in Nat
      /\ due[p] \in Nat /\ due[q] \in Nat
  BY WidthPositive, PacketNumbers DEF WheelTypes
<1>2. SUFFICES ASSUME s # cur_wslot PROVE FALSE
  OBVIOUS
<1>3. due[p] \in tx_tsc[s] - W .. tx_tsc[s] /\ due[q] \in x - W .. x /\ tx_tsc[s] = x + W * Behind(s)
  BY <1>1 DEF Timed, Turning
<1>4. Behind(s) \in Nat /\ 1 <= Behind(s)
  BY <1>1, <1>2, WslotFacts
<1> HIDE DEF W, x
<1>5. W * 1 = W /\ W * 1 <= W * Behind(s) /\ W * Behind(s) \in Nat
  BY <1>1, <1>4, TimesWidth
<1>6. due[p] = due[q] /\ due[p] = x
  BY <1>1, <1>3, <1>5
<1>7. PICK k \in Nat : x = k * W
  BY DEF Turning, W, x
<1>8. x % W = 0
  BY <1>1, <1>7, Multiple
<1> QED BY <1>1, <1>6, <1>8 DEF W

LEMMA OrderKept ==
  ASSUME WheelTypes, Turning, Filed, Timed, LeaveInDueOrder, [Next]_vars
  PROVE  LeaveInDueOrder'
<1> DEFINE Asks(p, q) == /\ p < q
                         /\ due[p] < due[q] \/ (due[p] = due[q] /\ due[p] % Width # 0)
<1>1. DOMAIN due = 1 .. Len(due) /\ due \in Seq(Nat) /\ Len(due) \in Nat
  BY DEF WheelTypes
<1>2. ASSUME NEW p \in 1 .. Len(due), NEW q \in 1 .. Len(due),
             p \notin wrapped, q \notin wrapped, Asks(p, q), q \in ToSet(ready_queue)
      PROVE  Precedes(p, q)
  <2>1. left[q] # -1
    BY <1>2, PacketNumbers DEF Filed
  <2> QED BY <1>1, <1>2, <2>1 DEF LeaveInDueOrder
<1>3. CASE ReapTurn
  <2> DEFINE e == Content(cur_wslot)
             m == Len(ready_queue)
  <2>1. /\ e \in Seq(Nat) /\ ready_queue \in Seq(Nat) /\ cur_wslot \in Wslots
        /\ ready_queue' = ready_queue \o e
        /\ ToSet(ready_queue') = ToSet(ready_queue) \cup ToSet(e)
        /\ due' = due /\ wrapped' = wrapped /\ Width' = Width
    BY <1>3, ReapMoves DEF WheelTypes
  <2>2. /\ m \in Nat /\ DOMAIN ready_queue = 1 .. m /\ DOMAIN ready_queue' = 1 .. m + Len(e)
        /\ Len(e) \in Nat
        /\ \A i \in 1 .. m : i \in 1 .. m + Len(e) /\ ready_queue'[i] = ready_queue[i]
        /\ \A i \in 1 .. Len(e) : i + m \in 1 .. m + Len(e) /\ ready_queue'[i + m] = e[i]
    <3>1. /\ m \in Nat /\ DOMAIN ready_queue = 1 .. m /\ Len(e) \in Nat
          /\ Len(ready_queue') = m + Len(e) /\ ready_queue' \in Seq(Nat)
          /\ \A i \in 1 .. m + Len(e) : ready_queue'[i] = IF i <= m THEN ready_queue[i] ELSE e[i - m]
      BY <2>1, ConcatProperties
    <3>2. DOMAIN ready_queue' = 1 .. m + Len(e)
      BY <3>1
    <3>3. \A i \in 1 .. Len(e) : i + m \in 1 .. m + Len(e) /\ ~(i + m <= m) /\ (i + m) - m = i
      BY <3>1
    <3> HIDE DEF m, e
    <3> QED BY <3>1, <3>2, <3>3, SMTT(30)
  <2>3. SUFFICES ASSUME NEW p \in 1 .. Len(due), NEW q \in 1 .. Len(due),
                        p \notin wrapped, q \notin wrapped, Asks(p, q), left'[q] # -1
                 PROVE  \E i, j \in DOMAIN ready_queue' : i < j /\ ready_queue'[i] = p /\ ready_queue'[j] = q
    <3>1. SUFFICES ASSUME NEW p \in DOMAIN due' \ wrapped', NEW q \in DOMAIN due' \ wrapped',
                          p < q, left'[q] # -1,
                          due'[p] < due'[q] \/ (due'[p] = due'[q] /\ due'[p] % Width' # 0)
                   PROVE  \E i, j \in DOMAIN ready_queue' :
                            i < j /\ ready_queue'[i] = p /\ ready_queue'[j] = q
      <4>1. (\A p, q \in DOMAIN due' \ wrapped' :
               (/\ p < q /\ left'[q] # -1
                /\ \/ due'[p] < due'[q]
                   \/ due'[p] = due'[q] /\ due'[p] % Width' # 0)
               => \E i, j \in DOMAIN ready_queue' :
                    i < j /\ ready_queue'[i] = p /\ ready_queue'[j] = q)
            => LeaveInDueOrder'
        BY DEF LeaveInDueOrder, Precedes
      <4> QED BY <4>1
    <3>2. /\ p \in 1 .. Len(due) /\ q \in 1 .. Len(due) /\ p \notin wrapped /\ q \notin wrapped
          /\ Asks(p, q) /\ left'[q] # -1
      BY <1>1, <2>1, <3>1
    <3> QED BY <2>3, <3>2
  <2>4. q \in ToSet(ready_queue) \cup ToSet(e)
    <3>1. Filed' /\ q \in 1 .. Packets
      BY <1>3, FiledKept, PacketNumbers DEF Next
    <3> QED BY <2>1, <2>3, <3>1 DEF Filed
  <2>5. CASE q \in ToSet(ready_queue)
    <3>1. Precedes(p, q)
      BY <1>2, <2>3, <2>5
    <3> HIDE DEF m, e
    <3> QED BY <2>2, <3>1 DEF Precedes
  <2>6. CASE q \in ToSet(e)
    <3>1. PICK j \in 1 .. Len(e) : q = e[j]
      BY <2>1, <2>6, RangeOf
    <3>2. CASE p \in ToSet(ready_queue)
      <4>1. PICK i \in 1 .. m : p = ready_queue[i]
        BY <2>1, <3>2, RangeOf
      <4>2. i < j + m
        BY <2>2, <3>1, <4>1
      <4> HIDE DEF m, e
      <4> QED BY <2>2, <3>1, <4>1, <4>2
    <3>3. CASE p \notin ToSet(ready_queue)
      <4>1. PICK s \in Wslots : p \in ToSet(Content(s))
        BY <2>3, <3>3 DEF Filed
      <4>2. s = cur_wslot
        BY <2>3, <2>6, <4>1, SlotsInDueOrder
      <4>3. PICK i \in 1 .. Len(e) : p = e[i]
        BY <2>1, <4>1, <4>2, RangeOf
      <4>4. p < q /\ Increasing(e)
        BY <2>1, <2>3 DEF Filed
      <4> HIDE DEF m, e
      <4>5. i < j
        <5>1. i < j \/ i = j \/ j < i
          BY <2>2, <3>1, <4>3
        <5>2. p \in Nat /\ q \in Nat
          BY <2>3
        <5> QED BY <3>1, <4>3, <4>4, <5>1, <5>2 DEF Increasing
      <4>6. i + m < j + m
        BY <2>2, <3>1, <4>3, <4>5
      <4> QED BY <2>2, <3>1, <4>3, <4>6
    <3> QED BY <3>2, <3>3
  <2> QED BY <2>4, <2>5, <2>6
<1>4. CASE Insert
  <2> DEFINE n == Len(due) + 1
  <2>1. /\ UNCHANGED <<ready_queue, left, Width>>
        /\ \/ UNCHANGED <<due, wrapped>>
           \/ /\ n \in 1 .. Packets
              /\ due' = Append(due, call.desired) /\ call.desired \in Nat
              /\ wrapped \subseteq wrapped'
    BY <1>4, InsertMoves DEF WheelTypes
  <2>2. CASE UNCHANGED <<due, wrapped>>
    BY <2>1, <2>2 DEF LeaveInDueOrder, Precedes
  <2>3. CASE /\ n \in 1 .. Packets
             /\ due' = Append(due, call.desired) /\ call.desired \in Nat
             /\ wrapped \subseteq wrapped'
    <3>1. /\ DOMAIN due' = 1 .. n /\ \A x \in 1 .. Len(due) : due'[x] = due[x]
          /\ \A x \in 1 .. n : x \in 1 .. Len(due) \/ x = n
          /\ \A x \in 1 .. n : ~(n < x) /\ n \notin 1 .. Len(due)
      BY <1>1, <2>3
    <3>2. left[n] = -1
      <4>1. n \notin ToSet(ready_queue)
        BY <3>1, <1>1, PacketNumbers
      <4> QED BY <2>3, <4>1 DEF Filed
    <3> HIDE DEF n
    <3>3. SUFFICES ASSUME NEW p \in DOMAIN due' \ wrapped', NEW q \in DOMAIN due' \ wrapped',
                          p < q, left'[q] # -1,
                          due'[p] < due'[q] \/ (due'[p] = due'[q] /\ due'[p] % Width' # 0)
                   PROVE  \E i, j \in DOMAIN ready_queue' :
                            i < j /\ ready_queue'[i] = p /\ ready_queue'[j] = q
      <4>1. (\A p, q \in DOMAIN due' \ wrapped' :
               (/\ p < q /\ left'[q] # -1
                /\ \/ due'[p] < due'[q]
                   \/ due'[p] = due'[q] /\ due'[p] % Width' # 0)
               => \E i, j \in DOMAIN ready_queue' :
                    i < j /\ ready_queue'[i] = p /\ ready_queue'[j] = q)
            => LeaveInDueOrder'
        BY DEF LeaveInDueOrder, Precedes
      <4> QED BY <4>1
    <3>4. q \in 1 .. Len(due) /\ p \in 1 .. Len(due) /\ p \notin wrapped /\ q \notin wrapped
      BY <2>1, <2>3, <3>1, <3>2, <3>3
    <3>5. due'[p] = due[p] /\ due'[q] = due[q] /\ left[q] # -1 /\ Width' = Width
      BY <2>1, <3>1, <3>3, <3>4
    <3>6. Precedes(p, q)
      BY <1>1, <3>3, <3>4, <3>5 DEF LeaveInDueOrder
    <3> QED BY <2>1, <3>6 DEF Precedes
  <2> HIDE DEF n
  <2> QED BY <2>1, <2>2, <2>3
<1>5. CASE UNCHANGED <<freq, tx_tsc, cur_wslot, chain, ready_queue, due, left, wrapped>>
  BY <1>5 DEF LeaveInDueOrder, Precedes, Width, Cycles
<1> QED BY <1>3, <1>4, <1>5, StepKinds

LEMMA WheelInvInit ==
  ASSUME Init PROVE WheelInv
<1>1. WheelTypes /\ Turning
  BY WheelInit
<1>2. /\ ready_queue = <<>> /\ due = <<>> /\ wrapped = {}
      /\ \A s \in Wslots : chain[s] = << <<>> >>
      /\ \A p \in 1 .. Packets : left[p] = -1
  BY DEF Init
<1>3. \A s \in Wslots : Content(s) = <<>>
  BY <1>2, FlattenOne DEF Content
<1>4. Filed
  <2>1. IsInjective(<<>>) /\ Len(<<>>) = 0 /\ \A p : p \notin 1 .. 0
    BY DEF IsInjective
  <2> QED BY <1>2, <1>3, <2>1, NothingIn DEF Filed
<1>5. Timed
  BY <1>2, <1>3, NothingIn DEF Timed
<1>6. Buckets
  <2>1. Len(<<>>) # BucketCap
    BY WheelAssumption
  <2>2. \A i \in DOMAIN << <<>> >> : (Len(<< <<>> >>[i]) = BucketCap) <=> (i < Len(<< <<>> >>))
    BY <2>1
  <2> QED BY <1>2, <2>2, Zenon DEF Buckets
<1>7. LeaveInDueOrder
  BY <1>2 DEF LeaveInDueOrder
<1> QED BY <1>1, <1>4, <1>5, <1>6, <1>7 DEF WheelInv

LEMMA WheelInvKept ==
  ASSUME WheelInv, [Next]_vars PROVE WheelInv'
BY WheelTypesKept, TurningKept, FiledKept, TimedKept, BucketsKept, OrderKept DEF WheelInv

\* Of two packets, the one inserted first and due first leaves the wheel first, and
\* so does the one inserted first of two due together: insert files by division,
\* relative to a slot that reap moves in between.
THEOREM PacketsLeaveInDueOrder == Spec => []LeaveInDueOrder
<1>1. WheelInv => LeaveInDueOrder
  BY DEF WheelInv
<1> QED BY <1>1, WheelInvInit, WheelInvKept, PTL DEF Spec

LEMMA InvReleased ==
  ASSUME WheelInv PROVE ReleasedInTime
<1> USE DEF WheelInv
<1>1. DOMAIN due = 1 .. Len(due)
  BY DEF WheelTypes
<1>2. wrapped # {} => ~Exact
  BY DEF Timed
<1>3. ASSUME NEW p \in 1 .. Len(due), p \notin wrapped
      PROVE  IF left[p] # -1 THEN left[p] >= due[p] ELSE call = None => last < due[p] + Width
  <2>1. p \in 1 .. Packets /\ due[p] \in Nat
    BY PacketNumbers
  <2>2. CASE left[p] # -1
    BY <1>3, <2>1, <2>2 DEF Filed, Timed
  <2>3. CASE left[p] = -1
    <3>1. SUFFICES ASSUME call = None PROVE last < due[p] + Width
      BY <2>3
    <3>2. PICK s \in Wslots : p \in ToSet(Content(s))
      BY <1>3, <2>1, <2>3 DEF Filed
    <3>3. due[p] \in tx_tsc[s] - Width .. tx_tsc[s]
      BY <1>3, <3>2 DEF Timed
    <3>4. tx_tsc[s] = tx_tsc[cur_wslot] + Width * Behind(s) /\ tx_tsc[cur_wslot] > last
      BY <3>1 DEF Turning
    <3>5. /\ Width \in Nat \ {0} /\ last \in Nat /\ cur_wslot \in Wslots
          /\ tx_tsc[s] \in Nat /\ tx_tsc[cur_wslot] \in Nat
      BY WidthPositive DEF WheelTypes
    <3>6. Behind(s) \in Nat
      BY <3>5, WslotFacts
    <3>7. Width * Behind(s) \in Nat
      BY <3>5, <3>6, TimesWidth
    <3> HIDE DEF WheelInv
    <3> QED BY <2>1, <3>3, <3>4, <3>5, <3>7
  <2> QED BY <2>2, <2>3
<1> QED BY <1>1, <1>2, <1>3 DEF ReleasedInTime

\* No packet leaves before the time asked for, and none stays once it has been due
\* for the width of a slot and the wheel was given the time: the comparison of reap
\* and the division of insert, whatever the rounding of width and horizon.
THEOREM PacketsReleasedInTime == Spec => []ReleasedInTime
BY WheelInvInit, WheelInvKept, InvReleased, PTL DEF Spec

LEMMA InvEveryPacket ==
  ASSUME WheelInv PROVE EveryPacketOnce
<1> DEFINE slots == [i \in 1 .. NumWslots |-> FlattenSeq(chain[i - 1])]
<1>1. NumWslots \in Nat \ {0} /\ Wslots = 0 .. NumWslots - 1
  BY WheelAssumption DEF Wslots
<1>2. /\ \A i \in 1 .. NumWslots : i - 1 \in Wslots /\ slots[i] = Content(i - 1)
      /\ \A s \in Wslots : s + 1 \in 1 .. NumWslots /\ slots[s + 1] = Content(s)
  BY <1>1 DEF Content
<1>3. \A i \in 1 .. NumWslots : slots[i] \in Seq(Nat)
  BY <1>2, ContentType DEF WheelInv
<1>4. slots \in Seq(Seq(Nat)) /\ Len(slots) = NumWslots
  <2>1. slots = [i \in 1 .. NumWslots |-> slots[i]]
    OBVIOUS
  <2> HIDE DEF slots
  <2> QED BY <1>1, <1>3, <2>1
<1> HIDE DEF slots
<1>5. \A i \in 1 .. NumWslots : IsInjective(slots[i])
  BY <1>2, <1>3, IncreasingAppend DEF WheelInv, Filed
<1>6. \A i, j \in 1 .. NumWslots : i # j => ToSet(slots[i]) \cap ToSet(slots[j]) = {}
  <2>1. \A i, j \in 1 .. NumWslots : i # j => i - 1 # j - 1
    BY <1>1
  <2> QED BY <1>2, <2>1 DEF WheelInv, Filed
<1>7. /\ FlattenSeq(slots) \in Seq(Nat)
      /\ \A x : x \in ToSet(FlattenSeq(slots)) <=> \E i \in 1 .. NumWslots : x \in ToSet(slots[i])
      /\ IsInjective(FlattenSeq(slots))
  BY <1>4, <1>5, <1>6, FlattenRange
<1>8. \A x : x \in ToSet(FlattenSeq(slots)) <=> \E s \in Wslots : x \in ToSet(Content(s))
  BY <1>2, <1>7
<1>9. ready_queue \in Seq(Nat) /\ IsInjective(ready_queue) /\ DOMAIN due = 1 .. Len(due)
  BY DEF WheelInv, WheelTypes, Filed
<1>10. ToSet(ready_queue) \cap ToSet(FlattenSeq(slots)) = {}
  BY <1>8 DEF WheelInv, Filed
<1>11. IsInjective(ready_queue \o FlattenSeq(slots))
  BY <1>7, <1>9, <1>10, ConcatRange
<1>12. ToSet(ready_queue \o FlattenSeq(slots)) = DOMAIN due
  <2>1. ToSet(ready_queue \o FlattenSeq(slots)) = ToSet(ready_queue) \cup ToSet(FlattenSeq(slots))
    BY <1>7, <1>9, ConcatRange
  <2>2. \A x : x \in 1 .. Len(due) <=> x \in ToSet(ready_queue) \cup ToSet(FlattenSeq(slots))
    BY <1>8 DEF WheelInv, Filed
  <2> QED BY <1>9, <2>1, <2>2
<1> QED BY <1>11, <1>12 DEF EveryPacketOnce, WheelInv, Buckets, slots

\* Every packet is in the wheel or in the ready queue, once, and only the last bucket
\* of a chain has room: what insert_into_wslot and reap_wslot do to the chains.
THEOREM PacketsNeverLost == Spec => []EveryPacketOnce
BY WheelInvInit, WheelInvKept, InvEveryPacket, PTL DEF Spec

LEMMA InvSlotsFollow ==
  ASSUME WheelInv PROVE SlotsFollowInTime
<1>1. WheelTypes /\ Turning /\ cur_wslot \in Wslots /\ Width \in Nat \ {0}
  BY WidthPositive DEF WheelInv, WheelTypes
<1>2. ASSUME NEW s \in Wslots, Next1(s) # cur_wslot
      PROVE  tx_tsc[Next1(s)] = tx_tsc[s] + Width
  <2>1. Next1(s) \in Wslots /\ Behind(s) \in Nat /\ Behind(Next1(s)) = Behind(s) + 1
    BY <1>1, <1>2, WheelAssumption DEF Next1, Behind, Wslots
  <2>2. /\ tx_tsc[s] = tx_tsc[cur_wslot] + Width * Behind(s)
        /\ tx_tsc[Next1(s)] = tx_tsc[cur_wslot] + Width * (Behind(s) + 1)
    BY <1>1, <2>1 DEF Turning
  <2>3. Width * (Behind(s) + 1) = Width * Behind(s) + Width /\ Width * Behind(s) \in Nat
    BY <1>1, <2>1, TimesWidth
  <2>4. tx_tsc[cur_wslot] \in Nat
    BY <1>1 DEF WheelTypes
  <2> QED BY <1>1, <2>2, <2>3, <2>4
<1> QED BY <1>1, <1>2 DEF SlotsFollowInTime, Turning

\* The times of the slots follow each other around the ring, and the current one is at
\* most a width ahead of the time given to the wheel: what reap does turn by turn.
THEOREM SlotsFollow == Spec => []SlotsFollowInTime
BY WheelInvInit, WheelInvKept, InvSlotsFollow, PTL DEF Spec

(***************************************************************************)
(* How reap's loop ends, and how the process does.                         *)
(***************************************************************************)
\* the cycles the current slot is behind the time a call was given
ReapLeft == IF call # None /\ Reapable(call.ref) THEN call.ref + 1 - tx_tsc[cur_wslot] ELSE 0

\* A turn of reap's loop belongs to the same call, time and frequency as the one before
\* it and brings the loop nearer to its end.
ReapRunsDown == [][ReapTurn => call' = call /\ ReapLeft' < ReapLeft]_vars

\* Where the horizon fits the wheel, insert's assertion holds and no packet goes past
\* the last slot.
LostOnlyIfInexact == lost => ~Exact

LEMMA TurnRunsDown ==
  ASSUME WheelTypes, Turning, ReapTurn
  PROVE  call' = call /\ ReapLeft' < ReapLeft
<1> DEFINE x == tx_tsc[cur_wslot]
           y == tx_tsc'[cur_wslot']
           r == call.ref
<1>1. call' = call /\ call # None /\ x <= r
  BY DEF ReapTurn, Reapable
<1>2. x \in Nat /\ r \in Nat /\ Width \in Nat \ {0} /\ y = x + Width
  BY <1>1, CallShape, TurnFacts, WidthPositive DEF WheelTypes
<1>3. ReapLeft = r + 1 - x
  BY <1>1 DEF ReapLeft, Reapable
<1>4. ReapLeft' = IF y <= r THEN r + 1 - y ELSE 0
  BY <1>1 DEF ReapLeft, Reapable
<1> HIDE DEF x, y, r
<1>5. ReapLeft' < ReapLeft
  BY <1>1, <1>2, <1>3, <1>4
<1> QED BY <1>1, <1>5

LEMMA ReapLeftNat ==
  ASSUME WheelTypes
  PROVE  ReapLeft \in Nat
<1>1. CASE call # None /\ Reapable(call.ref)
  <2>1. call.ref \in Nat /\ tx_tsc[cur_wslot] \in Nat /\ tx_tsc[cur_wslot] <= call.ref
    BY <1>1, CallShape DEF WheelTypes, Reapable
  <2>2. ReapLeft = call.ref + 1 - tx_tsc[cur_wslot]
    BY <1>1 DEF ReapLeft
  <2> QED BY <2>1, <2>2
<1>2. CASE ~(call # None /\ Reapable(call.ref))
  BY <1>2 DEF ReapLeft
<1> QED BY <1>1, <1>2

\* reap's loop ends, and so does every call but a catchup that rdtsc keeps ahead of:
\* the width of a slot is never cut to nothing, whatever the frequency.
THEOREM ReapEnds == Spec => [](ReapLeft \in Nat) /\ ReapRunsDown
<1>1. WheelInv => ReapLeft \in Nat
  BY ReapLeftNat DEF WheelInv
<1>2. WheelInv /\ [Next]_vars => [ReapTurn => call' = call /\ ReapLeft' < ReapLeft]_vars
  BY TurnRunsDown DEF WheelInv
<1> QED BY WheelInvInit, WheelInvKept, <1>1, <1>2, PTL DEF Spec, ReapRunsDown

LEMMA ExactStays ==
  ASSUME [Next]_vars
  PROVE  Exact' = Exact
<1>1. freq' = freq
  BY DEF Next, vars, CallReap, CallInsert, CallCatchup, Call, ReapTurn, ReapReturns, CatchupTurn, Insert
<1>2. Width' = Width /\ Horizon' = Horizon
  BY <1>1 DEF Width, Horizon, Cycles
<1> QED BY <1>2 DEF Exact

\* The process ends in insert's assertion, or writes past the wheel without it, only
\* where cutting the width to whole cycles made the horizon too wide for the wheel: an
\* exact width keeps the delta of every admissible packet below the number of slots.
THEOREM ExactWheelIsSound == Spec => []LostOnlyIfInexact
<1>1. Init => LostOnlyIfInexact
  BY DEF Init, LostOnlyIfInexact
<1>2. ASSUME WheelInv, LostOnlyIfInexact, [Next]_vars
      PROVE  LostOnlyIfInexact'
  <2>1. Exact' = Exact
    BY <1>2, ExactStays
  <2>2. CASE Insert
    <3> DEFINE d == call.desired
    <3>1. d \in Nat /\ ~Reapable(last) /\ d \in last .. last + Horizon
      BY <1>2, <2>2, CallShape DEF Insert, Turning, WheelInv
    <3>2. lost' = (Delta(d) >= NumWslots /\ (Asserts \/ Dst(d) >= NumWslots))
      BY <2>2, Zenon DEF Insert, Dst
    <3>3. Delta(d) >= NumWslots => ~Exact
      BY <1>2, <3>1, DeltaIn DEF WheelInv
    <3> QED BY <2>1, <3>2, <3>3, Zenon DEF LostOnlyIfInexact
  <2>3. CASE ~Insert
    <3>1. lost' = lost
      BY <1>2, <2>3 DEF Next, vars, CallReap, CallInsert, CallCatchup, Call, ReapTurn, ReapReturns,
                        CatchupTurn
    <3> QED BY <1>2, <2>1, <3>1 DEF LostOnlyIfInexact
  <2> QED BY <2>2, <2>3
<1> QED BY WheelInvInit, WheelInvKept, <1>1, <1>2, PTL DEF Spec

(***************************************************************************)
(* The rate estimators.                                                    *)
(***************************************************************************)
\* The types of the estimators' variables.
RateTypes ==
  /\ code \in {"erpc", "redux"} /\ link \in Links
  /\ rate \in Nat /\ prevRtt \in Nat /\ avgDiff \in Int /\ since \in Nat
  /\ sample \in [rtt : Nat, counted : BOOLEAN]

\* The inductive invariant of the rates: eRPC's stays within the link, or at the smallest
\* rate on a slower one.
RateInv ==
  /\ RateTypes
  /\ code = "erpc" => rate <= Max2(link, kMinRate)

LEMMA MinMax2 ==
  ASSUME NEW a \in Int, NEW b \in Int
  PROVE  /\ Min2(a, b) = IF a <= b THEN a ELSE b
         /\ Max2(a, b) = IF a <= b THEN b ELSE a
<1>1. Min2(a, b) = IF a <= b THEN a ELSE b
  <2> DEFINE m == IF a <= b THEN a ELSE b
  <2>1. m \in {a, b} /\ \A y \in {a, b} : m <= y
    OBVIOUS
  <2>2. \A x \in {a, b} : (\A y \in {a, b} : x <= y) => x = m
    OBVIOUS
  <2> HIDE DEF m
  <2>3. (CHOOSE x \in {a, b} : \A y \in {a, b} : x <= y) = m
    BY <2>1, <2>2
  <2> QED BY <2>3 DEF Min2, Min, m
<1>2. Max2(a, b) = IF a <= b THEN b ELSE a
  <2> DEFINE m == IF a <= b THEN b ELSE a
  <2>1. m \in {a, b} /\ \A y \in {a, b} : m >= y
    OBVIOUS
  <2>2. \A x \in {a, b} : (\A y \in {a, b} : x >= y) => x = m
    OBVIOUS
  <2> HIDE DEF m
  <2>3. (CHOOSE x \in {a, b} : \A y \in {a, b} : x >= y) = m
    BY <2>1, <2>2
  <2> QED BY <2>3 DEF Max2, Max, m
<1> QED BY <1>1, <1>2

\* Whole quotients of whole numbers, and what is kept of a sign.
LEMMA Quotient ==
  ASSUME NEW a \in Int, NEW n \in Nat \ {0}
  PROVE  /\ a \div n \in Int
         /\ a >= 0 => a \div n >= 0
BY SMTT(60)

LEMMA Product ==
  ASSUME NEW a \in Int, NEW b \in Int
  PROVE  /\ a * b \in Int
         /\ a >= 0 /\ b >= 0 => a * b >= 0
BY SMTT(60)

LEMMA ScaledIs ==
  ASSUME NEW x \in Int, NEW d \in Int, NEW f \in Int
  PROVE  /\ Scaled(x, d, f) \in Int
         /\ x >= 0 /\ d >= 0 /\ f >= 0 => Scaled(x, d, f) >= 0
<1>1. /\ x * d \in Int /\ (x * d) * f \in Int
      /\ x >= 0 /\ d >= 0 /\ f >= 0 => (x * d) * f >= 0
  BY Product
<1>2. 10000 \in Nat \ {0}
  OBVIOUS
<1> QED BY <1>1, <1>2, Quotient DEF Scaled

LEMMA DecreasedIs ==
  ASSUME rate \in Nat, NEW b \in Nat, NEW d \in Nat, NEW high \in Nat, NEW rtt \in Nat, rtt > high
  PROVE  Decreased(b, d, high, rtt) \in Int /\ Decreased(b, d, high, rtt) <= rate
<1>1. rtt \in Nat \ {0} /\ rtt - high \in Int /\ rtt - high >= 0
  OBVIOUS
<1>2. Scaled(rate, d, b) \in Int /\ Scaled(rate, d, b) >= 0
  BY ScaledIs
<1>3. Scaled(rate, d, b) * (rtt - high) \in Int /\ Scaled(rate, d, b) * (rtt - high) >= 0
  BY <1>1, <1>2, Product
<1>4. /\ (Scaled(rate, d, b) * (rtt - high)) \div rtt \in Int
      /\ (Scaled(rate, d, b) * (rtt - high)) \div rtt >= 0
  BY <1>1, <1>3, Quotient
<1> QED BY <1>4 DEF Decreased

LEMMA WeightIs ==
  ASSUME NEW g \in Int PROVE Weight(g) \in Int
<1>1. 2 * g + 50 \in Int /\ 100 \in Int /\ 0 \in Int
  OBVIOUS
<1>2. Min2(100, 2 * g + 50) \in Int
  BY <1>1, MinMax2
<1> QED BY <1>1, <1>2, MinMax2 DEF Weight

LEMMA SmoothedIs ==
  ASSUME RateTypes, NEW alpha \in Nat, NEW rtt \in Nat
  PROVE  Smoothed(alpha, rtt) \in Int
<1>1. (100 - alpha) * avgDiff \in Int /\ alpha * 100 \in Int /\ (alpha * 100) * (rtt - prevRtt) \in Int
  BY Product DEF RateTypes
<1>2. 100 \in Nat \ {0}
  OBVIOUS
<1> QED BY <1>1, <1>2, Quotient DEF Smoothed

LEMMA ByGradientIs ==
  ASSUME rate \in Nat, NEW b \in Int, NEW add \in Int, NEW d \in Int, NEW w \in Int, NEW e \in Int
  PROVE  ByGradient(b, add, d, w, e) \in Int
<1>1. 100 \in Nat \ {0} /\ 100 - w \in Int
  OBVIOUS
<1>2. Scaled(rate, d, b) \in Int /\ Scaled(add, d, 100 - w) \in Int
  BY <1>1, ScaledIs
<1>3. (Scaled(rate, d, b) * w) \div 100 \in Int
  BY <1>1, <1>2, Product, Quotient
<1>4. (((Scaled(rate, d, b) * w) \div 100) * e) \div 100 \in Int
  BY <1>1, <1>3, Product, Quotient
<1> QED BY <1>2, <1>4 DEF ByGradient

\* What eRPC's rate is before its bounds, by the sample.
LEMMA ErpcRateIs ==
  ASSUME RateTypes, NEW rtt \in Nat \ {0}, NEW d \in Nat
  PROVE  /\ ErpcRate(rtt, d) \in Int
         /\ rtt < kTLow => ErpcRate(rtt, d) >= rate
         /\ rtt > kTHigh => ErpcRate(rtt, d) <= rate
<1> USE DEF kTLow, kTHigh, kBeta, kAddRate, kMinRTT, kEwmaAlpha
<1>1. CASE rtt < kTLow
  <2>1. ErpcRate(rtt, d) = rate + Scaled(kAddRate, d, 100)
    BY <1>1 DEF ErpcRate
  <2>2. Scaled(kAddRate, d, 100) \in Int /\ Scaled(kAddRate, d, 100) >= 0
    BY ScaledIs
  <2> QED BY <1>1, <2>1, <2>2 DEF RateTypes
<1>2. CASE rtt > kTHigh
  <2>1. ErpcRate(rtt, d) = Decreased(kBeta, d, kTHigh, rtt)
    BY <1>2 DEF ErpcRate
  <2> QED BY <1>2, <2>1, DecreasedIs DEF RateTypes
<1>3. CASE ~(rtt < kTLow) /\ ~(rtt > kTHigh)
  <2> DEFINE w == Weight(Smoothed(kEwmaAlpha, rtt) \div kMinRTT)
             e == ((rtt - kTLow) * 100) \div kTLow
  <2>1. Smoothed(kEwmaAlpha, rtt) \in Int
    BY SmoothedIs
  <2>2. Smoothed(kEwmaAlpha, rtt) \div kMinRTT \in Int
    BY <2>1, Quotient
  <2>3. w \in Int /\ e \in Int
    BY <2>2, WeightIs, Quotient
  <2>4. ErpcRate(rtt, d) = ByGradient(kBeta, kAddRate, d, w, e)
    BY <1>3 DEF ErpcRate
  <2> HIDE DEF w, e
  <2>5. ByGradient(kBeta, kAddRate, d, w, e) \in Int
    BY <2>3, ByGradientIs DEF RateTypes
  <2> QED BY <1>3, <2>4, <2>5
<1> QED BY <1>1, <1>2, <1>3

LEMMA ReduxRateIs ==
  ASSUME RateTypes, NEW rtt \in Nat \ {0}, NEW d \in Nat
  PROVE  ReduxRate(rtt, d) \in Int
<1> USE DEF d_alpha, d_beta, d_delta, d_minRttUs, d_maxRttUs, d_minSampleUs
<1>1. CASE rtt < d_minRttUs
  <2>1. ReduxRate(rtt, d) = rate + Scaled(d_delta, d, 100)
    BY <1>1 DEF ReduxRate
  <2>2. Scaled(d_delta, d, 100) \in Int
    BY ScaledIs
  <2> QED BY <2>1, <2>2 DEF RateTypes
<1>2. CASE rtt > d_maxRttUs
  <2>1. ReduxRate(rtt, d) = Decreased(d_beta, d, d_maxRttUs, rtt)
    BY <1>2 DEF ReduxRate
  <2> QED BY <1>2, <2>1, DecreasedIs DEF RateTypes
<1>3. CASE ~(rtt < d_minRttUs) /\ ~(rtt > d_maxRttUs)
  <2> DEFINE w == Weight(Smoothed(d_alpha, rtt) \div d_minSampleUs)
             e == ((rtt - d_minRttUs) * 100) \div d_minRttUs
  <2>1. Smoothed(d_alpha, rtt) \in Int
    BY SmoothedIs
  <2>2. Smoothed(d_alpha, rtt) \div d_minSampleUs \in Int
    BY <2>1, Quotient
  <2>3. w \in Int /\ e \in Int
    BY <2>2, WeightIs, Quotient
  <2>4. ReduxRate(rtt, d) = ByGradient(d_beta, d_delta, d, w, e)
    BY <1>3 DEF ReduxRate
  <2> HIDE DEF w, e
  <2>5. ByGradient(d_beta, d_delta, d, w, e) \in Int
    BY <2>3, ByGradientIs DEF RateTypes
  <2> QED BY <2>4, <2>5
<1> QED BY <1>1, <1>2, <1>3

\* The bounds of eRPC's rate.
LEMMA ErpcBoundedIs ==
  ASSUME RateTypes, rate <= Max2(link, kMinRate), NEW new \in Int
  PROVE  /\ ErpcBounded(new) \in Nat
         /\ ErpcBounded(new) <= Max2(link, kMinRate)
         /\ 2 * ErpcBounded(new) >= rate - 1
         /\ new >= rate => ErpcBounded(new) >= rate
         /\ new <= rate => ErpcBounded(new) <= Max2(rate, kMinRate)
<1> USE DEF kMinRate
<1>1. rate \in Nat /\ link \in Nat /\ kMinRate \in Nat
  BY RateAssumption DEF RateTypes
<1>2. rate \div 2 \in Nat /\ rate \div 2 <= rate /\ 2 * (rate \div 2) >= rate - 1
  BY <1>1, SMTT(60)
<1> DEFINE h == rate \div 2
           x == IF new <= h THEN h ELSE new
           y == IF link <= x THEN link ELSE x
<1>3. Max2(new, h) = x /\ x \in Int
  BY <1>1, <1>2, MinMax2
<1>4. Min2(link, x) = y /\ y \in Int
  BY <1>1, <1>3, MinMax2
<1>5. Max2(kMinRate, y) = IF kMinRate <= y THEN y ELSE kMinRate
  BY <1>1, <1>4, MinMax2
<1>6. ErpcBounded(new) = IF kMinRate <= y THEN y ELSE kMinRate
  <2> HIDE DEF h
  <2> QED BY <1>3, <1>4, <1>5 DEF ErpcBounded, h
<1>7. /\ Max2(link, kMinRate) = IF link <= kMinRate THEN kMinRate ELSE link
      /\ Max2(rate, kMinRate) = IF rate <= kMinRate THEN kMinRate ELSE rate
  BY <1>1, MinMax2
<1> HIDE DEF h
<1>8. h \in Nat /\ h <= rate /\ 2 * h >= rate - 1
  BY <1>2 DEF h
<1> QED BY <1>1, <1>6, <1>7, <1>8

LEMMA RateStart ==
  ASSUME RateInit PROVE RateInv
<1>1. /\ link \in Links /\ link \in Nat \ {0} /\ avgDiff = 0 /\ since = 0
      /\ sample = [rtt |-> 0, counted |-> FALSE]
  BY RateAssumption DEF RateInit
<1>2. sample \in [rtt : Nat, counted : BOOLEAN] /\ sample.counted = FALSE
  BY <1>1
<1>3. CASE code = "erpc"
  <2>1. rate = link /\ prevRtt = kMinRTT
    BY <1>3 DEF RateInit
  <2>2. rate <= Max2(link, kMinRate)
    <3>1. Max2(link, kMinRate) = IF link <= kMinRate THEN kMinRate ELSE link
      BY <1>1, MinMax2 DEF kMinRate
    <3> QED BY <1>1, <2>1, <3>1 DEF kMinRate
  <2> QED BY <1>1, <1>2, <1>3, <2>1, <2>2 DEF RateInv, RateTypes, kMinRTT
<1>4. CASE code = "redux"
  <2>1. prevRtt = 1 /\ \E n \in Sessions : rate = link \div (n + 1)
    BY <1>4 DEF RateInit, d_minSampleUs
  <2>2. PICK n \in Sessions : rate = link \div (n + 1)
    BY <2>1
  <2>3. n + 1 \in Nat \ {0}
    BY RateAssumption
  <2>4. rate \in Nat
    BY <1>1, <2>2, <2>3, Quotient
  <2> QED BY <1>1, <1>2, <1>4, <2>1, <2>4 DEF RateInv, RateTypes, d_minRttUs
<1> QED BY <1>3, <1>4 DEF RateInit

LEMMA ErpcStep ==
  ASSUME RateInv, NEW rtt \in Rtts, NEW gap \in Gaps, UpdateRate(rtt, gap), UNCHANGED <<code, link>>
  PROVE  /\ RateInv' /\ code = "erpc" /\ sample'.rtt = rtt
         /\ rate' <= Max2(link, kMinRate) /\ 2 * rate' >= rate - 1
         /\ rtt < kTLow => rate' >= rate
         /\ rtt > kTHigh => rate' <= Max2(rate, kMinRate)
         /\ ~sample'.counted => rate' = rate
<1> DEFINE elapsed == Min2(since + gap, kMinRTT)
           delta == (elapsed * 100) \div kMinRTT
           counts == rtt >= kMinRTT
           new == ErpcRate(rtt, delta)
<1>1. /\ code = "erpc" /\ code' = "erpc" /\ link' = link
      /\ sample' = [rtt |-> rtt, counted |-> counts]
      /\ IF counts THEN /\ rate' = ErpcBounded(new)
                        /\ avgDiff' = Smoothed(kEwmaAlpha, rtt)
                        /\ prevRtt' = rtt /\ since' = 0
         ELSE since' = elapsed /\ UNCHANGED <<rate, avgDiff, prevRtt>>
  BY DEF UpdateRate
<1>2. rtt \in Nat \ {0} /\ gap \in Nat /\ since \in Nat /\ RateTypes /\ rate <= Max2(link, kMinRate)
  BY <1>1, RateAssumption DEF RateInv, RateTypes
<1>3. elapsed \in Nat /\ elapsed * 100 \in Nat
  <2>1. elapsed = IF since + gap <= kMinRTT THEN since + gap ELSE kMinRTT
    BY <1>2, MinMax2 DEF kMinRTT
  <2> QED BY <1>2, <2>1 DEF kMinRTT
<1> HIDE DEF elapsed
<1>4. delta \in Nat
  BY <1>3, Quotient DEF kMinRTT
<1> HIDE DEF delta
<1>5. /\ new \in Int
      /\ rtt < kTLow => new >= rate
      /\ rtt > kTHigh => new <= rate
  BY <1>2, <1>4, ErpcRateIs
<1>6. Smoothed(kEwmaAlpha, rtt) \in Int
  BY <1>2, SmoothedIs DEF kEwmaAlpha
<1> HIDE DEF new
<1>7. rate \in Nat /\ link \in Nat \ {0}
  BY <1>2, RateAssumption DEF RateTypes
<1>8. /\ rate' \in Nat /\ rate' <= Max2(link, kMinRate) /\ 2 * rate' >= rate - 1
      /\ rtt < kTLow => rate' >= rate
      /\ rtt > kTHigh => rate' <= Max2(rate, kMinRate)
  <2>1. CASE counts
    <3>1. rate' = ErpcBounded(new)
      BY <1>1, <2>1
    <3> QED BY <1>2, <1>5, <3>1, ErpcBoundedIs
  <2>2. CASE ~counts
    <3>1. rate' = rate
      BY <1>1, <2>2
    <3>2. Max2(rate, kMinRate) = IF rate <= kMinRate THEN kMinRate ELSE rate
      BY <1>7, MinMax2 DEF kMinRate
    <3> QED BY <1>2, <1>7, <3>1, <3>2 DEF kMinRate
  <2> QED BY <2>1, <2>2
<1>9. avgDiff' \in Int /\ prevRtt' \in Nat /\ since' \in Nat
  <2>1. CASE counts
    BY <1>1, <1>2, <1>6, <2>1
  <2>2. CASE ~counts
    BY <1>1, <1>2, <1>3, <2>2 DEF RateTypes
  <2> QED BY <2>1, <2>2
<1>10. sample' \in [rtt : Nat, counted : BOOLEAN] /\ sample'.rtt = rtt /\ sample'.counted = counts
  BY <1>1, <1>2
<1>11. RateInv'
  <2>1. RateTypes'
    BY <1>1, <1>2, <1>8, <1>9, <1>10 DEF RateTypes
  <2>2. Max2(link, kMinRate)' = Max2(link, kMinRate)
    BY <1>1 DEF Max2, kMinRate
  <2> QED BY <1>1, <1>8, <2>1, <2>2 DEF RateInv
<1>12. ~counts => rate' = rate
  BY <1>1
<1> QED BY <1>1, <1>8, <1>10, <1>11, <1>12

LEMMA ReduxStep ==
  ASSUME RateInv, NEW rtt \in Rtts, NEW gap \in Gaps, Update(rtt, gap), UNCHANGED <<code, link>>
  PROVE  RateInv' /\ code = "redux"
<1> DEFINE elapsed == Min2(since + gap, d_minRttUs)
           delta == (elapsed * 100) \div d_minRttUs
           counts == elapsed > d_minSampleUs
           new == ReduxRate(rtt, delta)
<1>1. /\ code = "redux" /\ code' = "redux" /\ link' = link
      /\ sample' = [rtt |-> rtt, counted |-> counts]
      /\ IF counts THEN /\ rate' = ReduxBounded(new)
                        /\ avgDiff' = Smoothed(d_alpha, rtt)
                        /\ prevRtt' = rtt /\ since' = 0
         ELSE since' = elapsed /\ UNCHANGED <<rate, avgDiff, prevRtt>>
  BY DEF Update
<1>2. rtt \in Nat \ {0} /\ gap \in Nat /\ since \in Nat /\ RateTypes /\ link \in Nat \ {0}
  BY RateAssumption DEF RateInv, RateTypes
<1>3. elapsed \in 0 .. d_minRttUs /\ elapsed \in Nat /\ elapsed * 100 \in Nat
  <2>1. elapsed = IF since + gap <= d_minRttUs THEN since + gap ELSE d_minRttUs
    BY <1>2, MinMax2 DEF d_minRttUs
  <2> QED BY <1>2, <2>1 DEF d_minRttUs
<1> HIDE DEF elapsed
<1>4. delta \in Nat
  BY <1>3, Quotient DEF d_minRttUs
<1> HIDE DEF delta
<1>5. new \in Int
  BY <1>2, <1>4, ReduxRateIs
<1>6. Smoothed(d_alpha, rtt) \in Int
  BY <1>2, SmoothedIs DEF d_alpha
<1> HIDE DEF new
<1>7. ReduxBounded(new) \in Nat
  <2>1. Min2(new, link) = IF new <= link THEN new ELSE link
    BY <1>2, <1>5, MinMax2
  <2>2. Min2(new, link) \in Int
    BY <1>2, <1>5, <2>1
  <2>3. Max2(link, Min2(new, link)) = IF link <= Min2(new, link) THEN Min2(new, link) ELSE link
    BY <1>2, <2>2, MinMax2
  <2> QED BY <1>2, <1>5, <2>1, <2>3 DEF ReduxBounded
<1>8. sample' \in [rtt : Nat, counted : BOOLEAN] /\ sample'.counted = counts
  BY <1>1, <1>2
<1>9. rate' \in Nat /\ avgDiff' \in Int /\ prevRtt' \in Nat /\ since' \in Nat
  <2>1. CASE counts
    BY <1>1, <1>2, <1>6, <1>7, <2>1
  <2>2. CASE ~counts
    BY <1>1, <1>2, <1>3, <2>2 DEF RateTypes
  <2> QED BY <2>1, <2>2
<1> QED BY <1>1, <1>2, <1>8, <1>9 DEF RateInv, RateTypes

LEMMA RateStep ==
  ASSUME RateInv, [RateNext]_rateVars PROVE RateInv'
<1>1. CASE RateNext
  <2>1. PICK rtt \in Rtts, gap \in Gaps : UpdateRate(rtt, gap) \/ Update(rtt, gap)
    BY <1>1 DEF RateNext
  <2>2. UNCHANGED <<code, link>>
    BY <1>1 DEF RateNext
  <2> QED BY <2>1, <2>2, ErpcStep, ReduxStep
<1>2. CASE UNCHANGED rateVars
  BY <1>2 DEF rateVars, RateInv, RateTypes, Max2, kMinRate
<1> QED BY <1>1, <1>2

\* eRPC's update_rate moves the rate the way the sample asks, within the link, and
\* never below half of it, whatever the gradient term comes to.
THEOREM RateFollowsSamples == RateSpec => ErpcRateReacts
<1> DEFINE Reacts == code = "erpc" =>
                       /\ rate' <= Max2(link, kMinRate)
                       /\ 2 * rate' >= rate - 1
                       /\ sample'.rtt < kTLow => rate' >= rate
                       /\ sample'.rtt > kTHigh => rate' <= Max2(rate, kMinRate)
                       /\ ~sample'.counted => rate' = rate
<1>1. RateInv /\ [RateNext]_rateVars => [Reacts]_rateVars
  <2> SUFFICES ASSUME RateInv, RateNext PROVE Reacts
    OBVIOUS
  <2>1. PICK rtt \in Rtts, gap \in Gaps : UpdateRate(rtt, gap) \/ Update(rtt, gap)
    BY DEF RateNext
  <2>2. UNCHANGED <<code, link>>
    BY DEF RateNext
  <2>3. CASE UpdateRate(rtt, gap)
    BY <2>2, <2>3, ErpcStep
  <2>4. CASE Update(rtt, gap)
    BY <2>2, <2>4, ReduxStep
  <2> QED BY <2>1, <2>3, <2>4
<1>2. RateSpec => []RateInv
  BY RateStart, RateStep, PTL DEF RateSpec
<1> HIDE DEF Reacts
<1>3. RateSpec => [][Reacts]_rateVars
  BY <1>1, <1>2, PTL DEF RateSpec
<1> QED BY <1>3, PTL DEF ErpcRateReacts, Reacts
=============================================================================
