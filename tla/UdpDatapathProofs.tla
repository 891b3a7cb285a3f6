------------------------- MODULE UdpDatapathProofs --------------------------
(***************************************************************************)
(* Proofs about UdpDatapath: types, one owner for each mbuf, that the      *)
(* programs implement MbufOwnership, the order of a client's packets, who  *)
(* writes where in ts, that a large enough pool never runs empty, that an  *)
(* lcore's remaining steps run out after a signal, and that none stands.   *)
(***************************************************************************)
EXTENDS UdpDatapath, FiniteSetTheorems, SequenceTheorems, TLAPS

(***************************************************************************)
(* Sequences without repetition.                                           *)
(***************************************************************************)
Distinct(s) == \A i, j \in DOMAIN s : s[i] = s[j] => i = j

LEMMA TailOf ==
  ASSUME NEW S, NEW s \in Seq(S), s # <<>>
  PROVE  /\ Head(s) \in S /\ Head(s) \in Ran(s) /\ Tail(s) \in Seq(S)
         /\ Ran(s) = Ran(Tail(s)) \union {Head(s)}
         /\ Distinct(s) => Distinct(Tail(s)) /\ Head(s) \notin Ran(Tail(s))
<1>1. /\ Len(s) \in Nat \ {0} /\ DOMAIN s = 1 .. Len(s) /\ Head(s) = s[1] /\ Head(s) \in S
      /\ Tail(s) \in Seq(S) /\ DOMAIN Tail(s) = 1 .. Len(s) - 1
      /\ \A i \in 1 .. Len(s) - 1 : Tail(s)[i] = s[i + 1]
  OBVIOUS
<1>2. Ran(s) = Ran(Tail(s)) \union {Head(s)}
  <2>1. ASSUME NEW x \in Ran(s) PROVE x \in Ran(Tail(s)) \union {Head(s)}
    <3>1. PICK i \in 1 .. Len(s) : x = s[i]
      BY <1>1, <2>1 DEF Ran
    <3>2. CASE i = 1
      BY <1>1, <3>1, <3>2
    <3>3. CASE i # 1
      <4>1. i - 1 \in 1 .. Len(s) - 1 /\ Tail(s)[i - 1] = s[i]
        BY <1>1, <3>3
      <4> QED BY <1>1, <3>1, <4>1 DEF Ran
    <3> QED BY <3>2, <3>3
  <2>2. ASSUME NEW x \in Ran(Tail(s)) \union {Head(s)} PROVE x \in Ran(s)
    <3>1. CASE x = Head(s)
      BY <1>1, <3>1 DEF Ran
    <3>2. CASE x \in Ran(Tail(s))
      <4>1. PICK i \in 1 .. Len(s) - 1 : x = Tail(s)[i]
        BY <1>1, <3>2 DEF Ran
      <4>2. i + 1 \in 1 .. Len(s) /\ x = s[i + 1]
        BY <1>1, <4>1
      <4> QED BY <1>1, <4>2 DEF Ran
    <3> QED BY <2>2, <3>1, <3>2
  <2> QED BY <2>1, <2>2
<1>3. ASSUME Distinct(s) PROVE Distinct(Tail(s)) /\ Head(s) \notin Ran(Tail(s))
  BY <1>1, <1>3 DEF Distinct, Ran
<1> QED BY <1>1, <1>2, <1>3 DEF Ran

LEMMA AppendTo ==
  ASSUME NEW S, NEW s \in Seq(S), NEW x \in S
  PROVE  /\ Append(s, x) \in Seq(S) /\ Ran(Append(s, x)) = Ran(s) \union {x}
         /\ Distinct(s) /\ x \notin Ran(s) => Distinct(Append(s, x))
<1>1. /\ Len(s) \in Nat /\ DOMAIN s = 1 .. Len(s) /\ Append(s, x) \in Seq(S)
      /\ DOMAIN Append(s, x) = 1 .. Len(s) + 1
      /\ \A i \in 1 .. Len(s) : Append(s, x)[i] = s[i]
      /\ Append(s, x)[Len(s) + 1] = x
  OBVIOUS
<1>2. \A i \in 1 .. Len(s) + 1 : i \in 1 .. Len(s) \/ i = Len(s) + 1
  BY <1>1
<1>3. \A i \in 1 .. Len(s) : i \in 1 .. Len(s) + 1
  BY <1>1
<1>4. Len(s) + 1 \in 1 .. Len(s) + 1
  BY <1>1
<1>5. Ran(Append(s, x)) = Ran(s) \union {x}
  BY <1>1, <1>2, <1>3, <1>4 DEF Ran
<1>6. ASSUME Distinct(s), x \notin Ran(s) PROVE Distinct(Append(s, x))
  BY <1>1, <1>2, <1>6 DEF Distinct, Ran
<1> QED BY <1>1, <1>5, <1>6

LEMMA AppendOne ==
  ASSUME NEW S, NEW s \in Seq(S), NEW t \in Seq(S), Len(t) = 1
  PROVE  s \o t = Append(s, Head(t)) /\ Head(t) \in S /\ Ran(t) = {Head(t)}
<1>1. DOMAIN t = 1 .. 1
  BY LenProperties
<1>2. t # <<>> /\ 1 \in DOMAIN t
  BY <1>1, EmptySeq
<1>3. Head(t) = t[1] /\ t[1] \in S
  BY <1>1, <1>2
<1>4. s \o t = Append(s, Head(t))
  <2>1. /\ s \o t \in Seq(S) /\ Len(s \o t) = Len(s) + 1
        /\ \A i \in 1 .. Len(s) + 1 : (s \o t)[i] = IF i <= Len(s) THEN s[i] ELSE t[i - Len(s)]
    <3>1. /\ s \o t \in Seq(S) /\ Len(s \o t) = Len(s) + Len(t)
          /\ \A i \in 1 .. Len(s) + Len(t) : (s \o t)[i] = IF i <= Len(s) THEN s[i] ELSE t[i - Len(s)]
      BY ConcatProperties, Zenon
    <3> QED BY <3>1
  <2>2. Len(s) \in Nat
    OBVIOUS
  <2>3. /\ Append(s, Head(t)) \in Seq(S) /\ Len(Append(s, Head(t))) = Len(s) + 1
        /\ \A i \in 1 .. Len(s) : Append(s, Head(t))[i] = s[i]
        /\ Append(s, Head(t))[Len(s) + 1] = t[1]
    BY <1>3
  <2>4. \A i \in 1 .. Len(s) + 1 : i \in 1 .. Len(s) \/ i = Len(s) + 1
    OBVIOUS
  <2>5. \A i \in 1 .. Len(s) + 1 : (s \o t)[i] = Append(s, Head(t))[i]
    BY <2>1, <2>2, <2>3, <2>4
  <2> QED BY <2>1, <2>3, <2>5, SeqEqual
<1> QED BY <1>1, <1>2, <1>3, <1>4 DEF Ran

\* the first n elements and the rest
LEMMA SplitAt ==
  ASSUME NEW S, NEW s \in Seq(S), NEW n \in 1 .. Len(s)
  PROVE  LET a == SubSeq(s, 1, n)
             b == SubSeq(s, n + 1, Len(s))
         IN /\ a \in Seq(S) /\ b \in Seq(S) /\ Len(a) = n
            /\ Ran(s) = Ran(a) \union Ran(b)
            /\ Distinct(s) => Distinct(a) /\ Distinct(b) /\ Ran(a) \cap Ran(b) = {}
            /\ IsFiniteSet(Ran(a)) /\ Cardinality(Ran(a)) <= n
<1> DEFINE a == SubSeq(s, 1, n)
           b == SubSeq(s, n + 1, Len(s))
<1>0. n \in Nat /\ Len(s) \in Nat /\ DOMAIN s = 1 .. Len(s) /\ 1 <= n /\ n <= Len(s)
  OBVIOUS
<1>1. a \in Seq(S) /\ Len(a) = n /\ DOMAIN a = 1 .. n /\ \A i \in 1 .. n : a[i] = s[i]
  BY <1>0
<1>2. b \in Seq(S) /\ DOMAIN b = 1 .. Len(s) - n /\ \A i \in 1 .. Len(s) - n : b[i] = s[n + i]
  BY <1>0
<1> HIDE DEF a, b
<1>3. Ran(s) = Ran(a) \union Ran(b)
  <2>1. ASSUME NEW i \in 1 .. Len(s) PROVE s[i] \in Ran(a) \union Ran(b)
    <3>1. CASE i <= n
      BY <1>0, <1>1, <3>1 DEF Ran
    <3>2. CASE i > n
      <4>1. i - n \in 1 .. Len(s) - n /\ n + (i - n) = i
        BY <1>0, <3>2
      <4>2. b[i - n] = s[i]
        BY <1>2, <4>1
      <4> QED BY <1>2, <4>1, <4>2 DEF Ran
    <3> QED BY <1>0, <3>1, <3>2
  <2>2. ASSUME NEW i \in 1 .. n PROVE a[i] \in Ran(s)
    BY <1>0, <1>1 DEF Ran
  <2>3. ASSUME NEW i \in 1 .. Len(s) - n PROVE b[i] \in Ran(s)
    <3>1. n + i \in 1 .. Len(s)
      BY <1>0
    <3> QED BY <1>0, <1>2, <3>1 DEF Ran
  <2>4. ASSUME NEW x \in Ran(s) PROVE x \in Ran(a) \union Ran(b)
    BY <1>0, <2>1, <2>4 DEF Ran
  <2>5. ASSUME NEW x \in Ran(a) PROVE x \in Ran(s)
    BY <1>1, <2>2, <2>5 DEF Ran
  <2>6. ASSUME NEW x \in Ran(b) PROVE x \in Ran(s)
    BY <1>2, <2>3, <2>6 DEF Ran
  <2> QED BY <2>4, <2>5, <2>6
<1>4. ASSUME Distinct(s) PROVE Distinct(a) /\ Distinct(b) /\ Ran(a) \cap Ran(b) = {}
  <2>1. Distinct(a)
    BY <1>0, <1>1, <1>4 DEF Distinct
  <2>2. Distinct(b)
    <3>1. SUFFICES ASSUME NEW i \in 1 .. Len(s) - n, NEW j \in 1 .. Len(s) - n, b[i] = b[j]
                   PROVE  i = j
      BY <1>2 DEF Distinct
    <3>2. n + i \in 1 .. Len(s) /\ n + j \in 1 .. Len(s)
      BY <1>0
    <3>3. s[n + i] = s[n + j]
      BY <1>2, <3>1
    <3>4. n + i = n + j
      BY <1>0, <1>4, <3>2, <3>3 DEF Distinct
    <3> QED BY <1>0, <3>4
  <2>3. ASSUME NEW i \in 1 .. n, NEW j \in 1 .. Len(s) - n, a[i] = b[j] PROVE FALSE
    <3>1. i \in 1 .. Len(s) /\ n + j \in 1 .. Len(s) /\ i # n + j
      BY <1>0
    <3>2. s[i] = s[n + j]
      BY <1>1, <1>2, <2>3
    <3> QED BY <1>0, <1>4, <3>1, <3>2 DEF Distinct
  <2> QED BY <1>1, <1>2, <2>1, <2>2, <2>3 DEF Ran
<1>5. IsFiniteSet(Ran(a)) /\ Cardinality(Ran(a)) <= n
  <2>1. IsFiniteSet(1 .. n) /\ Cardinality(1 .. n) = n
    BY <1>0, FS_Interval
  <2>2. Ran(a) = {a[i] : i \in 1 .. n}
    BY <1>1 DEF Ran
  <2>3. a \in Surjection(1 .. n, Ran(a))
    BY <1>1, <2>2 DEF Surjection
  <2> QED BY <2>1, <2>3, FS_Surjection
<1> QED BY <1>1, <1>2, <1>3, <1>4, <1>5 DEF a, b

(***************************************************************************)
(* The invariant.                                                          *)
(***************************************************************************)

\* what an lcore does fits its queue and what it holds, and main() waits for all
Roles ==
  /\ \A l \in Lcores :
       /\ step[l] \in {"send", "burst"} => l \in config.tx
       /\ step[l] \in {"listen", "free"} => l \in Rx
       /\ step[l] = "burst" => Len(held[l]) = 1
       /\ step[l] = "free" => held[l] # <<>>
       /\ step[l] \in {"entry", "send", "listen", "done"} => held[l] = <<>>
       /\ l \in config.tx => posted[l] = {}
  /\ main # "wait" => \A l \in Lcores : step[l] = "done"
  /\ main = "stopped" => \A l \in Lcores : posted[l] = {} /\ ring[l] = <<>>

\* the mbufs of an lcore and of the ring of its queue
Has(l) == Ran(held[l]) \union posted[l] \union Ran(ring[l])

Apart(l) ==
  /\ Distinct(held[l]) /\ Distinct(ring[l])
  /\ Ran(held[l]) \cap posted[l] = {} /\ Ran(held[l]) \cap Ran(ring[l]) = {}
  /\ posted[l] \cap Ran(ring[l]) = {}

\* each mbuf is in one place, and there once
OneOwner ==
  /\ \A l \in Lcores : Apart(l) /\ Has(l) \cap free = {}
  /\ \A k, l \in Lcores : k # l => Has(k) \cap Has(l) = {}

IInv == TypeOK /\ Roles /\ OneOwner

LEMMA ConfigKept ==
  ASSUME config' = config
  PROVE  Mbuf' = Mbuf /\ Rx' = Rx
BY DEF Mbuf, Pools, Pool, Rx

\* a step of one lcore, or of the NIC on its queue
Alone(l) ==
  \A k \in Lcores : k # l => held'[k] = held[k] /\ posted'[k] = posted[k] /\ ring'[k] = ring[k]

\* What such a step has to leave behind.
LEMMA OwnersKept ==
  ASSUME OneOwner, NEW l \in Lcores, Alone(l), Apart(l)', Has(l)' \cap free' = {},
         Has(l)' \union free' \subseteq Has(l) \union free
  PROVE  OneOwner'
<1>1. \A k \in Lcores : k # l => Has(k)' = Has(k) /\ Apart(k)' = Apart(k)
  BY DEF Alone, Has, Apart
<1>2. ASSUME NEW k \in Lcores, k # l PROVE Has(k) \cap free' = {} /\ Has(k) \cap Has(l)' = {}
  <2>1. Has(k) \cap (Has(l) \union free) = {}
    BY <1>2 DEF OneOwner
  <2> QED BY <2>1
<1>3. \A k \in Lcores : Apart(k)' /\ Has(k)' \cap free' = {}
  BY <1>1, <1>2 DEF OneOwner
<1>4. \A j, k \in Lcores : j # k => Has(j)' \cap Has(k)' = {}
  <2> SUFFICES ASSUME NEW j \in Lcores, NEW k \in Lcores, j # k
               PROVE  Has(j)' \cap Has(k)' = {}
    OBVIOUS
  <2>1. CASE j = l
    BY <1>1, <1>2, <2>1
  <2>2. CASE k = l
    BY <1>1, <1>2, <2>2
  <2>3. CASE j # l /\ k # l
    BY <1>1, <2>3 DEF OneOwner
  <2> QED BY <2>1, <2>2, <2>3
<1> QED BY <1>3, <1>4 DEF OneOwner

LEMMA Places ==
  ASSUME TypeOK, NEW l \in Lcores
  PROVE  /\ held[l] \in Seq(Mbuf) /\ ring[l] \in Seq(Mbuf) /\ posted[l] \subseteq Mbuf
         /\ count[l] \in Nat /\ sequence[l] \in Nat /\ sent[l] \in Seq(Nat)
BY DEF TypeOK

LEMMA Picked ==
  ASSUME TypeOK, NEW l \in Lcores, CanAlloc(l)
  PROVE  Pick(l) \in free /\ Pick(l) \in Mbuf
BY DEF CanAlloc, Pick, TypeOK

LEMMA EmptyRan == Ran(<<>>) = {} /\ Distinct(<<>>)
BY DEF Ran, Distinct

\* the prover takes the operator of the instance for one of its own
LEMMA SameCardinality == \A S : Ownership!Cardinality(S) = Cardinality(S)
BY Zenon DEF Ownership!Cardinality, Cardinality

LEMMA SingleRan == \A x : Ran(<<x>>) = {x} /\ Distinct(<<x>>)
BY DEF Ran, Distinct

(***************************************************************************)
(* The steps, one by one.                                                  *)
(***************************************************************************)
AbsLcore == [l \in Lcores |-> Ran(held[l])]
AbsNic == [l \in Lcores |-> posted[l] \union Ran(ring[l])]

\* the abstract specification sees nothing
Stutters ==
  /\ config' = config /\ free' = free /\ AbsLcore' = AbsLcore /\ AbsNic' = AbsNic
  /\ (main' = "stopped" <=> main = "stopped")

LEMMA StuttersIs ==
  ASSUME Stutters
  PROVE  UNCHANGED Ownership!vars
BY DEF Stutters, Ownership!vars, AbsLcore, AbsNic

\* steps that move no mbuf
LEMMA NothingMoves ==
  ASSUME IInv, config' = config, UNCHANGED <<held, posted, ring, free>>
  PROVE  /\ OneOwner' /\ AbsLcore' = AbsLcore /\ AbsNic' = AbsNic
BY DEF IInv, OneOwner, Apart, Has, AbsLcore, AbsNic

LEMMA TurnSteps ==
  ASSUME IInv, NEW l \in Lcores,
         Enter(l) \/ EnterRouted(l) \/ ClientReturns(l) \/ ServerReturns(l)
  PROVE  IInv' /\ Stutters
<1>1. /\ config' = config /\ UNCHANGED <<held, posted, ring, free>>
      /\ UNCHANGED <<count, sequence, payload, ts, sent, terminate, main>>
      /\ step[l] \in {"entry", "send", "listen"}
      /\ \E s \in {"listen", "send", "done"} :
           /\ step' = [step EXCEPT ![l] = s]
           /\ s = "listen" => l \in Rx
           /\ s = "send" => l \in config.tx
  BY DEF IInv, TypeOK, Enter, EnterRouted, ClientReturns, ServerReturns, Goto, nicVars, Rx
<1>2. Mbuf' = Mbuf /\ Rx' = Rx
  BY <1>1, ConfigKept
<1>3. TypeOK'
  BY <1>1, <1>2 DEF IInv, TypeOK
<1>4. Roles'
  BY <1>1, <1>2 DEF IInv, TypeOK, Roles
<1> QED BY <1>1, <1>3, <1>4, NothingMoves DEF IInv, Stutters

LEMMA FillStep ==
  ASSUME IInv, NEW l \in Lcores, Fill(l)
  PROVE  IInv' /\ Ownership!Next
<1> DEFINE m == Pick(l)
<1>1. /\ config' = config /\ UNCHANGED <<count, posted, ring, sent, terminate, main>>
      /\ step[l] = "send" /\ step' = [step EXCEPT ![l] = "burst"]
      /\ free' = free \ {m} /\ held' = [held EXCEPT ![l] = <<m>>]
      /\ ts' = [ts EXCEPT ![TsIndex(l)] = @ \union {l}]
      /\ sequence' = [sequence EXCEPT ![l] = @ + 1]
      /\ payload' = [payload EXCEPT ![m] = Number(l)]
  BY DEF Fill, Goto, nicVars
<1>2. m \in free /\ m \in Mbuf
  BY Picked DEF IInv, Fill
<1>3. Mbuf' = Mbuf /\ Rx' = Rx
  BY <1>1, ConfigKept
<1>4. held[l] = <<>> /\ l \in config.tx /\ posted[l] = {} /\ main = "wait"
  BY <1>1 DEF IInv, Roles, TypeOK
<1> HIDE DEF m
<1>5. held' \in [Lcores -> Seq(Mbuf)] /\ held'[l] = <<m>> /\ Len(held'[l]) = 1
  <2>1. <<m>> \in Seq(Mbuf) /\ Len(<<m>>) = 1
    BY <1>2
  <2> QED BY <1>1, <2>1 DEF IInv, TypeOK
<1>6. TypeOK'
  <2>1. Number(l) \in Nat /\ sequence' \in [Lcores -> Nat]
    BY <1>1 DEF IInv, TypeOK, Number
  <2>2. payload' \in [Mbuf -> Nat]
    BY <1>1, <2>1 DEF IInv, TypeOK
  <2>3. ts' \in [0 .. config.packets -> SUBSET Lcores]
    BY <1>1 DEF IInv, TypeOK
  <2>4. step' \in [Lcores -> {"entry", "send", "burst", "listen", "free", "done"}]
    BY <1>1 DEF IInv, TypeOK
  <2>5. free' \subseteq Mbuf
    BY <1>1 DEF IInv, TypeOK
  <2> QED BY <1>1, <1>3, <1>5, <2>1, <2>2, <2>3, <2>4, <2>5 DEF IInv, TypeOK
<1>7. Roles'
  BY <1>1, <1>3, <1>4, <1>5 DEF IInv, TypeOK, Roles
<1>8. Ran(held[l]) = {} /\ Ran(held'[l]) = {m} /\ Distinct(held'[l])
  BY <1>4, <1>5, EmptyRan, SingleRan
<1>9. Alone(l)
  BY <1>1 DEF Alone, IInv, TypeOK
<1>10. OneOwner'
  <2>1. Apart(l) /\ Has(l) \cap free = {}
    BY DEF IInv, OneOwner
  <2>2. Apart(l)'
    BY <1>1, <1>2, <1>8, <2>1 DEF Apart, Has
  <2>3. Has(l)' = Has(l) \union {m}
    BY <1>1, <1>8 DEF Has
  <2>4. Has(l)' \cap free' = {} /\ Has(l)' \union free' \subseteq Has(l) \union free
    BY <1>1, <1>2, <2>1, <2>3
  <2> QED BY <1>9, <2>2, <2>4, OwnersKept DEF IInv
<1>11. Ownership!Allocate(l)
  <2>1. AbsLcore' = [AbsLcore EXCEPT ![l] = @ \union {m}]
    BY <1>8, <1>9 DEF AbsLcore, Alone
  <2>2. AbsNic' = AbsNic
    BY <1>1 DEF AbsNic
  <2>3. AbsLcore[l] = {}
    BY <1>8 DEF AbsLcore
  <2> QED BY <1>1, <1>2, <1>4, <2>1, <2>2, <2>3
         DEF Ownership!Allocate, Ownership!With, AbsLcore, AbsNic
<1> QED BY <1>1, <1>4, <1>6, <1>7, <1>10, <1>11 DEF IInv, Ownership!Next

LEMMA TransmitStep ==
  ASSUME IInv, NEW l \in Lcores, Transmit(l)
  PROVE  IInv' /\ Ownership!Next
<1> DEFINE m == Head(held[l])
<1>1. /\ config' = config /\ UNCHANGED <<sequence, payload, ts, free, posted, sent, terminate, main>>
      /\ step[l] = "burst" /\ step' = [step EXCEPT ![l] = "send"]
      /\ ring' = [ring EXCEPT ![l] = @ \o held[l]] /\ held' = [held EXCEPT ![l] = <<>>]
      /\ count' = [count EXCEPT ![l] = @ + 1]
  BY DEF Transmit, Goto
<1>2. Mbuf' = Mbuf /\ Rx' = Rx
  BY <1>1, ConfigKept
<1>3. l \in config.tx /\ posted[l] = {} /\ main = "wait" /\ Len(held[l]) = 1
  BY <1>1 DEF IInv, Roles, TypeOK
<1>4. held[l] \in Seq(Mbuf) /\ ring[l] \in Seq(Mbuf)
  BY Places DEF IInv
<1>5. ring[l] \o held[l] = Append(ring[l], m) /\ m \in Mbuf /\ Ran(held[l]) = {m}
  BY <1>3, <1>4, AppendOne
<1> HIDE DEF m
<1>6. /\ Append(ring[l], m) \in Seq(Mbuf) /\ Ran(Append(ring[l], m)) = Ran(ring[l]) \union {m}
      /\ Distinct(ring[l]) /\ m \notin Ran(ring[l]) => Distinct(Append(ring[l], m))
  BY <1>4, <1>5, AppendTo
<1>7. ring' \in [Lcores -> Seq(Mbuf)] /\ ring'[l] = Append(ring[l], m)
  BY <1>1, <1>5, <1>6 DEF IInv, TypeOK
<1>8. held' \in [Lcores -> Seq(Mbuf)] /\ held'[l] = <<>> /\ Ran(held'[l]) = {} /\ Distinct(held'[l])
  BY <1>1, EmptyRan DEF IInv, TypeOK
<1>9. TypeOK'
  <2>1. count' \in [Lcores -> Nat]
    BY <1>1 DEF IInv, TypeOK
  <2>2. step' \in [Lcores -> {"entry", "send", "burst", "listen", "free", "done"}]
    BY <1>1 DEF IInv, TypeOK
  <2> QED BY <1>1, <1>2, <1>7, <1>8, <2>1, <2>2 DEF IInv, TypeOK
<1>10. Roles'
  BY <1>1, <1>2, <1>3, <1>8 DEF IInv, TypeOK, Roles
<1>11. Alone(l)
  BY <1>1 DEF Alone, IInv, TypeOK
<1>12. OneOwner'
  <2>1. Apart(l) /\ Has(l) \cap free = {}
    BY DEF IInv, OneOwner
  <2>2. Apart(l)'
    BY <1>1, <1>3, <1>5, <1>6, <1>7, <1>8, <2>1 DEF Apart
  <2>3. Has(l)' = Has(l)
    BY <1>1, <1>5, <1>6, <1>7, <1>8 DEF Has
  <2> QED BY <1>1, <1>11, <2>1, <2>2, <2>3, OwnersKept DEF IInv
<1>13. Ownership!Transmit(l)
  <2>1. AbsLcore' = [AbsLcore EXCEPT ![l] = @ \ {m}]
    BY <1>5, <1>8, <1>11 DEF AbsLcore, Alone
  <2>2. AbsNic' = [AbsNic EXCEPT ![l] = @ \union {m}]
    BY <1>1, <1>6, <1>7, <1>11 DEF AbsNic, Alone
  <2>3. m \in AbsLcore[l]
    BY <1>5 DEF AbsLcore
  <2> QED BY <1>1, <1>3, <2>1, <2>2, <2>3
         DEF Ownership!Transmit, Ownership!With, Ownership!Without, AbsLcore, AbsNic
<1> QED BY <1>1, <1>3, <1>9, <1>10, <1>12, <1>13 DEF IInv, Ownership!Next

LEMMA ReceiveStep ==
  ASSUME IInv, NEW l \in Lcores, NEW n \in 1 .. Burst, Receive(l, n)
  PROVE  IInv' /\ Ownership!Next
<1> DEFINE taken == SubSeq(ring[l], 1, n)
           rest == SubSeq(ring[l], n + 1, Len(ring[l]))
<1>1. /\ config' = config /\ UNCHANGED <<count, sequence, payload, ts, free, posted, sent, terminate, main>>
      /\ step[l] = "listen" /\ step' = [step EXCEPT ![l] = "free"]
      /\ held' = [held EXCEPT ![l] = taken] /\ ring' = [ring EXCEPT ![l] = rest]
  BY DEF Receive, Goto
<1>2. Mbuf' = Mbuf /\ Rx' = Rx
  BY <1>1, ConfigKept
<1>3. l \in Rx /\ l \notin config.tx /\ held[l] = <<>> /\ main = "wait"
  BY <1>1 DEF IInv, Roles, TypeOK, Rx
<1>4. ring[l] \in Seq(Mbuf)
  BY Places DEF IInv
<1>5. n \in 1 .. Len(ring[l]) /\ n \in Nat /\ n >= 1 /\ n <= Burst
  BY <1>4, SizesAssumption DEF Receive
<1>6. /\ taken \in Seq(Mbuf) /\ rest \in Seq(Mbuf) /\ Len(taken) = n
      /\ Ran(ring[l]) = Ran(taken) \union Ran(rest)
      /\ Distinct(ring[l]) => Distinct(taken) /\ Distinct(rest) /\ Ran(taken) \cap Ran(rest) = {}
      /\ IsFiniteSet(Ran(taken)) /\ Cardinality(Ran(taken)) <= n
  BY <1>4, <1>5, SplitAt
<1> HIDE DEF taken, rest
<1>7. taken # <<>> /\ Ran(taken) # {}
  <2>1. Head(taken) \in Ran(taken) /\ taken # <<>>
    BY <1>5, <1>6, TailOf, EmptySeq
  <2> QED BY <2>1
<1>8. /\ held' \in [Lcores -> Seq(Mbuf)] /\ held'[l] = taken
      /\ ring' \in [Lcores -> Seq(Mbuf)] /\ ring'[l] = rest
  BY <1>1, <1>6 DEF IInv, TypeOK
<1>9. TypeOK'
  <2>1. step' \in [Lcores -> {"entry", "send", "burst", "listen", "free", "done"}]
    BY <1>1 DEF IInv, TypeOK
  <2> QED BY <1>1, <1>2, <1>8, <2>1 DEF IInv, TypeOK
<1>10. Roles'
  BY <1>1, <1>2, <1>3, <1>7, <1>8 DEF IInv, TypeOK, Roles
<1>11. Alone(l)
  BY <1>1 DEF Alone, IInv, TypeOK
<1>12. Ran(held[l]) = {}
  BY <1>3, EmptyRan
<1>13. Apart(l) /\ Has(l) \cap free = {}
  BY DEF IInv, OneOwner
<1>14. OneOwner'
  <2>1. Apart(l)'
    BY <1>1, <1>6, <1>8, <1>13 DEF Apart
  <2>2. Has(l)' = Has(l)
    BY <1>1, <1>6, <1>8, <1>12 DEF Has
  <2> QED BY <1>1, <1>11, <1>13, <2>1, <2>2, OwnersKept DEF IInv
<1>15. Ownership!Deliver(l)
  <2>1. AbsLcore' = [AbsLcore EXCEPT ![l] = @ \union Ran(taken)]
    BY <1>8, <1>11, <1>12 DEF AbsLcore, Alone
  <2>2. AbsNic' = [AbsNic EXCEPT ![l] = @ \ Ran(taken)]
    <3>1. posted[l] \union Ran(rest) = (posted[l] \union Ran(ring[l])) \ Ran(taken)
      BY <1>6, <1>13 DEF Apart
    <3> QED BY <1>1, <1>8, <1>11, <3>1 DEF AbsNic, Alone
  <2>3. AbsLcore[l] = {}
    BY <1>12 DEF AbsLcore
  <2>4. Ran(taken) \in SUBSET AbsNic[l]
    BY <1>6 DEF AbsNic
  <2>5. Cardinality(Ran(taken)) <= Burst
    <3>1. Cardinality(Ran(taken)) \in Nat
      BY <1>6, FS_CardinalityType
    <3> QED BY <1>5, <1>6, <3>1, SizesAssumption
  <2>6. \E S \in SUBSET AbsNic[l] :
          /\ S # {} /\ Ownership!Cardinality(S) <= Burst
          /\ AbsNic' = [AbsNic EXCEPT ![l] = @ \ S]
          /\ AbsLcore' = [AbsLcore EXCEPT ![l] = @ \union S]
    BY <1>7, <2>1, <2>2, <2>4, <2>5, SameCardinality, Zenon
  <2> QED BY <1>1, <1>3, <2>3, <2>6
         DEF Ownership!Deliver, Ownership!With, Ownership!Without, AbsLcore, AbsNic
<1> QED BY <1>1, <1>3, <1>9, <1>10, <1>14, <1>15 DEF IInv, Ownership!Next

LEMMA FreeStep ==
  ASSUME IInv, NEW l \in Lcores, FreeMbuf(l)
  PROVE  IInv' /\ Ownership!Next
<1> DEFINE m == Head(held[l])
           s == IF Len(held[l]) = 1 THEN "listen" ELSE "free"
<1>1. /\ config' = config /\ UNCHANGED <<count, sequence, payload, ts, posted, ring, sent, terminate, main>>
      /\ step[l] = "free" /\ step' = [step EXCEPT ![l] = s]
      /\ free' = free \union {m} /\ held' = [held EXCEPT ![l] = Tail(@)]
  BY DEF FreeMbuf, Goto, nicVars
<1>2. Mbuf' = Mbuf /\ Rx' = Rx
  BY <1>1, ConfigKept
<1>3. l \in Rx /\ l \notin config.tx /\ held[l] # <<>> /\ main = "wait"
  BY <1>1 DEF IInv, Roles, TypeOK, Rx
<1>4. held[l] \in Seq(Mbuf)
  BY Places DEF IInv
<1>5. /\ m \in Mbuf /\ m \in Ran(held[l]) /\ Tail(held[l]) \in Seq(Mbuf)
      /\ Ran(held[l]) = Ran(Tail(held[l])) \union {m}
      /\ Distinct(held[l]) => Distinct(Tail(held[l])) /\ m \notin Ran(Tail(held[l]))
  BY <1>3, <1>4, TailOf
<1>6. /\ s = "listen" => Tail(held[l]) = <<>>
      /\ s = "free" => Tail(held[l]) # <<>>
      /\ s \in {"listen", "free"}
  <2>1. Len(Tail(held[l])) = Len(held[l]) - 1 /\ Len(held[l]) \in Nat
    BY <1>3, <1>4
  <2>2. Len(held[l]) = 1 => Tail(held[l]) = <<>>
    <3>1. Tail(held[l]) # <<>> => Len(Tail(held[l])) \in Nat \ {0}
      BY <1>5, EmptySeq, Zenon
    <3> QED BY <2>1, <3>1
  <2>3. Len(held[l]) # 1 => Tail(held[l]) # <<>>
    <3>1. Tail(held[l]) = <<>> => Len(Tail(held[l])) = 0
      BY EmptySeq, Zenon
    <3> QED BY <2>1, <3>1
  <2> QED BY <2>2, <2>3
<1> HIDE DEF m, s
<1>7. held' \in [Lcores -> Seq(Mbuf)] /\ held'[l] = Tail(held[l])
  BY <1>1, <1>5 DEF IInv, TypeOK
<1>8. TypeOK'
  <2>1. step' \in [Lcores -> {"entry", "send", "burst", "listen", "free", "done"}]
    BY <1>1, <1>6 DEF IInv, TypeOK
  <2>2. free' \subseteq Mbuf
    BY <1>1, <1>5 DEF IInv, TypeOK
  <2> QED BY <1>1, <1>2, <1>7, <2>1, <2>2 DEF IInv, TypeOK
<1>9. Roles'
  BY <1>1, <1>2, <1>3, <1>6, <1>7 DEF IInv, TypeOK, Roles
<1>10. Alone(l)
  BY <1>1 DEF Alone, IInv, TypeOK
<1>11. Apart(l) /\ Has(l) \cap free = {}
  BY DEF IInv, OneOwner
<1>12. OneOwner'
  <2>1. Apart(l)'
    BY <1>1, <1>5, <1>7, <1>11 DEF Apart
  <2>2. Has(l)' = Has(l) \ {m}
    BY <1>1, <1>5, <1>7, <1>11 DEF Has, Apart
  <2>3. Has(l)' \cap free' = {} /\ Has(l)' \union free' \subseteq Has(l) \union free
    BY <1>1, <1>5, <1>11, <2>2 DEF Has
  <2> QED BY <1>10, <2>1, <2>3, OwnersKept DEF IInv
<1>13. Ownership!Free(l)
  <2>1. AbsLcore' = [AbsLcore EXCEPT ![l] = @ \ {m}]
    BY <1>5, <1>7, <1>10, <1>11 DEF AbsLcore, Alone, Apart
  <2>2. AbsNic' = AbsNic
    BY <1>1 DEF AbsNic
  <2>3. m \in AbsLcore[l]
    BY <1>5 DEF AbsLcore
  <2> QED BY <1>1, <1>3, <2>1, <2>2, <2>3
         DEF Ownership!Free, Ownership!Without, AbsLcore, AbsNic
<1> QED BY <1>1, <1>3, <1>8, <1>9, <1>12, <1>13 DEF IInv, Ownership!Next

LEMMA NicSendsStep ==
  ASSUME IInv, NEW l \in Lcores, NicSends(l)
  PROVE  IInv' /\ Ownership!Next
<1> DEFINE m == Head(ring[l])
<1>1. /\ config' = config /\ UNCHANGED <<step, count, sequence, held, ts, posted, terminate, main>>
      /\ l \in config.tx /\ ring[l] # <<>>
      /\ free' = free \union {m} /\ ring' = [ring EXCEPT ![l] = Tail(@)]
      /\ sent' = [sent EXCEPT ![l] = Append(@, payload[m])] /\ payload' = [payload EXCEPT ![m] = 0]
  BY DEF NicSends
<1>2. Mbuf' = Mbuf /\ Rx' = Rx
  BY <1>1, ConfigKept
<1>3. posted[l] = {} /\ main # "stopped"
  BY <1>1 DEF IInv, Roles
<1>4. ring[l] \in Seq(Mbuf) /\ sent[l] \in Seq(Nat)
  BY Places DEF IInv
<1>5. /\ m \in Mbuf /\ m \in Ran(ring[l]) /\ Tail(ring[l]) \in Seq(Mbuf)
      /\ Ran(ring[l]) = Ran(Tail(ring[l])) \union {m}
      /\ Distinct(ring[l]) => Distinct(Tail(ring[l])) /\ m \notin Ran(Tail(ring[l]))
  BY <1>1, <1>4, TailOf
<1> HIDE DEF m
<1>6. ring' \in [Lcores -> Seq(Mbuf)] /\ ring'[l] = Tail(ring[l])
  BY <1>1, <1>5 DEF IInv, TypeOK
<1>7. TypeOK'
  <2>1. payload[m] \in Nat /\ payload' \in [Mbuf -> Nat]
    BY <1>1, <1>5 DEF IInv, TypeOK
  <2>2. Append(sent[l], payload[m]) \in Seq(Nat)
    BY <1>4, <2>1
  <2>3. sent' \in [Lcores -> Seq(Nat)]
    BY <1>1, <2>2 DEF IInv, TypeOK
  <2>4. free' \subseteq Mbuf
    BY <1>1, <1>5 DEF IInv, TypeOK
  <2> QED BY <1>1, <1>2, <1>6, <2>1, <2>3, <2>4 DEF IInv, TypeOK
<1>8. Roles'
  BY <1>1, <1>2, <1>3 DEF IInv, Roles
<1>9. Alone(l)
  BY <1>1 DEF Alone, IInv, TypeOK
<1>10. Apart(l) /\ Has(l) \cap free = {}
  BY DEF IInv, OneOwner
<1>11. OneOwner'
  <2>1. Apart(l)'
    BY <1>1, <1>5, <1>6, <1>10 DEF Apart
  <2>2. Has(l)' = Has(l) \ {m}
    BY <1>1, <1>5, <1>6, <1>10 DEF Has, Apart
  <2>3. Has(l)' \cap free' = {} /\ Has(l)' \union free' \subseteq Has(l) \union free
    BY <1>1, <1>5, <1>10, <2>2 DEF Has
  <2> QED BY <1>9, <2>1, <2>3, OwnersKept DEF IInv
<1>12. Ownership!Complete(l)
  <2>1. AbsNic' = [AbsNic EXCEPT ![l] = @ \ {m}]
    <3>1. posted[l] \union Ran(Tail(ring[l])) = (posted[l] \union Ran(ring[l])) \ {m}
      BY <1>3, <1>5, <1>10 DEF Apart
    <3> QED BY <1>1, <1>6, <1>9, <3>1 DEF AbsNic, Alone
  <2>2. AbsLcore' = AbsLcore
    BY <1>1 DEF AbsLcore
  <2>3. m \in AbsNic[l]
    BY <1>5 DEF AbsNic
  <2> QED BY <1>1, <1>3, <2>1, <2>2, <2>3
         DEF Ownership!Complete, Ownership!Without, AbsLcore, AbsNic
<1> QED BY <1>1, <1>3, <1>7, <1>8, <1>11, <1>12 DEF IInv, Ownership!Next

LEMMA NicPostsStep ==
  ASSUME IInv, NEW l \in Lcores, NicPosts(l)
  PROVE  IInv' /\ Ownership!Next
<1> DEFINE m == Pick(l)
<1>1. /\ config' = config /\ UNCHANGED <<lcoreVars, ring, sent, terminate, main>>
      /\ l \in Rx /\ main # "stopped" /\ CanAlloc(l)
      /\ free' = free \ {m} /\ posted' = [posted EXCEPT ![l] = @ \union {m}]
  BY DEF NicPosts
<1>2. Mbuf' = Mbuf /\ Rx' = Rx
  BY <1>1, ConfigKept
<1>3. m \in free /\ m \in Mbuf
  BY <1>1, Picked DEF IInv
<1> HIDE DEF m
<1>4. posted[l] \subseteq Mbuf
  BY Places DEF IInv
<1>5. posted' \in [Lcores -> SUBSET Mbuf] /\ posted'[l] = posted[l] \union {m}
  BY <1>1, <1>3, <1>4 DEF IInv, TypeOK
<1>6. TypeOK'
  <2>1. free' \subseteq Mbuf
    BY <1>1 DEF IInv, TypeOK
  <2> QED BY <1>1, <1>2, <1>5, <2>1 DEF IInv, TypeOK, lcoreVars
<1>7. Alone(l) /\ l \notin config.tx
  BY <1>1 DEF Alone, IInv, TypeOK, lcoreVars, Rx
<1>8. Roles'
  BY <1>1, <1>2, <1>7 DEF IInv, Roles, lcoreVars, Alone
<1>9. Apart(l) /\ Has(l) \cap free = {}
  BY DEF IInv, OneOwner
<1>10. OneOwner'
  <2>1. Apart(l)'
    BY <1>1, <1>3, <1>5, <1>9 DEF Apart, Has, lcoreVars
  <2>2. Has(l)' = Has(l) \union {m}
    BY <1>1, <1>5 DEF Has, lcoreVars
  <2>3. Has(l)' \cap free' = {} /\ Has(l)' \union free' \subseteq Has(l) \union free
    BY <1>1, <1>3, <1>9, <2>2
  <2> QED BY <1>7, <2>1, <2>3, OwnersKept DEF IInv
<1>11. Ownership!Post(l)
  <2>1. AbsNic' = [AbsNic EXCEPT ![l] = @ \union {m}]
    BY <1>1, <1>5, <1>7 DEF AbsNic, Alone
  <2>2. AbsLcore' = AbsLcore
    BY <1>1 DEF AbsLcore, lcoreVars
  <2> QED BY <1>1, <1>3, <1>7, <2>1, <2>2 DEF Ownership!Post, Ownership!With, AbsLcore, AbsNic
<1> QED BY <1>1, <1>6, <1>8, <1>10, <1>11 DEF IInv, Ownership!Next

LEMMA NicReceivesStep ==
  ASSUME IInv, NEW l \in Lcores, NicReceives(l)
  PROVE  IInv' /\ Stutters
<1> DEFINE m == PickPosted(l)
<1>1. /\ config' = config /\ UNCHANGED <<lcoreVars, free, sent, terminate, main>>
      /\ posted[l] # {} /\ posted' = [posted EXCEPT ![l] = @ \ {m}]
      /\ ring' = [ring EXCEPT ![l] = Append(@, m)]
  BY DEF NicReceives
<1>2. Mbuf' = Mbuf /\ Rx' = Rx
  BY <1>1, ConfigKept
<1>3. posted[l] \subseteq Mbuf /\ ring[l] \in Seq(Mbuf)
  BY Places DEF IInv
<1>4. m \in posted[l] /\ m \in Mbuf
  BY <1>1, <1>3 DEF PickPosted
<1> HIDE DEF m
<1>5. /\ Append(ring[l], m) \in Seq(Mbuf) /\ Ran(Append(ring[l], m)) = Ran(ring[l]) \union {m}
      /\ Distinct(ring[l]) /\ m \notin Ran(ring[l]) => Distinct(Append(ring[l], m))
  BY <1>3, <1>4, AppendTo
<1>6. /\ posted' \in [Lcores -> SUBSET Mbuf] /\ posted'[l] = posted[l] \ {m}
      /\ ring' \in [Lcores -> Seq(Mbuf)] /\ ring'[l] = Append(ring[l], m)
  BY <1>1, <1>3, <1>5 DEF IInv, TypeOK
<1>7. TypeOK'
  BY <1>1, <1>2, <1>6 DEF IInv, TypeOK, lcoreVars
<1>8. Alone(l) /\ l \notin config.tx /\ main # "stopped"
  BY <1>1 DEF Alone, IInv, TypeOK, lcoreVars, Roles
<1>9. Roles'
  BY <1>1, <1>2, <1>8 DEF IInv, Roles, lcoreVars, Alone
<1>10. Apart(l) /\ Has(l) \cap free = {}
  BY DEF IInv, OneOwner
<1>11. posted'[l] \union Ran(ring'[l]) = posted[l] \union Ran(ring[l])
  BY <1>4, <1>5, <1>6
<1>12. OneOwner'
  <2>1. Apart(l)'
    BY <1>1, <1>4, <1>5, <1>6, <1>10 DEF Apart, lcoreVars
  <2>2. Has(l)' = Has(l)
    BY <1>1, <1>11 DEF Has, lcoreVars
  <2> QED BY <1>1, <1>8, <1>10, <2>1, <2>2, OwnersKept DEF IInv
<1>13. AbsNic' = AbsNic
  BY <1>8, <1>11 DEF AbsNic, Alone
<1>14. AbsLcore' = AbsLcore
  BY <1>1 DEF AbsLcore, lcoreVars
<1> QED BY <1>1, <1>7, <1>9, <1>12, <1>13, <1>14 DEF IInv, Stutters

LEMMA WaitSteps ==
  ASSUME IInv, Signal \/ WaitReturns \/ UNCHANGED vars
  PROVE  IInv' /\ Stutters
<1>1. /\ config' = config /\ UNCHANGED <<held, posted, ring, free>>
      /\ UNCHANGED <<step, count, sequence, payload, ts, sent>>
      /\ terminate' \in BOOLEAN /\ main' \in {"wait", "exit", "stopped"}
      /\ main' # main => main = "wait" /\ main' = "exit" /\ \A l \in Lcores : step[l] = "done"
  BY DEF IInv, TypeOK, Signal, WaitReturns, vars, lcoreVars, nicVars
<1>2. Mbuf' = Mbuf /\ Rx' = Rx
  BY <1>1, ConfigKept
<1>3. TypeOK'
  BY <1>1, <1>2 DEF IInv, TypeOK
<1>4. Roles'
  BY <1>1, <1>2 DEF IInv, Roles
<1> QED BY <1>1, <1>3, <1>4, NothingMoves DEF IInv, Stutters

LEMMA StopDeviceStep ==
  ASSUME IInv, StopDevice
  PROVE  IInv' /\ Ownership!Next
<1>1. /\ config' = config /\ UNCHANGED <<lcoreVars, sent, terminate>>
      /\ main = "exit" /\ main' = "stopped"
      /\ free' = free \union UNION {Ran(ring[l]) \union posted[l] : l \in Lcores}
      /\ ring' = [l \in Lcores |-> <<>>] /\ posted' = [l \in Lcores |-> {}]
  BY DEF StopDevice
<1>2. Mbuf' = Mbuf /\ Rx' = Rx
  BY <1>1, ConfigKept
<1>3. \A l \in Lcores : held[l] = <<>> /\ Ran(held[l]) = {}
  BY <1>1, EmptyRan DEF IInv, Roles
<1>4. \A l \in Lcores : Ran(ring[l]) \subseteq Mbuf /\ posted[l] \subseteq Mbuf
  <2> SUFFICES ASSUME NEW l \in Lcores PROVE Ran(ring[l]) \subseteq Mbuf /\ posted[l] \subseteq Mbuf
    OBVIOUS
  <2>1. ring[l] \in Seq(Mbuf) /\ posted[l] \subseteq Mbuf
    BY Places DEF IInv
  <2> QED BY <2>1 DEF Ran
<1>5. TypeOK'
  <2>1. free' \subseteq Mbuf
    BY <1>1, <1>4 DEF IInv, TypeOK
  <2>2. ring' \in [Lcores -> Seq(Mbuf)] /\ posted' \in [Lcores -> SUBSET Mbuf]
    BY <1>1
  <2> QED BY <1>1, <1>2, <2>1, <2>2 DEF IInv, TypeOK, lcoreVars
<1>6. Roles'
  BY <1>1, <1>2 DEF IInv, Roles, lcoreVars
<1>7. OneOwner'
  <2>1. \A l \in Lcores : Has(l)' = {} /\ Apart(l)'
    BY <1>1, <1>3, EmptyRan DEF Has, Apart, lcoreVars
  <2> QED BY <2>1 DEF OneOwner
<1>8. Ownership!Stop
  <2>1. AbsNic' = [l \in Lcores |-> {}]
    BY <1>1, EmptyRan DEF AbsNic
  <2>2. AbsLcore' = AbsLcore /\ \A l \in Lcores : AbsLcore[l] = {}
    BY <1>1, <1>3 DEF AbsLcore, lcoreVars
  <2>3. free' = free \union UNION {AbsNic[l] : l \in Lcores}
    BY <1>1 DEF AbsNic
  <2> QED BY <1>1, <2>1, <2>2, <2>3 DEF Ownership!Stop, AbsLcore, AbsNic
<1> QED BY <1>1, <1>5, <1>6, <1>7, <1>8 DEF IInv, Ownership!Next

(***************************************************************************)
(* The theorems.                                                           *)
(***************************************************************************)
LEMMA InitIInv == Init => IInv
<1> SUFFICES ASSUME Init PROVE IInv
  OBVIOUS
<1>1. config.packets \in Nat /\ config.tx \subseteq Lcores
  BY ConfigsAssumption DEF Init, ConfigType
<1>2. TypeOK
  BY <1>1, SMTT(30) DEF Init, TypeOK
<1>3. Roles
  BY DEF Init, Roles
<1>4. OneOwner
  <2>1. \A l \in Lcores : Has(l) = {} /\ Apart(l)
    BY EmptyRan DEF Init, Has, Apart
  <2> QED BY <2>1 DEF OneOwner
<1> QED BY <1>2, <1>3, <1>4 DEF IInv

LEMMA NextIInv ==
  ASSUME IInv, [Next]_vars
  PROVE  IInv' /\ [Ownership!Next]_(Ownership!vars)
<1>1. ASSUME NEW l \in Lcores, Lcore(l) PROVE IInv' /\ (Ownership!Next \/ Stutters)
  BY <1>1, TurnSteps, FillStep, TransmitStep, ReceiveStep, FreeStep DEF Lcore
<1>2. ASSUME NEW l \in Lcores, NicSends(l) \/ NicPosts(l) \/ NicReceives(l)
      PROVE  IInv' /\ (Ownership!Next \/ Stutters)
  BY <1>2, NicSendsStep, NicPostsStep, NicReceivesStep
<1>3. IInv' /\ (Ownership!Next \/ Stutters)
  BY <1>1, <1>2, WaitSteps, StopDeviceStep DEF Next
<1> QED BY <1>3, StuttersIs

\* The model's states are well formed.
THEOREM TypeCorrect == Spec => []TypeOK
<1>1. IInv => TypeOK
  BY DEF IInv
<1> QED BY InitIInv, NextIInv, <1>1, PTL DEF Spec

\* Each mbuf is in one pool, with one lcore or in one ring, and there once
\* (clientMainLoop, serverMainLoop, stopEna).
THEOREM EachMbufHasOneOwner == Spec => []OneOwner
<1>1. IInv => OneOwner
  BY DEF IInv
<1> QED BY InitIInv, NextIInv, <1>1, PTL DEF Spec

\* The lcores move mbufs only as MbufOwnership allows, whatever burst is refused
\* or cut short by a signal, and at the end all are back in their pools.
THEOREM DatapathImplementsOwnership == Spec => ImplementsOwnership
<1>1. Init => Ownership!Init
  <2> SUFFICES ASSUME Init PROVE Ownership!Init
    OBVIOUS
  <2>1. config.tx \in SUBSET Lcores /\ config \in Configs
    BY ConfigsAssumption DEF Init, ConfigType
  <2>2. free \in SUBSET AllMbufs
    BY <2>1 DEF Init, Mbuf, Pools, Pool, AllMbufs
  <2>3. \A l \in Lcores : Ran(held[l]) = {} /\ posted[l] \union Ran(ring[l]) = {}
    BY EmptyRan DEF Init
  <2>4. main # "stopped"
    BY DEF Init
  <2> QED BY <2>1, <2>2, <2>3, <2>4 DEF Ownership!Init
<1> QED BY <1>1, InitIInv, NextIInv, PTL DEF Spec, ImplementsOwnership, Ownership!Spec

(***************************************************************************)
(* The order of the packets.                                               *)
(***************************************************************************)

\* sums the provers do not see among lengths
LEMMA Sums ==
  /\ \A a, b \in Nat : a + b \in Nat /\ a + b + 1 = a + (b + 1)
  /\ \A a \in Nat : a + Len(<<>>) = a
  /\ \A a, b, c \in Nat : c = b - 1 => a + b = (a + 1) + c
OBVIOUS

\* the numbers in the mbufs of s count on from n
Counts(p, s, n) == \A i \in 1 .. Len(s) : p[s[i]] = n + i

CountedTo(s) == \A i \in 1 .. Len(s) : s[i] = i

\* SentInOrder entry by entry, which is what the steps preserve
Order(l) ==
  /\ sequence[l] = Len(sent[l]) + Len(ring[l]) + Len(held[l])
  /\ CountedTo(sent[l])
  /\ Counts(payload, ring[l], Len(sent[l]))
  /\ Counts(payload, held[l], Len(sent[l]) + Len(ring[l]))

Ordered ==
  \A l \in config.tx : IF main = "stopped" THEN CountedTo(sent[l]) ELSE Order(l)

LEMMA CountsKept ==
  ASSUME NEW S, NEW s \in Seq(S), NEW p, NEW q, NEW n, Counts(p, s, n),
         \A m \in Ran(s) : q[m] = p[m]
  PROVE  Counts(q, s, n)
<1>1. DOMAIN s = 1 .. Len(s)
  OBVIOUS
<1>2. \A i \in 1 .. Len(s) : q[s[i]] = p[s[i]]
  BY <1>1 DEF Ran
<1> QED BY <1>2 DEF Counts

LEMMA CountsNothing == \A p, n : Counts(p, <<>>, n)
BY DEF Counts

LEMMA CountsAppend ==
  ASSUME NEW S, NEW s \in Seq(S), NEW x \in S, NEW p, NEW n \in Nat,
         Counts(p, s, n), p[x] = n + Len(s) + 1
  PROVE  Counts(p, Append(s, x), n)
<1>1. /\ Len(s) \in Nat /\ Len(Append(s, x)) = Len(s) + 1
      /\ Append(s, x)[Len(s) + 1] = x /\ \A i \in 1 .. Len(s) : Append(s, x)[i] = s[i]
  OBVIOUS
<1>2. \A i \in 1 .. Len(s) : p[Append(s, x)[i]] = n + i
  BY <1>1 DEF Counts
<1>3. p[Append(s, x)[Len(s) + 1]] = n + (Len(s) + 1)
  BY <1>1
<1>4. \A i \in 1 .. Len(s) + 1 : i \in 1 .. Len(s) \/ i = Len(s) + 1
  BY <1>1
<1>5. \A i \in 1 .. Len(s) + 1 : p[Append(s, x)[i]] = n + i
  BY <1>2, <1>3, <1>4
<1> QED BY <1>1, <1>5 DEF Counts

LEMMA CountedAppend ==
  ASSUME NEW s \in Seq(Nat), CountedTo(s)
  PROVE  CountedTo(Append(s, Len(s) + 1))
<1> DEFINE x == Len(s) + 1
<1>1. Len(s) \in Nat /\ x \in Nat
  OBVIOUS
<1> HIDE DEF x
<1>2. /\ Len(Append(s, x)) = Len(s) + 1
      /\ Append(s, x)[Len(s) + 1] = x /\ \A i \in 1 .. Len(s) : Append(s, x)[i] = s[i]
  BY <1>1
<1>3. \A i \in 1 .. Len(s) + 1 : i \in 1 .. Len(s) \/ i = Len(s) + 1
  BY <1>1
<1>4. \A i \in 1 .. Len(s) + 1 : Append(s, x)[i] = i
  BY <1>2, <1>3 DEF x, CountedTo
<1>5. CountedTo(Append(s, x))
  BY <1>2, <1>4 DEF CountedTo
<1> QED BY <1>5 DEF x

LEMMA CountsTail ==
  ASSUME NEW S, NEW s \in Seq(S), s # <<>>, NEW p, NEW n \in Nat, Counts(p, s, n)
  PROVE  Counts(p, Tail(s), n + 1) /\ p[Head(s)] = n + 1
<1>1. /\ Len(s) \in Nat \ {0} /\ Len(Tail(s)) = Len(s) - 1 /\ Head(s) = s[1]
      /\ \A i \in 1 .. Len(s) - 1 : Tail(s)[i] = s[i + 1] /\ i + 1 \in 1 .. Len(s)
  OBVIOUS
<1>2. \A i \in 1 .. Len(s) - 1 : p[Tail(s)[i]] = n + (i + 1)
  BY <1>1 DEF Counts
<1>3. \A i \in 1 .. Len(s) - 1 : n + (i + 1) = (n + 1) + i
  BY <1>1
<1>4. 1 \in 1 .. Len(s)
  BY <1>1
<1> QED BY <1>1, <1>2, <1>3, <1>4 DEF Counts

LEMMA Counted ==
  ASSUME NEW s \in Seq(Nat), CountedTo(s)
  PROVE  s = [i \in 1 .. Len(s) |-> i]
<1>1. DOMAIN s = 1 .. Len(s) /\ s = [i \in 1 .. Len(s) |-> s[i]]
  OBVIOUS
<1> QED BY <1>1 DEF CountedTo

\* counting on through one sequence and then another is counting through both
LEMMA JoinTwo ==
  ASSUME NEW s \in Seq(Nat), NEW t \in Seq(Nat), CountedTo(s),
         \A i \in 1 .. Len(t) : t[i] = Len(s) + i
  PROVE  s \o t \in Seq(Nat) /\ Len(s \o t) = Len(s) + Len(t) /\ CountedTo(s \o t)
<1>1. /\ s \o t \in Seq(Nat) /\ Len(s \o t) = Len(s) + Len(t)
      /\ \A i \in 1 .. Len(s) + Len(t) : (s \o t)[i] = IF i <= Len(s) THEN s[i] ELSE t[i - Len(s)]
  BY ConcatProperties, Zenon
<1>2. Len(s) \in Nat /\ Len(t) \in Nat
  OBVIOUS
<1>3. ASSUME NEW i \in 1 .. Len(s) + Len(t) PROVE (s \o t)[i] = i
  <2>1. CASE i <= Len(s)
    <3>1. i \in 1 .. Len(s)
      BY <1>2, <2>1
    <3> QED BY <1>1, <2>1, <3>1 DEF CountedTo
  <2>2. CASE ~(i <= Len(s))
    <3>1. i - Len(s) \in 1 .. Len(t) /\ Len(s) + (i - Len(s)) = i
      BY <1>2, <2>2
    <3>2. t[i - Len(s)] = i
      BY <3>1
    <3> QED BY <1>1, <2>2, <3>2
  <2> QED BY <2>1, <2>2
<1> QED BY <1>1, <1>3 DEF CountedTo

\* the numbers in a sequence of mbufs
NumbersOf(p, s) == [i \in 1 .. Len(s) |-> p[s[i]]]

LEMMA Numbers ==
  ASSUME NEW S, NEW s \in Seq(S), NEW p, NEW n \in Nat, Counts(p, s, n)
  PROVE  /\ NumbersOf(p, s) \in Seq(Nat) /\ Len(NumbersOf(p, s)) = Len(s)
         /\ \A i \in 1 .. Len(s) : NumbersOf(p, s)[i] = n + i
<1>1. Len(s) \in Nat /\ \A i \in 1 .. Len(s) : p[s[i]] \in Nat
  BY DEF Counts
<1>2. NumbersOf(p, s) \in Seq(Nat) /\ Len(NumbersOf(p, s)) = Len(s)
  BY <1>1 DEF NumbersOf
<1>3. \A i \in 1 .. Len(s) : NumbersOf(p, s)[i] = n + i
  BY DEF Counts, NumbersOf
<1> QED BY <1>2, <1>3

LEMMA JoinThree ==
  ASSUME NEW a \in Seq(Nat), NEW s \in Seq(Nat), NEW t \in Seq(Nat), CountedTo(a),
         \A i \in 1 .. Len(s) : s[i] = Len(a) + i,
         \A i \in 1 .. Len(t) : t[i] = Len(a) + Len(s) + i
  PROVE  a \o s \o t = [i \in 1 .. Len(a) + Len(s) + Len(t) |-> i]
<1>1. PICK u \in Seq(Nat) : u = a \o s /\ Len(u) = Len(a) + Len(s) /\ CountedTo(u)
  BY JoinTwo
<1>2. \A i \in 1 .. Len(t) : t[i] = Len(u) + i
  BY <1>1
<1>3. u \o t \in Seq(Nat) /\ Len(u \o t) = Len(u) + Len(t) /\ CountedTo(u \o t)
  BY <1>1, <1>2, JoinTwo
<1>4. u \o t = [i \in 1 .. Len(u) + Len(t) |-> i]
  BY <1>3, Counted
<1> QED BY <1>1, <1>4

\* nothing of a client changes but the numbers in mbufs it does not have
LEMMA OrderKept ==
  ASSUME TypeOK, NEW l \in Lcores, Order(l),
         sequence'[l] = sequence[l], sent'[l] = sent[l], ring'[l] = ring[l], held'[l] = held[l],
         \A m \in Ran(ring[l]) \union Ran(held[l]) : payload'[m] = payload[m]
  PROVE  Order(l)'
<1>1. ring[l] \in Seq(Mbuf) /\ held[l] \in Seq(Mbuf)
  BY Places
<1>2. Counts(payload', ring[l], Len(sent[l]))
  BY <1>1, CountsKept DEF Order
<1>3. Counts(payload', held[l], Len(sent[l]) + Len(ring[l]))
  BY <1>1, CountsKept DEF Order
<1> QED BY <1>2, <1>3 DEF Order

LEMMA FillOrder ==
  ASSUME IInv, Ordered, NEW l \in Lcores, Fill(l)
  PROVE  Ordered'
<1> DEFINE m == Pick(l)
<1>1. /\ config' = config /\ UNCHANGED <<ring, sent, main>>
      /\ held' = [held EXCEPT ![l] = <<m>>] /\ sequence' = [sequence EXCEPT ![l] = @ + 1]
      /\ payload' = [payload EXCEPT ![m] = sequence[l] + 1] /\ step[l] = "send"
  BY DEF Fill, nicVars, Number
<1>2. m \in free /\ m \in Mbuf
  BY Picked DEF IInv, Fill
<1> HIDE DEF m
<1>3. held[l] = <<>> /\ l \in config.tx /\ main # "stopped"
  BY <1>1 DEF IInv, Roles, TypeOK
<1>4. \A k \in Lcores : m \notin Ran(ring[k]) \union Ran(held[k])
  BY <1>2 DEF IInv, OneOwner, Has
<1>5. payload'[m] = sequence[l] + 1 /\ \A x \in Mbuf : x # m => payload'[x] = payload[x]
  BY <1>1, <1>2 DEF IInv, TypeOK
<1>6. ASSUME NEW k \in Lcores
      PROVE  \A x \in Ran(ring[k]) \union Ran(held[k]) : payload'[x] = payload[x]
  <2>1. ring[k] \in Seq(Mbuf) /\ held[k] \in Seq(Mbuf)
    BY Places DEF IInv
  <2>2. Ran(ring[k]) \union Ran(held[k]) \subseteq Mbuf
    BY <2>1 DEF Ran
  <2> QED BY <1>4, <1>5, <2>2
<1>7. ASSUME NEW k \in config.tx, k # l PROVE Order(k)'
  <2>1. k \in Lcores /\ Order(k)
    BY <1>3, <1>7, ConfigsAssumption DEF IInv, TypeOK, ConfigType, Ordered
  <2>2. sequence'[k] = sequence[k] /\ sent'[k] = sent[k] /\ ring'[k] = ring[k] /\ held'[k] = held[k]
    BY <1>1, <1>7, <2>1 DEF IInv, TypeOK
  <2> QED BY <1>6, <2>1, <2>2, OrderKept DEF IInv
<1>8. Order(l)'
  <2>1. Order(l)
    BY <1>3 DEF Ordered
  <2>2. sequence'[l] = sequence[l] + 1 /\ held'[l] = <<m>> /\ ring'[l] = ring[l] /\ sent'[l] = sent[l]
    BY <1>1 DEF IInv, TypeOK
  <2>3. ring[l] \in Seq(Mbuf) /\ sent[l] \in Seq(Nat) /\ sequence[l] \in Nat
    BY Places DEF IInv
  <2>4. Len(ring[l]) \in Nat /\ Len(sent[l]) \in Nat /\ Len(<<m>>) = 1 /\ <<m>>[1] = m
    BY <2>3
  <2>5. Len(held[l]) = 0
    BY <1>3
  <2>6. sequence[l] = Len(sent[l]) + Len(ring[l])
    BY <2>1, <2>4, <2>5 DEF Order
  <2>7. sequence[l] + 1 = Len(sent[l]) + Len(ring[l]) + Len(<<m>>)
    BY <2>4, <2>6
  <2>8. Counts(payload', ring[l], Len(sent[l]))
    BY <1>6, <2>1, <2>3, CountsKept DEF Order
  <2>9. Counts(payload', <<m>>, Len(sent[l]) + Len(ring[l]))
    <3>1. \A i \in 1 .. 1 : payload'[<<m>>[i]] = sequence[l] + i
      BY <1>5, <2>3
    <3>2. Counts(payload', <<m>>, sequence[l])
      BY <3>1 DEF Counts
    <3> QED BY <2>6, <3>2
  <2> QED BY <2>1, <2>2, <2>7, <2>8, <2>9 DEF Order
<1> QED BY <1>1, <1>3, <1>7, <1>8 DEF Ordered

LEMMA TransmitOrder ==
  ASSUME IInv, Ordered, NEW l \in Lcores, Transmit(l)
  PROVE  Ordered'
<1> DEFINE m == Head(held[l])
<1>1. /\ config' = config /\ UNCHANGED <<sequence, payload, sent, main>> /\ step[l] = "burst"
      /\ ring' = [ring EXCEPT ![l] = @ \o held[l]] /\ held' = [held EXCEPT ![l] = <<>>]
  BY DEF Transmit
<1>2. Len(held[l]) = 1 /\ l \in config.tx /\ main # "stopped"
  BY <1>1 DEF IInv, Roles, TypeOK
<1>3. ring[l] \in Seq(Mbuf) /\ held[l] \in Seq(Mbuf) /\ sent[l] \in Seq(Nat) /\ held[l] # <<>>
  <2>1. ring[l] \in Seq(Mbuf) /\ held[l] \in Seq(Mbuf) /\ sent[l] \in Seq(Nat)
    BY Places DEF IInv
  <2>2. Len(held[l]) # 0
    BY <1>2
  <2> QED BY <2>1, <2>2, EmptySeq, Zenon
<1>4. ring[l] \o held[l] = Append(ring[l], m) /\ m \in Mbuf
  BY <1>2, <1>3, AppendOne
<1> HIDE DEF m
<1>5. ASSUME NEW k \in config.tx, k # l PROVE Order(k)'
  <2>1. k \in Lcores /\ Order(k)
    BY <1>2, <1>5, ConfigsAssumption DEF IInv, TypeOK, ConfigType, Ordered
  <2>2. sequence'[k] = sequence[k] /\ sent'[k] = sent[k] /\ ring'[k] = ring[k] /\ held'[k] = held[k]
    BY <1>1, <1>5, <2>1 DEF IInv, TypeOK
  <2>3. payload' = payload
    BY <1>1
  <2> QED BY <2>1, <2>2, <2>3, OrderKept DEF IInv
<1>6. Order(l)'
  <2>1. Order(l)
    BY <1>2 DEF Ordered
  <2>2. /\ sequence'[l] = sequence[l] /\ held'[l] = <<>> /\ ring'[l] = Append(ring[l], m)
        /\ sent'[l] = sent[l] /\ payload' = payload
    BY <1>1, <1>4 DEF IInv, TypeOK
  <2>3. Len(ring[l]) \in Nat /\ Len(sent[l]) \in Nat
    BY <1>3
  <2>4. payload[m] = Len(sent[l]) + Len(ring[l]) + 1
    <3>1. Counts(payload, held[l], Len(sent[l]) + Len(ring[l]))
      BY <2>1 DEF Order
    <3>2. payload[Head(held[l])] = (Len(sent[l]) + Len(ring[l])) + 1
      <4>1. Len(sent[l]) + Len(ring[l]) \in Nat
        BY <2>3, Sums, Zenon
      <4>2. PICK n \in Nat : n = Len(sent[l]) + Len(ring[l])
        BY <4>1
      <4>3. Counts(payload, held[l], n)
        BY <3>1, <4>2
      <4>4. payload[Head(held[l])] = n + 1
        BY <1>3, <4>3, CountsTail
      <4> QED BY <4>2, <4>4
    <3> QED BY <3>2 DEF m
  <2>5. Counts(payload, ring[l], Len(sent[l]))
    BY <2>1 DEF Order
  <2>6. Counts(payload, Append(ring[l], m), Len(sent[l]))
    BY <1>3, <1>4, <2>3, <2>4, <2>5, CountsAppend
  <2>7. sequence[l] = Len(sent[l]) + Len(Append(ring[l], m)) + Len(<<>>)
    <3>1. Len(Append(ring[l], m)) = Len(ring[l]) + 1
      BY <1>3, <1>4
    <3>2. sequence[l] = Len(sent[l]) + Len(ring[l]) + 1
      BY <1>2, <2>1 DEF Order
    <3>3. sequence[l] = Len(sent[l]) + Len(Append(ring[l], m))
      <4>1. Len(sent[l]) + Len(ring[l]) + 1 = Len(sent[l]) + (Len(ring[l]) + 1)
        BY <2>3, Sums, Zenon
      <4> QED BY <3>1, <3>2, <4>1, Zenon
    <3>4. sequence[l] \in Nat
      BY Places DEF IInv
    <3> QED BY <3>3, <3>4, Sums, Zenon
  <2>8. CountedTo(sent[l])
    BY <2>1 DEF Order
  <2> QED BY <2>2, <2>6, <2>7, <2>8, CountsNothing DEF Order
<1> QED BY <1>1, <1>2, <1>5, <1>6 DEF Ordered

LEMMA NicSendsOrder ==
  ASSUME IInv, Ordered, NEW l \in Lcores, NicSends(l)
  PROVE  Ordered'
<1> DEFINE m == Head(ring[l])
<1>1. /\ config' = config /\ UNCHANGED <<sequence, held, main>>
      /\ l \in config.tx /\ ring[l] # <<>>
      /\ ring' = [ring EXCEPT ![l] = Tail(@)] /\ sent' = [sent EXCEPT ![l] = Append(@, payload[m])]
      /\ payload' = [payload EXCEPT ![m] = 0]
  BY DEF NicSends
<1>2. main # "stopped"
  BY <1>1 DEF IInv, Roles
<1>3. ring[l] \in Seq(Mbuf) /\ held[l] \in Seq(Mbuf) /\ sent[l] \in Seq(Nat)
  BY Places DEF IInv
<1>4. /\ m \in Mbuf /\ m \in Ran(ring[l]) /\ Tail(ring[l]) \in Seq(Mbuf)
      /\ Distinct(ring[l]) => m \notin Ran(Tail(ring[l]))
      /\ Ran(ring[l]) = Ran(Tail(ring[l])) \union {m}
  BY <1>1, <1>3, TailOf
<1> HIDE DEF m
<1>5. Apart(l)
  BY DEF IInv, OneOwner
<1>6. \A x \in Mbuf : x # m => payload'[x] = payload[x]
  BY <1>1 DEF IInv, TypeOK
<1>7. ASSUME NEW k \in config.tx, k # l PROVE Order(k)'
  <2>1. k \in Lcores /\ Order(k)
    BY <1>2, <1>7, ConfigsAssumption DEF IInv, TypeOK, ConfigType, Ordered
  <2>2. sequence'[k] = sequence[k] /\ sent'[k] = sent[k] /\ ring'[k] = ring[k] /\ held'[k] = held[k]
    BY <1>1, <1>7, <2>1 DEF IInv, TypeOK
  <2>3. m \notin Ran(ring[k]) \union Ran(held[k])
    BY <1>4, <1>7, <2>1 DEF IInv, OneOwner, Has
  <2>4. Ran(ring[k]) \union Ran(held[k]) \subseteq Mbuf
    <3>1. ring[k] \in Seq(Mbuf) /\ held[k] \in Seq(Mbuf)
      BY <2>1, Places DEF IInv
    <3> QED BY <3>1 DEF Ran
  <2>5. \A x \in Ran(ring[k]) \union Ran(held[k]) : payload'[x] = payload[x]
    BY <1>6, <2>3, <2>4
  <2> QED BY <2>1, <2>2, <2>5, OrderKept DEF IInv
<1>8. Order(l)'
  <2> DEFINE n == Len(sent[l])
  <2>1. Order(l)
    BY <1>1, <1>2 DEF Ordered
  <2>2. n \in Nat /\ Len(ring[l]) \in Nat /\ Len(Tail(ring[l])) = Len(ring[l]) - 1
    BY <1>1, <1>3
  <2>3. Counts(payload, Tail(ring[l]), n + 1) /\ payload[m] = n + 1
    BY <1>1, <1>3, <2>1, <2>2, CountsTail DEF Order, m
  <2>4. Append(sent[l], n + 1) \in Seq(Nat) /\ Len(Append(sent[l], n + 1)) = n + 1
    BY <1>3, <2>2
  <2>5. CountedTo(Append(sent[l], n + 1))
    BY <1>3, <2>1, CountedAppend DEF Order
  <2>6. /\ sequence'[l] = sequence[l] /\ held'[l] = held[l] /\ ring'[l] = Tail(ring[l])
        /\ sent'[l] = Append(sent[l], n + 1)
    BY <1>1, <2>3 DEF IInv, TypeOK
  <2>7. Counts(payload', Tail(ring[l]), n + 1)
    <3>1. \A x \in Ran(Tail(ring[l])) : payload'[x] = payload[x]
      <4>1. m \notin Ran(Tail(ring[l]))
        BY <1>4, <1>5 DEF Apart
      <4>2. Ran(Tail(ring[l])) \subseteq Mbuf
        BY <1>4 DEF Ran
      <4> QED BY <1>6, <4>1, <4>2
    <3> QED BY <1>4, <2>3, <3>1, CountsKept
  <2>8. Counts(payload', held[l], n + Len(ring[l]))
    <3>1. \A x \in Ran(held[l]) : payload'[x] = payload[x]
      <4>1. m \notin Ran(held[l])
        BY <1>4, <1>5 DEF Apart
      <4>2. Ran(held[l]) \subseteq Mbuf
        BY <1>3 DEF Ran
      <4> QED BY <1>6, <4>1, <4>2
    <3> QED BY <1>3, <2>1, <3>1, CountsKept DEF Order
  <2>9. n + Len(ring[l]) = (n + 1) + Len(Tail(ring[l]))
    <3>1. Len(Tail(ring[l])) \in Nat
      BY <1>4
    <3> QED BY <2>2, <3>1, Sums, Zenon
  <2>10. sequence[l] = (n + 1) + Len(Tail(ring[l])) + Len(held[l])
    BY <2>1, <2>9 DEF Order
  <2>11. Counts(payload', held[l], (n + 1) + Len(Tail(ring[l])))
    BY <2>8, <2>9
  <2> HIDE DEF n
  <2> QED BY <2>4, <2>5, <2>6, <2>7, <2>10, <2>11 DEF Order
<1> QED BY <1>1, <1>2, <1>7, <1>8 DEF Ordered

\* steps of the servers, of main and of the NIC on an RX ring
LEMMA OtherOrder ==
  ASSUME IInv, Ordered, config' = config, sequence' = sequence, payload' = payload, sent' = sent,
         main' # "stopped" =>
           /\ main # "stopped"
           /\ \A l \in config.tx : ring'[l] = ring[l] /\ held'[l] = held[l]
  PROVE  Ordered'
<1> SUFFICES ASSUME NEW l \in config.tx
             PROVE  IF main' = "stopped" THEN CountedTo(sent[l]) ELSE Order(l)'
  BY DEF Ordered
<1>1. CASE main' = "stopped"
  BY <1>1 DEF Ordered, Order
<1>2. CASE main' # "stopped"
  <2>1. Order(l) /\ l \in Lcores
    BY <1>2, ConfigsAssumption DEF Ordered, IInv, TypeOK, ConfigType
  <2>2. ring'[l] = ring[l] /\ held'[l] = held[l]
    BY <1>2
  <2>3. Order(l)'
    BY <2>1, <2>2, OrderKept DEF IInv
  <2> QED BY <1>2, <2>3
<1> QED BY <1>1, <1>2

LEMMA InitOrdered == Init => Ordered
<1> SUFFICES ASSUME Init, NEW l \in config.tx PROVE Order(l)
  BY DEF Init, Ordered
<1>1. l \in Lcores
  BY ConfigsAssumption DEF Init, ConfigType
<1>2. sent[l] = <<>> /\ ring[l] = <<>> /\ held[l] = <<>> /\ sequence[l] = 0
  BY <1>1 DEF Init
<1>3. CountedTo(<<>>) /\ Len(<<>>) = 0
  BY DEF CountedTo
<1> QED BY <1>2, <1>3, CountsNothing DEF Order

LEMMA NextOrdered ==
  ASSUME IInv, Ordered, [Next]_vars
  PROVE  Ordered'
<1>1. \A l \in Lcores : l \in Rx <=> l \notin config.tx
  BY DEF Rx
<1>2. CASE UNCHANGED vars
  BY <1>2, OtherOrder DEF vars, lcoreVars, nicVars
<1>3. ASSUME NEW l \in Lcores,
             Enter(l) \/ EnterRouted(l) \/ ClientReturns(l) \/ ServerReturns(l)
      PROVE  Ordered'
  BY <1>3, OtherOrder DEF Enter, EnterRouted, ClientReturns, ServerReturns, nicVars
<1>4. ASSUME NEW l \in Lcores, FreeMbuf(l) PROVE Ordered'
  <2>1. l \notin config.tx
    BY <1>4 DEF FreeMbuf, IInv, Roles, TypeOK, Rx
  <2>2. \A k \in config.tx : held'[k] = held[k] /\ ring'[k] = ring[k]
    BY <1>4, <2>1 DEF FreeMbuf, nicVars, IInv, TypeOK
  <2>3. config' = config /\ sequence' = sequence /\ payload' = payload /\ sent' = sent /\ main' = main
    BY <1>4 DEF FreeMbuf, nicVars
  <2> QED BY <2>2, <2>3, OtherOrder
<1>5. ASSUME NEW l \in Lcores, NEW n \in 1 .. Burst, Receive(l, n) PROVE Ordered'
  <2>1. l \notin config.tx
    BY <1>5 DEF Receive, IInv, Roles, TypeOK, Rx
  <2>2. \A k \in config.tx : held'[k] = held[k] /\ ring'[k] = ring[k]
    <3>1. \A k \in config.tx : k # l /\ k \in DOMAIN held /\ k \in DOMAIN ring
      BY <2>1, ConfigsAssumption DEF IInv, TypeOK, ConfigType
    <3> QED BY <1>5, <3>1 DEF Receive
  <2>3. config' = config /\ sequence' = sequence /\ payload' = payload /\ sent' = sent /\ main' = main
    BY <1>5 DEF Receive
  <2> QED BY <2>2, <2>3, OtherOrder
<1>6. ASSUME NEW l \in Lcores, NicPosts(l) PROVE Ordered'
  BY <1>6, OtherOrder DEF NicPosts, lcoreVars
<1>7. ASSUME NEW l \in Lcores, NicReceives(l) PROVE Ordered'
  <2>1. l \notin config.tx
    BY <1>7 DEF NicReceives, IInv, Roles, TypeOK, Rx
  <2>2. \A k \in config.tx : held'[k] = held[k] /\ ring'[k] = ring[k]
    BY <1>7, <2>1 DEF NicReceives, lcoreVars, IInv, TypeOK
  <2> QED BY <1>7, <2>2, OtherOrder DEF NicReceives, lcoreVars
<1>8. CASE Signal \/ WaitReturns \/ StopDevice
  BY <1>8, OtherOrder DEF Signal, WaitReturns, StopDevice, lcoreVars, nicVars
<1> QED BY <1>2, <1>3, <1>4, <1>5, <1>6, <1>7, <1>8, FillOrder, TransmitOrder, NicSendsOrder
        DEF Next, Lcore

\* A client's packets leave in the order of their numbers, none left out and none
\* sent again by the retry of rte_eth_tx_burst (clientMainLoop).
THEOREM PacketsLeaveInOrder == Spec => []SentInOrder
<1>1. ASSUME IInv, Ordered PROVE SentInOrder
  <2> SUFFICES ASSUME NEW l \in config.tx
               PROVE  LET numbers == sent[l] \o [i \in 1 .. Len(ring[l]) |-> payload[ring[l][i]]]
                                     \o [i \in 1 .. Len(held[l]) |-> payload[held[l][i]]]
                          counted(n) == [i \in 1 .. n |-> i]
                      IN  IF main = "stopped" THEN sent[l] = counted(Len(sent[l]))
                                              ELSE numbers = counted(sequence[l])
    BY DEF SentInOrder
  <2>1. l \in Lcores
    BY <1>1, ConfigsAssumption DEF IInv, TypeOK, ConfigType
  <2>2. sent[l] \in Seq(Nat) /\ ring[l] \in Seq(Mbuf) /\ held[l] \in Seq(Mbuf)
    BY <1>1, <2>1, Places DEF IInv
  <2>3. CASE main = "stopped"
    <3>1. CountedTo(sent[l])
      BY <1>1, <2>3 DEF Ordered
    <3> QED BY <2>2, <2>3, <3>1, Counted
  <2>4. CASE main # "stopped"
    <3>1. Order(l)
      BY <1>1, <2>4 DEF Ordered
    <3>2. PICK n \in Nat, k \in Nat : n = Len(sent[l]) /\ k = n + Len(ring[l])
      BY <2>2
    <3>3. CountedTo(sent[l]) /\ Counts(payload, ring[l], n) /\ Counts(payload, held[l], k)
      BY <3>1, <3>2 DEF Order
    <3>4. PICK s \in Seq(Nat) :
            /\ s = NumbersOf(payload, ring[l]) /\ Len(s) = Len(ring[l])
            /\ \A i \in 1 .. Len(s) : s[i] = n + i
      <4>1. /\ NumbersOf(payload, ring[l]) \in Seq(Nat)
            /\ Len(NumbersOf(payload, ring[l])) = Len(ring[l])
            /\ \A i \in 1 .. Len(ring[l]) : NumbersOf(payload, ring[l])[i] = n + i
        BY <2>2, <3>3, Numbers
      <4> QED BY <4>1
    <3>5. PICK t \in Seq(Nat) :
            /\ t = NumbersOf(payload, held[l]) /\ Len(t) = Len(held[l])
            /\ \A i \in 1 .. Len(t) : t[i] = k + i
      <4>1. /\ NumbersOf(payload, held[l]) \in Seq(Nat)
            /\ Len(NumbersOf(payload, held[l])) = Len(held[l])
            /\ \A i \in 1 .. Len(held[l]) : NumbersOf(payload, held[l])[i] = k + i
        BY <2>2, <3>3, Numbers
      <4> QED BY <4>1
    <3>6. k = Len(sent[l]) + Len(s)
      BY <3>2, <3>4
    <3>7. sent[l] \o s \o t = [i \in 1 .. Len(sent[l]) + Len(s) + Len(t) |-> i]
      <4>1. PICK a \in Seq(Nat) : a = sent[l]
        BY <2>2
      <4>2. \A i \in 1 .. Len(s) : s[i] = Len(a) + i
        BY <3>2, <3>4, <4>1
      <4>3. \A i \in 1 .. Len(t) : t[i] = Len(a) + Len(s) + i
        BY <3>5, <3>6, <4>1
      <4>4. CountedTo(a)
        BY <3>3, <4>1
      <4>5. a \o s \o t = [i \in 1 .. Len(a) + Len(s) + Len(t) |-> i]
        BY <4>2, <4>3, <4>4, JoinThree, ZenonT(60)
      <4> QED BY <4>1, <4>5
    <3>8. sequence[l] = Len(sent[l]) + Len(s) + Len(t)
      BY <3>1, <3>4, <3>5 DEF Order
    <3> QED BY <2>4, <3>4, <3>5, <3>7, <3>8 DEF NumbersOf
  <2> QED BY <2>3, <2>4
<1> QED BY InitIInv, InitOrdered, NextIInv, NextOrdered, <1>1, PTL DEF Spec

(***************************************************************************)
(* Sequence numbers and ts.                                                *)
(***************************************************************************)

\* what a client writes to ts, and where
Stamping ==
  /\ \A l \in Lcores : sequence[l] = count[l] + (IF step[l] = "burst" THEN 1 ELSE 0)
  /\ \A i \in DOMAIN ts : ts[i] \subseteq config.tx /\ (ts[i] # {} => i < config.packets)

LEMMA NextStamping ==
  ASSUME IInv, Stamping, [Next]_vars
  PROVE  Stamping'
<1>1. ASSUME UNCHANGED <<config, count, sequence, ts>>,
             \A l \in Lcores : step'[l] = "burst" <=> step[l] = "burst"
      PROVE  Stamping'
  BY <1>1 DEF Stamping
<1>2. ASSUME NEW l \in Lcores, NEW s \in {"done", "listen", "send", "free"},
             step[l] # "burst", Goto(l, s)
      PROVE  \A k \in Lcores : step'[k] = "burst" <=> step[k] = "burst"
  BY <1>2 DEF Goto, IInv, TypeOK
<1>3. ASSUME NEW l \in Lcores,
             Enter(l) \/ EnterRouted(l) \/ ClientReturns(l) \/ ServerReturns(l) \/ FreeMbuf(l)
      PROVE  Stamping'
  BY <1>1, <1>2, <1>3 DEF Enter, EnterRouted, ClientReturns, ServerReturns, FreeMbuf, nicVars
<1>4. ASSUME NEW l \in Lcores, NEW n \in 1 .. Burst, Receive(l, n) PROVE Stamping'
  <2>1. UNCHANGED <<config, count, sequence, ts>> /\ step[l] # "burst" /\ Goto(l, "free")
    BY <1>4 DEF Receive
  <2> QED BY <1>1, <1>2, <2>1
<1>5. ASSUME NEW l \in Lcores, Fill(l) PROVE Stamping'
  <2>1. l \in config.tx
    BY <1>5 DEF Fill, IInv, Roles
  <2>2. sequence[l] = count[l] /\ sequence[l] < config.packets /\ sequence[l] \in Nat
    <3>1. step[l] = "send" /\ count[l] < config.packets
      BY <1>5 DEF Fill
    <3>2. count[l] \in Nat /\ sequence[l] = count[l] + 0
      BY <3>1 DEF IInv, TypeOK, Stamping
    <3> QED BY <3>1, <3>2
  <2>3. /\ ts' = [ts EXCEPT ![sequence[l]] = @ \union {l}]
        /\ sequence' = [sequence EXCEPT ![l] = @ + 1]
        /\ step' = [step EXCEPT ![l] = "burst"]
        /\ config' = config /\ count' = count
    BY <1>5 DEF Fill, TsIndex, Goto
  <2>4. ASSUME NEW i \in DOMAIN ts'
        PROVE  ts'[i] \subseteq config.tx /\ (ts'[i] # {} => i < config.packets)
    <3>1. i \in DOMAIN ts
      BY <2>3
    <3>2. CASE i = sequence[l]
      BY <2>1, <2>2, <2>3, <3>1, <3>2 DEF Stamping
    <3>3. CASE i # sequence[l]
      BY <2>3, <3>1, <3>3 DEF Stamping
    <3> QED BY <3>2, <3>3
  <2>5. ASSUME NEW k \in Lcores
        PROVE  sequence'[k] = count'[k] + (IF step'[k] = "burst" THEN 1 ELSE 0)
    BY <1>5, <2>3, SMTT(30) DEF Fill, IInv, TypeOK, Stamping
  <2> QED BY <2>3, <2>4, <2>5 DEF Stamping
<1>6. ASSUME NEW l \in Lcores, Transmit(l) PROVE Stamping'
  <2>1. ASSUME NEW k \in Lcores
        PROVE  sequence'[k] = count'[k] + (IF step'[k] = "burst" THEN 1 ELSE 0)
    BY <1>6 DEF Transmit, Goto, IInv, TypeOK, Stamping
  <2> QED BY <1>6, <2>1 DEF Transmit, Stamping
<1>7. ASSUME NEW l \in Lcores, NicSends(l) \/ NicPosts(l) \/ NicReceives(l) PROVE Stamping'
  BY <1>1, <1>7 DEF NicSends, NicPosts, NicReceives, lcoreVars
<1>8. CASE Signal \/ WaitReturns \/ StopDevice \/ UNCHANGED vars
  BY <1>1, <1>8 DEF Signal, WaitReturns, StopDevice, vars, lcoreVars
<1> QED BY <1>3, <1>4, <1>5, <1>6, <1>7, <1>8 DEF Next, Lcore

\* Writes past the end of ts and writes of two lcores to one of its entries have no
\* other cause than a packet count above its size and a second client (clientMainLoop).
THEOREM TimestampFaultsExplained == Spec => []TimestampFaultsHaveKnownCause
<1>1. Init => Stamping
  BY DEF Init, Stamping
<1>2. IInv /\ Stamping => TimestampFaultsHaveKnownCause
  <2> SUFFICES ASSUME IInv, Stamping, NEW i \in DOMAIN ts
               PROVE  /\ ts[i] # {} /\ i >= TsSize => config.packets > TsSize
                      /\ Cardinality(ts[i]) > 1 => Cardinality(config.tx) > 1
    BY DEF TimestampFaultsHaveKnownCause
  <2>1. i \in Int /\ config.packets \in Nat /\ config.tx \subseteq Lcores
    BY ConfigsAssumption DEF IInv, TypeOK, ConfigType
  <2>2. ts[i] \subseteq config.tx /\ (ts[i] # {} => i < config.packets)
    BY DEF Stamping
  <2>3. IsFiniteSet(config.tx)
    BY <2>1, LcoresAssumption, FS_Subset
  <2>4. Cardinality(ts[i]) <= Cardinality(config.tx) /\ IsFiniteSet(ts[i])
    BY <2>2, <2>3, FS_Subset
  <2>5. Cardinality(ts[i]) \in Nat /\ Cardinality(config.tx) \in Nat
    BY <2>3, <2>4, FS_CardinalityType
  <2> QED BY <2>1, <2>2, <2>4, <2>5, SizesAssumption
<1> QED BY InitIInv, NextIInv, NextStamping, <1>1, <1>2, PTL DEF Spec

(***************************************************************************)
(* What rings, clients and servers can hold back from a pool.              *)
(***************************************************************************)

\* a set whose elements are all values of a function on a finite set
LEMMA Covered ==
  ASSUME NEW T, NEW f, IsFiniteSet(DOMAIN f), \A t \in T : \E s \in DOMAIN f : f[s] = t
  PROVE  IsFiniteSet(T) /\ Cardinality(T) <= Cardinality(DOMAIN f)
<1> DEFINE g == [t \in T |-> CHOOSE s \in DOMAIN f : f[s] = t]
<1>1. \A t \in T : g[t] \in DOMAIN f /\ f[g[t]] = t
  OBVIOUS
<1>2. g \in Injection(T, DOMAIN f)
  BY <1>1 DEF Injection, IsInjective
<1> QED BY <1>2, FS_Injection

\* the queue and the lcore of l stay within their sizes, and use one pool
Sizes(l) ==
  /\ IsFiniteSet(posted[l]) /\ Cardinality(posted[l]) + Len(ring[l]) <= RingSize
  /\ step[l] = "free" => Len(held[l]) <= Burst

\* no mbuf is lost
Conserved == Mbuf \subseteq free \union UNION {Has(l) : l \in Lcores}

\* every queue within its bounds, its mbufs from its own pool, and none lost
Filling ==
  /\ \A l \in Lcores : Sizes(l) /\ \A m \in Has(l) : m[1] = Pool(l)
  /\ Conserved

\* a step of lcore l, or of the NIC on its queue
Moves(l) ==
  /\ config' = config /\ Alone(l) /\ \A k \in Lcores : k # l => step'[k] = step[k]
  /\ Has(l) \union free \subseteq Has(l)' \union free'
  /\ Has(l)' \subseteq Has(l) \union {m \in free : m[1] = Pool(l)}
  /\ Sizes(l)'

LEMMA MovesKeep ==
  ASSUME IInv, Filling, NEW l \in Lcores, Moves(l)
  PROVE  Filling'
<1>1. Mbuf' = Mbuf /\ \A k \in Lcores : Pool(k)' = Pool(k)
  BY ConfigKept DEF Moves, Pool
<1>2. \A k \in Lcores : k # l => Has(k)' = Has(k) /\ Sizes(k)' = Sizes(k)
  BY DEF Moves, Alone, Has, Sizes
<1>3. Conserved'
  <2>1. ASSUME NEW m \in Mbuf PROVE m \in free' \/ \E k \in Lcores : m \in Has(k)'
    <3>1. m \in free \/ \E k \in Lcores : m \in Has(k)
      BY DEF Filling, Conserved
    <3>2. CASE m \in free \/ m \in Has(l)
      BY <3>2 DEF Moves
    <3>3. CASE m \notin free /\ m \notin Has(l)
      BY <1>2, <3>1, <3>3
    <3> QED BY <3>2, <3>3
  <2> QED BY <1>1, <2>1 DEF Conserved
<1>4. ASSUME NEW k \in Lcores PROVE Sizes(k)' /\ \A m \in Has(k)' : m[1] = Pool(k)'
  <2>1. CASE k = l
    BY <1>1, <2>1 DEF Moves, Filling
  <2>2. CASE k # l
    BY <1>1, <1>2, <2>2 DEF Filling
  <2> QED BY <2>1, <2>2
<1> QED BY <1>3, <1>4 DEF Filling

\* steps that move no mbuf
LEMMA NothingMovesKeeps ==
  ASSUME Filling, config' = config, UNCHANGED <<held, posted, ring, free>>,
         \A l \in Lcores : step'[l] = "free" => step[l] = "free"
  PROVE  Filling'
BY ConfigKept DEF Filling, Conserved, Sizes, Has, Pool

LEMMA PickedFrom ==
  ASSUME NEW l \in Lcores, CanAlloc(l)
  PROVE  Pick(l) \in free /\ Pick(l)[1] = Pool(l)
BY DEF CanAlloc, Pick

LEMMA NextFilling ==
  ASSUME IInv, Filling, [Next]_vars
  PROVE  Filling'
<1>1. ASSUME NEW l \in Lcores,
             Enter(l) \/ EnterRouted(l) \/ ClientReturns(l) \/ ServerReturns(l)
      PROVE  Filling'
  <2>1. \E s \in {"done", "listen", "send"} : step' = [step EXCEPT ![l] = s]
    BY <1>1 DEF Enter, EnterRouted, ClientReturns, ServerReturns, Goto
  <2>2. \A k \in Lcores : step'[k] = "free" => step[k] = "free"
    BY <2>1 DEF IInv, TypeOK
  <2> QED BY <1>1, <2>2, NothingMovesKeeps
          DEF Enter, EnterRouted, ClientReturns, ServerReturns, nicVars
<1>2. ASSUME NEW l \in Lcores, Fill(l) PROVE Filling'
  <2> DEFINE m == Pick(l)
  <2>1. /\ config' = config /\ UNCHANGED <<posted, ring>> /\ step[l] = "send"
        /\ free' = free \ {m} /\ held' = [held EXCEPT ![l] = <<m>>]
        /\ step' = [step EXCEPT ![l] = "burst"]
    BY <1>2 DEF Fill, nicVars, Goto
  <2>2. m \in free /\ m[1] = Pool(l)
    BY <1>2, PickedFrom DEF Fill
  <2> HIDE DEF m
  <2>3. held[l] = <<>> /\ Ran(held[l]) = {}
    BY <2>1, EmptyRan DEF IInv, Roles
  <2>4. held'[l] = <<m>> /\ Ran(held'[l]) = {m} /\ step'[l] = "burst"
    BY <2>1, SingleRan DEF IInv, TypeOK
  <2>5. Has(l)' = Has(l) \union {m}
    BY <2>1, <2>3, <2>4 DEF Has
  <2>6. Alone(l) /\ \A k \in Lcores : k # l => step'[k] = step[k]
    BY <2>1 DEF Alone, IInv, TypeOK
  <2>7. Sizes(l)'
    BY <2>1, <2>4 DEF Filling, Sizes
  <2> QED BY <2>1, <2>2, <2>5, <2>6, <2>7, MovesKeep DEF Moves
<1>3. ASSUME NEW l \in Lcores, Transmit(l) PROVE Filling'
  <2> DEFINE m == Head(held[l])
  <2>1. /\ config' = config /\ UNCHANGED <<posted, free>> /\ step[l] = "burst"
        /\ ring' = [ring EXCEPT ![l] = @ \o held[l]] /\ held' = [held EXCEPT ![l] = <<>>]
        /\ step' = [step EXCEPT ![l] = "send"] /\ Len(ring[l]) < RingSize
    BY <1>3 DEF Transmit, Goto
  <2>2. Len(held[l]) = 1 /\ posted[l] = {}
    BY <2>1 DEF IInv, Roles
  <2>3. held[l] \in Seq(Mbuf) /\ ring[l] \in Seq(Mbuf)
    BY Places DEF IInv
  <2>4. ring[l] \o held[l] = Append(ring[l], m) /\ m \in Mbuf /\ Ran(held[l]) = {m}
    BY <2>2, <2>3, AppendOne
  <2>5. /\ Ran(Append(ring[l], m)) = Ran(ring[l]) \union {m}
        /\ Len(Append(ring[l], m)) = Len(ring[l]) + 1 /\ Len(ring[l]) \in Nat
    BY <2>3, <2>4, AppendTo
  <2> HIDE DEF m
  <2>6. /\ ring'[l] = Append(ring[l], m) /\ held'[l] = <<>> /\ Ran(held'[l]) = {}
        /\ step'[l] = "send"
    BY <2>1, <2>4, EmptyRan DEF IInv, TypeOK
  <2>7. Has(l)' = Has(l)
    BY <2>1, <2>4, <2>5, <2>6 DEF Has
  <2>8. Alone(l) /\ \A k \in Lcores : k # l => step'[k] = step[k]
    BY <2>1 DEF Alone, IInv, TypeOK
  <2>9. Sizes(l)'
    BY <2>1, <2>2, <2>5, <2>6, FS_EmptySet, SizesAssumption DEF Sizes
  <2> QED BY <2>1, <2>7, <2>8, <2>9, MovesKeep DEF Moves
<1>4. ASSUME NEW l \in Lcores, NEW n \in 1 .. Burst, Receive(l, n) PROVE Filling'
  <2> DEFINE taken == SubSeq(ring[l], 1, n)
             rest == SubSeq(ring[l], n + 1, Len(ring[l]))
  <2>1. /\ config' = config /\ UNCHANGED <<posted, free>> /\ step[l] = "listen"
        /\ held' = [held EXCEPT ![l] = taken] /\ ring' = [ring EXCEPT ![l] = rest]
        /\ step' = [step EXCEPT ![l] = "free"] /\ n <= Len(ring[l])
    BY <1>4 DEF Receive, Goto
  <2>2. ring[l] \in Seq(Mbuf) /\ held[l] = <<>> /\ Ran(held[l]) = {}
    BY <2>1, Places, EmptyRan DEF IInv, Roles
  <2>3. n \in 1 .. Len(ring[l]) /\ n \in Nat /\ n <= Burst /\ Len(ring[l]) \in Nat
    BY <2>1, <2>2, SizesAssumption
  <2>4. Ran(ring[l]) = Ran(taken) \union Ran(rest) /\ Len(taken) = n
    BY <2>2, <2>3, SplitAt
  <2>5. Len(rest) = Len(ring[l]) - n
    BY <2>2, <2>3
  <2> HIDE DEF taken, rest
  <2>6. held'[l] = taken /\ ring'[l] = rest /\ step'[l] = "free"
    BY <2>1 DEF IInv, TypeOK
  <2>7. Has(l)' = Has(l)
    BY <2>1, <2>2, <2>4, <2>6 DEF Has
  <2>8. Alone(l) /\ \A k \in Lcores : k # l => step'[k] = step[k]
    BY <2>1 DEF Alone, IInv, TypeOK
  <2>9. Sizes(l)'
    <3>1. IsFiniteSet(posted[l]) /\ Cardinality(posted[l]) + Len(ring[l]) <= RingSize
      BY DEF Filling, Sizes
    <3>2. Cardinality(posted[l]) \in Nat
      BY <3>1, FS_CardinalityType
    <3>3. Cardinality(posted[l]) + Len(rest) <= RingSize
      BY <2>3, <2>5, <3>1, <3>2, SizesAssumption
    <3> QED BY <2>1, <2>3, <2>4, <2>6, <3>1, <3>3 DEF Sizes
  <2> QED BY <2>1, <2>7, <2>8, <2>9, MovesKeep DEF Moves
<1>5. ASSUME NEW l \in Lcores, FreeMbuf(l) PROVE Filling'
  <2> DEFINE m == Head(held[l])
  <2>1. /\ config' = config /\ UNCHANGED <<posted, ring>> /\ step[l] = "free"
        /\ free' = free \union {m} /\ held' = [held EXCEPT ![l] = Tail(@)]
        /\ \E s : step' = [step EXCEPT ![l] = s]
    BY <1>5 DEF FreeMbuf, nicVars, Goto
  <2>2. held[l] # <<>> /\ held[l] \in Seq(Mbuf)
    BY <2>1, Places DEF IInv, Roles
  <2>3. Ran(held[l]) = Ran(Tail(held[l])) \union {m}
    BY <2>2, TailOf
  <2>4. Len(Tail(held[l])) = Len(held[l]) - 1 /\ Len(held[l]) \in Nat
    BY <2>2
  <2> HIDE DEF m
  <2>5. held'[l] = Tail(held[l])
    BY <2>1 DEF IInv, TypeOK
  <2>6. /\ Has(l) \subseteq Has(l)' \union {m} /\ Has(l)' \subseteq Has(l)
    BY <2>1, <2>3, <2>5 DEF Has
  <2>7. Alone(l) /\ \A k \in Lcores : k # l => step'[k] = step[k]
    BY <2>1 DEF Alone, IInv, TypeOK
  <2>8. Sizes(l)'
    BY <2>1, <2>4, <2>5, SizesAssumption DEF Filling, Sizes
  <2> QED BY <2>1, <2>6, <2>7, <2>8, MovesKeep DEF Moves
<1>6. ASSUME NEW l \in Lcores, NicSends(l) PROVE Filling'
  <2> DEFINE m == Head(ring[l])
  <2>1. /\ config' = config /\ UNCHANGED <<posted, held, step>> /\ ring[l] # <<>>
        /\ free' = free \union {m} /\ ring' = [ring EXCEPT ![l] = Tail(@)]
    BY <1>6 DEF NicSends
  <2>2. ring[l] \in Seq(Mbuf)
    BY Places DEF IInv
  <2>3. Ran(ring[l]) = Ran(Tail(ring[l])) \union {m}
    BY <2>1, <2>2, TailOf
  <2>4. Len(Tail(ring[l])) = Len(ring[l]) - 1 /\ Len(ring[l]) \in Nat
    BY <2>1, <2>2
  <2> HIDE DEF m
  <2>5. ring'[l] = Tail(ring[l])
    BY <2>1 DEF IInv, TypeOK
  <2>6. /\ Has(l) \subseteq Has(l)' \union {m} /\ Has(l)' \subseteq Has(l)
    BY <2>1, <2>3, <2>5 DEF Has
  <2>7. Alone(l) /\ \A k \in Lcores : k # l => step'[k] = step[k]
    BY <2>1 DEF Alone, IInv, TypeOK
  <2>8. Sizes(l)'
    <3>1. Sizes(l)
      BY DEF Filling
    <3>2. Cardinality(posted[l]) \in Nat
      BY <3>1, FS_CardinalityType DEF Sizes
    <3> QED BY <2>1, <2>4, <2>5, <3>1, <3>2, SizesAssumption DEF Sizes
  <2> QED BY <2>1, <2>6, <2>7, <2>8, MovesKeep DEF Moves
<1>7. ASSUME NEW l \in Lcores, NicPosts(l) PROVE Filling'
  <2> DEFINE m == Pick(l)
  <2>1. /\ config' = config /\ UNCHANGED <<ring, held, step>>
        /\ Cardinality(posted[l]) + Len(ring[l]) < RingSize
        /\ free' = free \ {m} /\ posted' = [posted EXCEPT ![l] = @ \union {m}]
    BY <1>7 DEF NicPosts, lcoreVars
  <2>2. m \in free /\ m[1] = Pool(l)
    BY <1>7, PickedFrom DEF NicPosts
  <2> HIDE DEF m
  <2>3. posted'[l] = posted[l] \union {m}
    BY <2>1 DEF IInv, TypeOK
  <2>4. Has(l)' = Has(l) \union {m}
    BY <2>1, <2>3 DEF Has
  <2>5. Alone(l) /\ \A k \in Lcores : k # l => step'[k] = step[k]
    BY <2>1 DEF Alone, IInv, TypeOK
  <2>6. Sizes(l)'
    <3>1. Sizes(l) /\ ring[l] \in Seq(Mbuf)
      BY Places DEF Filling, IInv
    <3>2. Cardinality(posted[l]) \in Nat /\ Len(ring[l]) \in Nat
      BY <3>1, FS_CardinalityType DEF Sizes
    <3>3. /\ IsFiniteSet(posted'[l]) /\ Cardinality(posted'[l]) \in Nat
          /\ Cardinality(posted'[l]) <= Cardinality(posted[l]) + 1
      <4>1. /\ IsFiniteSet(posted[l] \union {m})
            /\ Cardinality(posted[l] \union {m}) =
                 IF m \in posted[l] THEN Cardinality(posted[l]) ELSE Cardinality(posted[l]) + 1
        BY <3>1, FS_AddElement, Zenon DEF Sizes
      <4> QED BY <2>3, <3>2, <4>1
    <3> QED BY <2>1, <3>1, <3>2, <3>3, SizesAssumption DEF Sizes
  <2> QED BY <2>1, <2>2, <2>4, <2>5, <2>6, MovesKeep DEF Moves
<1>8. ASSUME NEW l \in Lcores, NicReceives(l) PROVE Filling'
  <2> DEFINE m == PickPosted(l)
  <2>1. /\ config' = config /\ UNCHANGED <<free, held, step>> /\ posted[l] # {}
        /\ posted' = [posted EXCEPT ![l] = @ \ {m}]
        /\ ring' = [ring EXCEPT ![l] = Append(@, m)]
    BY <1>8 DEF NicReceives, lcoreVars
  <2>2. m \in posted[l] /\ posted[l] \subseteq Mbuf /\ ring[l] \in Seq(Mbuf)
    BY <2>1, Places DEF IInv, PickPosted
  <2> HIDE DEF m
  <2>3. /\ Ran(Append(ring[l], m)) = Ran(ring[l]) \union {m}
        /\ Len(Append(ring[l], m)) = Len(ring[l]) + 1 /\ Len(ring[l]) \in Nat
    BY <2>2, AppendTo
  <2>4. posted'[l] = posted[l] \ {m} /\ ring'[l] = Append(ring[l], m)
    BY <2>1 DEF IInv, TypeOK
  <2>5. Has(l)' = Has(l)
    BY <2>1, <2>2, <2>3, <2>4 DEF Has
  <2>6. Alone(l) /\ \A k \in Lcores : k # l => step'[k] = step[k]
    BY <2>1 DEF Alone, IInv, TypeOK
  <2>7. Sizes(l)'
    <3>1. Sizes(l)
      BY DEF Filling
    <3>2. Cardinality(posted[l]) \in Nat
      BY <3>1, FS_CardinalityType DEF Sizes
    <3>3. IsFiniteSet(posted'[l]) /\ Cardinality(posted'[l]) = Cardinality(posted[l]) - 1
      BY <2>2, <2>4, <3>1, FS_RemoveElement DEF Sizes
    <3> QED BY <2>1, <2>3, <2>4, <3>1, <3>2, <3>3, SizesAssumption DEF Sizes
  <2> QED BY <2>1, <2>5, <2>6, <2>7, MovesKeep DEF Moves
<1>9. CASE Signal \/ WaitReturns \/ UNCHANGED vars
  BY <1>9, NothingMovesKeeps DEF Signal, WaitReturns, vars, lcoreVars, nicVars
<1>10. CASE StopDevice
  <2>1. /\ config' = config /\ UNCHANGED <<held, step>> /\ main = "exit"
        /\ free' = free \union UNION {Ran(ring[l]) \union posted[l] : l \in Lcores}
        /\ ring' = [l \in Lcores |-> <<>>] /\ posted' = [l \in Lcores |-> {}]
    BY <1>10 DEF StopDevice, lcoreVars
  <2>2. Mbuf' = Mbuf
    BY <2>1, ConfigKept
  <2>3. \A l \in Lcores : step[l] = "done" /\ held[l] = <<>> /\ Ran(held[l]) = {}
    BY <2>1, EmptyRan DEF IInv, Roles
  <2>4. \A l \in Lcores : Has(l)' = {} /\ Has(l) \subseteq free'
    BY <2>1, <2>3, EmptyRan DEF Has
  <2>5. Conserved'
    BY <2>1, <2>2, <2>4 DEF Filling, Conserved
  <2>6. \A l \in Lcores : Sizes(l)'
    BY <2>1, <2>3, FS_EmptySet, SizesAssumption DEF Sizes
  <2> QED BY <2>4, <2>5, <2>6 DEF Filling
<1> QED BY <1>1, <1>2, <1>3, <1>4, <1>5, <1>6, <1>7, <1>8, <1>9, <1>10 DEF Next, Lcore

(***************************************************************************)
(* Counting: a pool with enough mbufs is not empty when a client asks.     *)
(***************************************************************************)

\* the i-th mbuf of the ring of l, counting the posted ones behind the others
InRing(l, i) ==
  IF i <= Len(ring[l]) THEN ring[l][i]
  ELSE (CHOOSE f : f \in Bijection(1 .. Cardinality(posted[l]), posted[l]))[i - Len(ring[l])]

LEMMA RingCovered ==
  ASSUME IInv, Filling, NEW l \in Lcores, NEW m \in posted[l] \union Ran(ring[l])
  PROVE  \E i \in 1 .. RingSize : InRing(l, i) = m
<1>1. ring[l] \in Seq(Mbuf) /\ Len(ring[l]) \in Nat /\ DOMAIN ring[l] = 1 .. Len(ring[l])
  BY Places DEF IInv
<1>2. IsFiniteSet(posted[l]) /\ Cardinality(posted[l]) + Len(ring[l]) <= RingSize
  BY DEF Filling, Sizes
<1> DEFINE n == Cardinality(posted[l])
           f == CHOOSE g : g \in Bijection(1 .. n, posted[l])
<1>3. n \in Nat /\ RingSize \in Nat
  BY <1>2, FS_CardinalityType, SizesAssumption
<1>4. CASE m \in Ran(ring[l])
  <2>1. PICK i \in 1 .. Len(ring[l]) : ring[l][i] = m
    BY <1>1, <1>4 DEF Ran
  <2>2. i \in 1 .. RingSize /\ i <= Len(ring[l])
    BY <1>1, <1>2, <1>3, <2>1
  <2> QED BY <2>1, <2>2 DEF InRing
<1>5. CASE m \in posted[l]
  <2>1. f \in Bijection(1 .. n, posted[l])
    BY <1>2, FS_CardinalityType DEF ExistsBijection
  <2>2. PICK i \in 1 .. n : f[i] = m
    BY <1>5, <2>1 DEF Bijection, Surjection
  <2> HIDE DEF f, n
  <2>3. i + Len(ring[l]) \in 1 .. RingSize /\ ~(i + Len(ring[l]) <= Len(ring[l]))
        /\ (i + Len(ring[l])) - Len(ring[l]) = i
    BY <1>1, <1>2, <1>3, <2>2 DEF n
  <2>4. InRing(l, i + Len(ring[l])) = f[i]
    BY <2>3 DEF InRing, f, n
  <2> QED BY <2>2, <2>3, <2>4
<1> QED BY <1>4, <1>5

\* what all the rings hold together
LEMMA RingsHold ==
  ASSUME IInv, Filling
  PROVE  LET S == UNION {posted[l] \union Ran(ring[l]) : l \in Lcores}
         IN  IsFiniteSet(S) /\ Cardinality(S) <= Cardinality(Lcores) * RingSize
<1> DEFINE S == UNION {posted[l] \union Ran(ring[l]) : l \in Lcores}
           f == [p \in Lcores \X (1 .. RingSize) |-> InRing(p[1], p[2])]
<1>1. RingSize \in Nat /\ IsFiniteSet(1 .. RingSize) /\ Cardinality(1 .. RingSize) = RingSize
  BY SizesAssumption, FS_Interval
<1>2. IsFiniteSet(DOMAIN f) /\ Cardinality(DOMAIN f) = Cardinality(Lcores) * RingSize
  BY <1>1, FS_Product, LcoresAssumption
<1>3. ASSUME NEW m \in S PROVE \E p \in DOMAIN f : f[p] = m
  <2>1. PICK l \in Lcores : m \in posted[l] \union Ran(ring[l])
    OBVIOUS
  <2>2. PICK i \in 1 .. RingSize : InRing(l, i) = m
    BY <2>1, RingCovered
  <2>3. <<l, i>> \in DOMAIN f /\ f[<<l, i>>] = m
    BY <2>2
  <2> QED BY <2>3
<1> HIDE DEF f, S
<1>4. IsFiniteSet(S) /\ Cardinality(S) <= Cardinality(DOMAIN f)
  BY <1>2, <1>3, Covered
<1> QED BY <1>2, <1>4 DEF S

\* what the other clients hold while one is about to allocate
LEMMA ClientsHold ==
  ASSUME IInv, NEW l \in config.tx
  PROVE  LET S == UNION {Ran(held[k]) : k \in config.tx \ {l}}
         IN  IsFiniteSet(S) /\ Cardinality(S) <= Cardinality(config.tx) - 1
<1> DEFINE S == UNION {Ran(held[k]) : k \in config.tx \ {l}}
           f == [k \in config.tx \ {l} |-> held[k][1]]
<1>1. config.tx \subseteq Lcores /\ IsFiniteSet(config.tx)
  BY ConfigsAssumption, LcoresAssumption, FS_Subset DEF IInv, TypeOK, ConfigType
<1>2. IsFiniteSet(DOMAIN f) /\ Cardinality(DOMAIN f) = Cardinality(config.tx) - 1
  BY <1>1, FS_RemoveElement
<1>3. ASSUME NEW m \in S PROVE \E k \in DOMAIN f : f[k] = m
  <2>1. PICK k \in config.tx \ {l} : m \in Ran(held[k])
    OBVIOUS
  <2>2. k \in Lcores /\ held[k] \in Seq(Mbuf) /\ held[k] # <<>>
    BY <1>1, <2>1, Places, EmptyRan DEF IInv
  <2>3. Len(held[k]) = 1
    BY <2>1, <2>2 DEF IInv, Roles, TypeOK, Rx
  <2>4. DOMAIN held[k] = 1 .. 1
    BY <2>2, <2>3, LenProperties
  <2>5. f[k] = m
    BY <2>1, <2>4 DEF Ran
  <2> QED BY <2>5
<1> HIDE DEF f, S
<1>4. IsFiniteSet(S) /\ Cardinality(S) <= Cardinality(DOMAIN f)
  BY <1>2, <1>3, Covered
<1> QED BY <1>2, <1>4 DEF S

\* what the servers hold
LEMMA ServersHold ==
  ASSUME IInv, Filling
  PROVE  LET S == UNION {Ran(held[k]) : k \in Rx}
         IN  IsFiniteSet(S) /\ Cardinality(S) <= Cardinality(Rx) * Burst
<1> DEFINE S == UNION {Ran(held[k]) : k \in Rx}
           f == [p \in Rx \X (1 .. Burst) |-> held[p[1]][p[2]]]
<1>1. Burst \in Nat /\ IsFiniteSet(1 .. Burst) /\ Cardinality(1 .. Burst) = Burst
  BY SizesAssumption, FS_Interval
<1>2. Rx \subseteq Lcores /\ IsFiniteSet(Rx)
  BY LcoresAssumption, FS_Subset DEF Rx
<1>3. IsFiniteSet(DOMAIN f) /\ Cardinality(DOMAIN f) = Cardinality(Rx) * Burst
  BY <1>1, <1>2, FS_Product
<1>4. ASSUME NEW m \in S PROVE \E p \in DOMAIN f : f[p] = m
  <2>1. PICK k \in Rx : m \in Ran(held[k])
    OBVIOUS
  <2>2. k \in Lcores /\ held[k] \in Seq(Mbuf) /\ held[k] # <<>>
    BY <1>2, <2>1, Places, EmptyRan DEF IInv
  <2>3. step[k] = "free" /\ Len(held[k]) <= Burst
    BY <2>1, <2>2 DEF IInv, Roles, TypeOK, Rx, Filling, Sizes
  <2>4. PICK i \in 1 .. Len(held[k]) : held[k][i] = m
    BY <2>1, <2>2 DEF Ran
  <2>5. i \in 1 .. Burst
    BY <1>1, <2>2, <2>3
  <2>6. <<k, i>> \in DOMAIN f /\ f[<<k, i>>] = m
    BY <2>4, <2>5
  <2> QED BY <2>6
<1> HIDE DEF f, S
<1>5. IsFiniteSet(S) /\ Cardinality(S) <= Cardinality(DOMAIN f)
  BY <1>3, <1>4, Covered
<1> QED BY <1>3, <1>5 DEF S

LEMMA SizeOfTwo ==
  ASSUME NEW S, NEW T, IsFiniteSet(S), IsFiniteSet(T),
         NEW a \in Int, NEW b \in Int, Cardinality(S) <= a, Cardinality(T) <= b
  PROVE  IsFiniteSet(S \union T) /\ Cardinality(S \union T) <= a + b
<1>1. IsFiniteSet(S \cap T)
  BY FS_Intersection
<1>2. Cardinality(S) \in Nat /\ Cardinality(T) \in Nat /\ Cardinality(S \cap T) \in Nat
  BY <1>1, FS_CardinalityType
<1>3. /\ IsFiniteSet(S \union T)
      /\ Cardinality(S \union T) = Cardinality(S) + Cardinality(T) - Cardinality(S \cap T)
  BY FS_Union, Zenon
<1> QED BY <1>2, <1>3

\* A client that asks a pool larger than HeldBack gets an mbuf.
LEMMA PoolSuffices ==
  ASSUME IInv, Filling, NEW l \in config.tx, step[l] = "send", config.poolSize > HeldBack
  PROVE  CanAlloc(l)
<1> SUFFICES ASSUME ~CanAlloc(l) PROVE FALSE
  OBVIOUS
<1> DEFINE P == {Pool(l)} \X (1 .. config.poolSize)
           rings == UNION {posted[k] \union Ran(ring[k]) : k \in Lcores}
           clients == UNION {Ran(held[k]) : k \in config.tx \ {l}}
           servers == UNION {Ran(held[k]) : k \in Rx}
<1>1. l \in Lcores /\ config.poolSize \in Nat /\ config.tx \subseteq Lcores
  BY ConfigsAssumption DEF IInv, TypeOK, ConfigType
<1>2. held[l] = <<>> /\ Ran(held[l]) = {} /\ posted[l] = {}
  BY <1>1, EmptyRan DEF IInv, Roles
<1>3. IsFiniteSet(P) /\ Cardinality(P) = config.poolSize
  <2>1. IsFiniteSet(1 .. config.poolSize) /\ Cardinality(1 .. config.poolSize) = config.poolSize
    <3>1. PICK n \in Nat : n = config.poolSize
      BY <1>1
    <3>2. IsFiniteSet(1 .. n) /\ Cardinality(1 .. n) = n
      BY FS_Interval
    <3> QED BY <3>1, <3>2
  <2>2. IsFiniteSet({Pool(l)}) /\ Cardinality({Pool(l)}) = 1
    BY FS_Singleton
  <2>3. /\ IsFiniteSet(P)
        /\ Cardinality(P) = Cardinality({Pool(l)}) * Cardinality(1 .. config.poolSize)
    BY <2>1, <2>2, FS_Product, Zenon
  <2> QED BY <1>1, <2>1, <2>2, <2>3
<1>4. ASSUME NEW m \in P PROVE m[1] = Pool(l) /\ \E k \in Lcores : m \in Has(k)
  <2>1. m \in Mbuf /\ m[1] = Pool(l)
    BY <1>1, <1>4 DEF Mbuf, Pools
  <2>2. m \notin free
    BY <2>1 DEF CanAlloc
  <2> QED BY <2>1, <2>2 DEF Filling, Conserved
<1> HIDE DEF P
<1>5. CASE ~config.shared
  <2>1. ASSUME NEW m \in P PROVE m \in Ran(ring[l])
    <3>1. PICK k \in Lcores : m \in Has(k)
      BY <1>4
    <3>2. m[1] = k /\ m[1] = l
      BY <1>4, <1>5, <3>1 DEF Filling, Pool
    <3> QED BY <1>2, <3>1, <3>2 DEF Has
  <2>2. ring[l] \in Seq(Mbuf)
    BY <1>1, Places DEF IInv
  <2>3. \A m \in P : \E i \in DOMAIN ring[l] : ring[l][i] = m
    BY <2>1 DEF Ran
  <2>4. DOMAIN ring[l] = 1 .. Len(ring[l]) /\ Len(ring[l]) \in Nat
    BY <2>2
  <2>5. IsFiniteSet(DOMAIN ring[l]) /\ Cardinality(DOMAIN ring[l]) = Len(ring[l])
    BY <2>4, FS_Interval
  <2>6. config.poolSize <= Len(ring[l])
    BY <1>3, <2>3, <2>5, Covered
  <2>7. Cardinality(posted[l]) + Len(ring[l]) <= RingSize /\ Cardinality(posted[l]) = 0
    BY <1>1, <1>2, FS_EmptySet DEF Filling, Sizes
  <2> QED BY <1>1, <1>5, <2>4, <2>6, <2>7, SizesAssumption DEF HeldBack
<1>6. CASE config.shared
  <2>1. ASSUME NEW m \in P PROVE m \in (rings \union clients) \union servers
    <3>1. PICK k \in Lcores : m \in Has(k)
      BY <1>4
    <3>2. CASE m \in posted[k] \union Ran(ring[k])
      BY <3>2
    <3>3. CASE m \in Ran(held[k])
      <4>1. k # l
        BY <1>2, <3>3
      <4> QED BY <3>3, <4>1 DEF Rx
    <3> QED BY <3>1, <3>2, <3>3 DEF Has
  <2>2. IsFiniteSet(rings) /\ Cardinality(rings) <= Cardinality(Lcores) * RingSize
    BY RingsHold
  <2>3. IsFiniteSet(clients) /\ Cardinality(clients) <= Cardinality(config.tx) - 1
    BY ClientsHold
  <2>4. IsFiniteSet(servers) /\ Cardinality(servers) <= Cardinality(Rx) * Burst
    BY ServersHold
  <2> HIDE DEF rings, clients, servers
  <2>5. /\ Cardinality(Lcores) \in Nat /\ Cardinality(config.tx) \in Nat
        /\ Cardinality(Rx) \in Nat
    <3>1. IsFiniteSet(config.tx) /\ IsFiniteSet(Rx)
      BY <1>1, LcoresAssumption, FS_Subset DEF Rx
    <3> QED BY <3>1, LcoresAssumption, FS_CardinalityType
  <2>6. PICK a \in Nat, b \in Nat : a = Cardinality(Lcores) * RingSize /\ b = Cardinality(Rx) * Burst
    BY <2>5, SizesAssumption
  <2>7. PICK c \in Int : c = Cardinality(config.tx) - 1
    BY <2>5
  <2>8. IsFiniteSet(rings \union clients) /\ Cardinality(rings \union clients) <= a + c
    <3>1. Cardinality(rings) <= a /\ Cardinality(clients) <= c /\ a \in Int
      BY <2>2, <2>3, <2>6, <2>7
    <3> QED BY <2>2, <2>3, <3>1, SizeOfTwo, Zenon
  <2>9. /\ IsFiniteSet((rings \union clients) \union servers)
        /\ Cardinality((rings \union clients) \union servers) <= (a + c) + b
    <3>1. Cardinality(servers) <= b /\ a + c \in Int /\ b \in Int
      BY <2>4, <2>6, <2>7
    <3> QED BY <2>4, <2>8, <3>1, SizeOfTwo, Zenon
  <2>10. config.poolSize <= Cardinality((rings \union clients) \union servers)
         /\ Cardinality((rings \union clients) \union servers) \in Nat
    <3>1. P \subseteq (rings \union clients) \union servers
      BY <2>1
    <3> QED BY <1>3, <2>9, <3>1, FS_Subset, FS_CardinalityType
  <2>11. HeldBack = a + c + b
    <3>1. HeldBack = a + Cardinality(config.tx) - 1 + b
      BY <1>6, <2>6 DEF HeldBack
    <3> QED BY <2>5, <2>6, <2>7, <3>1
  <2> QED BY <1>1, <2>6, <2>7, <2>9, <2>10, <2>11
<1> QED BY <1>5, <1>6

\* a client whose pool is large enough leaves its loop with every packet handed over
AllHandedOver ==
  config.poolSize > HeldBack /\ ~config.routed =>
    \A l \in config.tx : /\ step[l] = "entry" => count[l] = 0
                         /\ step[l] = "done" => count[l] = config.packets

LEMMA NextAllHandedOver ==
  ASSUME IInv, Filling, AllHandedOver, [Next]_vars
  PROVE  AllHandedOver'
<1>1. config' = config
  BY DEF Next, Lcore, Enter, EnterRouted, Fill, Transmit, ClientReturns, Receive, FreeMbuf,
         ServerReturns, NicSends, NicPosts, NicReceives, Signal, WaitReturns, StopDevice, vars
<1>2. HeldBack' = HeldBack
  BY <1>1, ConfigKept DEF HeldBack
<1> SUFFICES ASSUME config.poolSize > HeldBack, ~config.routed, NEW l \in config.tx
             PROVE  /\ step'[l] = "entry" => count'[l] = 0
                    /\ step'[l] = "done" => count'[l] = config.packets
  BY <1>1, <1>2 DEF AllHandedOver
<1>3. l \in Lcores /\ l \notin Rx /\ config.packets \in Nat
  BY ConfigsAssumption DEF IInv, TypeOK, ConfigType, Rx
<1>4. step[l] = "entry" => count[l] = 0
  BY DEF AllHandedOver
<1>5. step[l] = "done" => count[l] = config.packets
  BY DEF AllHandedOver
<1>6. CASE UNCHANGED <<step, count>>
  BY <1>4, <1>5, <1>6
<1>7. ASSUME NEW k \in Lcores, Lcore(k), k # l PROVE step'[l] = step[l] /\ count'[l] = count[l]
  BY <1>3, <1>7 DEF Lcore, Enter, EnterRouted, Fill, Transmit, ClientReturns, Receive, FreeMbuf,
                    ServerReturns, Goto, IInv, TypeOK
<1>8. CASE Enter(l)
  <2>1. /\ step' = [step EXCEPT ![l] = IF config.packets > 0 THEN "send" ELSE "done"]
        /\ step[l] = "entry" /\ count' = count
    BY <1>3, <1>8 DEF Enter, Goto
  <2> QED BY <1>3, <1>4, <2>1 DEF IInv, TypeOK
<1>9. CASE EnterRouted(l)
  BY <1>9 DEF EnterRouted
<1>10. CASE Fill(l)
  <2>1. step' = [step EXCEPT ![l] = "burst"]
    BY <1>10 DEF Fill, Goto
  <2> QED BY <1>3, <2>1 DEF IInv, TypeOK
<1>11. CASE Transmit(l)
  <2>1. step' = [step EXCEPT ![l] = "send"]
    BY <1>11 DEF Transmit, Goto
  <2> QED BY <1>3, <2>1 DEF IInv, TypeOK
<1>12. CASE ClientReturns(l)
  <2>1. step' = [step EXCEPT ![l] = "done"] /\ step[l] = "send" /\ count' = count
        /\ (count[l] = config.packets \/ ~CanAlloc(l))
    BY <1>12 DEF ClientReturns, Goto
  <2>2. CanAlloc(l)
    BY <2>1, PoolSuffices
  <2> QED BY <1>3, <2>1, <2>2 DEF IInv, TypeOK
<1>13. ~(\E n \in 1 .. Burst : Receive(l, n)) /\ ~FreeMbuf(l) /\ ~ServerReturns(l)
  BY <1>3 DEF Receive, FreeMbuf, ServerReturns, IInv, Roles
<1>14. CASE Lcore(l)
  BY <1>8, <1>9, <1>10, <1>11, <1>12, <1>13, <1>14 DEF Lcore
<1>15. ASSUME NEW k \in Lcores, Lcore(k)
       PROVE  /\ step'[l] = "entry" => count'[l] = 0
              /\ step'[l] = "done" => count'[l] = config.packets
  <2>1. CASE k = l
    BY <1>14, <1>15, <2>1
  <2>2. CASE k # l
    BY <1>4, <1>5, <1>7, <1>15, <2>2
  <2> QED BY <2>1, <2>2
<1>16. CASE \/ \E k \in Lcores : NicSends(k) \/ NicPosts(k) \/ NicReceives(k)
            \/ Signal \/ WaitReturns \/ StopDevice \/ UNCHANGED vars
  BY <1>6, <1>16 DEF NicSends, NicPosts, NicReceives, Signal, WaitReturns, StopDevice,
                     vars, lcoreVars
<1> QED BY <1>15, <1>16 DEF Next

LEMMA InitFilling == Init => Filling /\ AllHandedOver
<1> SUFFICES ASSUME Init PROVE Filling /\ AllHandedOver
  OBVIOUS
<1>1. \A l \in Lcores : Has(l) = {}
  BY EmptyRan DEF Init, Has
<1>2. \A l \in Lcores : Sizes(l)
  BY FS_EmptySet, SizesAssumption DEF Init, Sizes
<1>3. Filling
  BY <1>1, <1>2 DEF Init, Filling, Conserved
<1>4. AllHandedOver
  BY ConfigsAssumption DEF Init, AllHandedOver, ConfigType
<1> QED BY <1>3, <1>4

LEMMA AlwaysFilling == Spec => [](IInv /\ Filling /\ AllHandedOver)
BY InitIInv, InitFilling, NextIInv, NextFilling, NextAllHandedOver, PTL DEF Spec

\* No mbuf is lost, whatever is retried or cut short by a signal: each is in a pool,
\* with an lcore or in a ring, and once the device has stopped all are in the pools
\* (stopEna frees those only when it gets them back).
THEOREM NoMbufIsLost == Spec => [](Conserved /\ (main = "stopped" => free = Mbuf))
<1>1. IInv /\ Filling => Conserved /\ (main = "stopped" => free = Mbuf)
  <2> SUFFICES ASSUME IInv, Filling, main = "stopped" PROVE free = Mbuf
    BY DEF Filling
  <2>1. \A l \in Lcores : held[l] = <<>> /\ ring[l] = <<>> /\ posted[l] = {}
    BY DEF IInv, Roles
  <2>2. \A l \in Lcores : Has(l) = {}
    BY <2>1, EmptyRan DEF Has
  <2>3. UNION {Has(l) : l \in Lcores} = {}
    BY <2>2
  <2> QED BY <2>3 DEF Filling, Conserved, IInv, TypeOK
<1> QED BY AlwaysFilling, <1>1, PTL

\* The function of a client whose pool has more mbufs than rings and lcores can hold
\* back returns only with all its packets handed to the NIC (clientMainLoop).
THEOREM LargePoolsSuffice == Spec => []ClientSendsAll
<1>1. AllHandedOver => ClientSendsAll
  BY DEF AllHandedOver, ClientSendsAll
<1> QED BY AlwaysFilling, <1>1, PTL

(***************************************************************************)
(* How the lcores come to their end.                                       *)
(***************************************************************************)

\* the steps l still has when no more bursts are taken: two per packet for a client,
\* one per mbuf it holds for a server
LeftOf(l) ==
  IF step[l] = "entry" THEN 2 * config.packets + 2
  ELSE IF step[l] = "send" THEN 2 * (config.packets - count[l]) + 1
  ELSE IF step[l] = "burst" THEN 2 * (config.packets - count[l])
  ELSE IF step[l] = "free" THEN Len(held[l]) + 1
  ELSE IF step[l] = "listen" THEN 1 ELSE 0

\* no client goes past its packet count
Budget ==
  \A l \in Lcores : /\ count[l] <= config.packets
                    /\ step[l] = "entry" => count[l] = 0
                    /\ step[l] = "burst" => count[l] < config.packets

\* After a signal every step of an lcore brings it nearer to its end, and no step of
\* another lcore, of main() or of the NIC sets it back.
SignalRunsDown ==
  [][terminate => \A l \in Lcores : /\ Lcore(l) => LeftOf(l)' < LeftOf(l)
                                    /\ Lcore(l) \/ LeftOf(l)' = LeftOf(l)]_vars

\* An action of l has its guard, or its ring is full of mbufs the NIC sends.
CanGoOn(l) ==
  \/ step[l] = "entry"
  \/ step[l] = "send" /\ count[l] < config.packets /\ CanAlloc(l)
  \/ step[l] = "send" /\ (count[l] = config.packets \/ ~CanAlloc(l))
  \/ step[l] = "burst" /\ (Len(ring[l]) < RingSize \/ (l \in config.tx /\ ring[l] # <<>>))
  \/ step[l] = "free" /\ held[l] # <<>>
  \/ step[l] = "listen" /\ terminate

\* No lcore stands for ever but a server nobody has sent a signal.
NobodyStands ==
  \A l \in Lcores : \/ step[l] = "done" \/ CanGoOn(l)
                    \/ step[l] = "listen" /\ ~terminate

LEMMA BudgetTypes ==
  ASSUME IInv, Budget, NEW l \in Lcores
  PROVE  /\ config.packets \in Nat /\ count[l] \in Nat /\ Len(held[l]) \in Nat
         /\ config.packets - count[l] \in Nat /\ LeftOf(l) \in Nat
<1>1. config.packets \in Nat /\ count[l] \in Nat /\ held[l] \in Seq(Mbuf)
  BY ConfigsAssumption DEF IInv, TypeOK, ConfigType
<1>2. Len(held[l]) \in Nat
  BY <1>1
<1>3. config.packets - count[l] \in Nat
  BY <1>1 DEF Budget
<1>4. /\ 2 * config.packets + 2 \in Nat /\ 2 * (config.packets - count[l]) \in Nat
      /\ 2 * (config.packets - count[l]) + 1 \in Nat /\ Len(held[l]) + 1 \in Nat
  <2>1. \A m \in Nat : 2 * m \in Nat /\ 2 * m + 2 \in Nat /\ 2 * m + 1 \in Nat /\ m + 1 \in Nat
    OBVIOUS
  <2> QED BY <1>1, <1>2, <1>3, <2>1, Zenon
<1>5. LeftOf(l) \in Nat
  <2> DEFINE A == 2 * config.packets + 2
             B == 2 * (config.packets - count[l]) + 1
             C == 2 * (config.packets - count[l])
             D == Len(held[l]) + 1
  <2>1. A \in Nat /\ B \in Nat /\ C \in Nat /\ D \in Nat /\ 0 \in Nat /\ 1 \in Nat
    BY <1>4
  <2>2. LeftOf(l) = IF step[l] = "entry" THEN A ELSE IF step[l] = "send" THEN B
                    ELSE IF step[l] = "burst" THEN C ELSE IF step[l] = "free" THEN D
                    ELSE IF step[l] = "listen" THEN 1 ELSE 0
    BY DEF LeftOf
  <2> HIDE DEF A, B, C, D
  <2>3. LeftOf(l) \in {A, B, C, D, 0, 1}
    BY <2>2, Zenon
  <2> QED BY <2>1, <2>3
<1> QED BY <1>1, <1>2, <1>3, <1>5

\* What a step of an lcore makes of its count and of what it has left.
LEMMA LcoreBudget ==
  ASSUME IInv, Budget, NEW l \in Lcores, Lcore(l)
  PROVE  Budget' /\ (terminate => LeftOf(l)' < LeftOf(l))
         /\ \A k \in Lcores \ {l} : LeftOf(k)' = LeftOf(k)
<1>1. /\ config.packets \in Nat /\ count[l] \in Nat /\ Len(held[l]) \in Nat
      /\ config.packets - count[l] \in Nat /\ held[l] \in Seq(Mbuf)
      /\ count \in [Lcores -> Nat] /\ DOMAIN step = Lcores /\ DOMAIN held = Lcores
  BY BudgetTypes DEF IInv, TypeOK
<1>2. /\ config' = config /\ \A k \in Lcores \ {l} :
           step'[k] = step[k] /\ count'[k] = count[k] /\ held'[k] = held[k]
  BY DEF IInv, TypeOK, Lcore, Enter, EnterRouted, Fill, Transmit, ClientReturns, Receive, FreeMbuf,
         ServerReturns, Goto
<1>3. count[l] <= config.packets /\ (step[l] = "entry" => count[l] = 0)
      /\ (step[l] = "burst" => count[l] < config.packets)
  BY DEF Budget
<1>4. /\ count'[l] \in Nat /\ count'[l] <= config.packets /\ step'[l] # "entry"
      /\ step'[l] = "burst" => count'[l] < config.packets
      /\ terminate => LeftOf(l)' < LeftOf(l)
  <2>1. CASE Enter(l) \/ EnterRouted(l)
    <3>1. step[l] = "entry" /\ step'[l] \in {"listen", "send", "done"} /\ count'[l] = count[l]
      BY <1>1, <2>1 DEF Enter, EnterRouted, Goto
    <3> QED BY <1>1, <1>2, <1>3, <3>1 DEF LeftOf
  <2>2. CASE Fill(l)
    <3>1. step[l] = "send" /\ step'[l] = "burst" /\ count'[l] = count[l] /\ count[l] < config.packets
      BY <1>1, <2>2 DEF Fill, Goto
    <3> QED BY <1>1, <1>2, <1>3, <3>1 DEF LeftOf
  <2>3. CASE Transmit(l)
    <3>1. step[l] = "burst" /\ step'[l] = "send" /\ count'[l] = count[l] + 1
      BY <1>1, <2>3 DEF Transmit, Goto
    <3> QED BY <1>1, <1>2, <1>3, <3>1 DEF LeftOf
  <2>4. CASE ClientReturns(l)
    <3>1. step[l] = "send" /\ step'[l] = "done" /\ count'[l] = count[l]
      BY <1>1, <2>4 DEF ClientReturns, Goto
    <3> QED BY <1>1, <1>2, <1>3, <3>1 DEF LeftOf
  <2>5. CASE \E n \in 1 .. Burst : Receive(l, n)
    <3>1. step[l] = "listen" /\ step'[l] = "free" /\ count'[l] = count[l] /\ ~terminate
      BY <1>1, <2>5 DEF Receive, Goto
    <3> QED BY <1>1, <1>3, <3>1
  <2>6. CASE FreeMbuf(l)
    <3>1. /\ step[l] = "free" /\ held[l] # <<>> /\ count'[l] = count[l] /\ held'[l] = Tail(held[l])
          /\ step'[l] = IF Len(held[l]) = 1 THEN "listen" ELSE "free"
      BY <1>1, <2>6 DEF FreeMbuf, Goto, IInv, Roles
    <3>2. Len(held[l]) \in Nat \ {0} /\ Len(Tail(held[l])) = Len(held[l]) - 1
      BY <1>1, <3>1
    <3>3. LeftOf(l) = Len(held[l]) + 1
      BY <3>1 DEF LeftOf
    <3>4. LeftOf(l)' = Len(held[l])
      <4>1. Len(held'[l]) = Len(held[l]) - 1
        BY <3>1, <3>2
      <4>2. LeftOf(l)' = IF step'[l] = "free" THEN Len(held'[l]) + 1 ELSE 1
        BY <3>1 DEF LeftOf
      <4>3. CASE Len(held[l]) = 1
        BY <3>1, <4>2, <4>3
      <4>4. CASE Len(held[l]) # 1
        <5>1. LeftOf(l)' = Len(held'[l]) + 1
          BY <3>1, <4>2, <4>4
        <5> QED BY <3>2, <4>1, <5>1
      <4> QED BY <4>3, <4>4
    <3> QED BY <1>1, <1>3, <3>1, <3>2, <3>3, <3>4
  <2>7. CASE ServerReturns(l)
    <3>1. step[l] = "listen" /\ step'[l] = "done" /\ count'[l] = count[l]
      BY <1>1, <2>7 DEF ServerReturns, Goto
    <3> QED BY <1>1, <1>2, <1>3, <3>1 DEF LeftOf
  <2> QED BY <2>1, <2>2, <2>3, <2>4, <2>5, <2>6, <2>7 DEF Lcore
<1>5. Budget'
  BY <1>2, <1>4 DEF Budget
<1>6. \A k \in Lcores \ {l} : LeftOf(k)' = LeftOf(k)
  BY <1>2 DEF LeftOf
<1> QED BY <1>4, <1>5, <1>6

\* Neither main() nor the NIC takes or gives an lcore a step.
LEMMA OthersBudget ==
  ASSUME Budget, [Next]_vars, ~\E l \in Lcores : Lcore(l)
  PROVE  Budget' /\ \A l \in Lcores : LeftOf(l)' = LeftOf(l)
<1>1. UNCHANGED <<config, step, count, held>>
  BY DEF Next, NicSends, NicPosts, NicReceives, Signal, WaitReturns, StopDevice, vars, lcoreVars
<1> QED BY <1>1 DEF Budget, LeftOf

LEMMA AlwaysBudget == Spec => [](IInv /\ Budget)
<1>1. Init => Budget
  BY ConfigsAssumption DEF Init, Budget, ConfigType
<1>2. IInv /\ Budget /\ [Next]_vars => Budget'
  BY LcoreBudget, OthersBudget
<1> QED BY InitIInv, NextIInv, <1>1, <1>2, PTL DEF Spec

\* A signal is a promise: each lcore then has a number of steps left that its packets or
\* the burst it holds fix, and only its own steps use them up (clientMainLoop,
\* serverMainLoop).
THEOREM LcoresRunDown == Spec => [](\A l \in Lcores : LeftOf(l) \in Nat) /\ SignalRunsDown
<1>1. IInv /\ Budget => \A l \in Lcores : LeftOf(l) \in Nat
  BY BudgetTypes
<1>2. IInv /\ Budget /\ [Next]_vars
        => [terminate => \A l \in Lcores : /\ Lcore(l) => LeftOf(l)' < LeftOf(l)
                                           /\ Lcore(l) \/ LeftOf(l)' = LeftOf(l)]_vars
  <2> SUFFICES ASSUME IInv, Budget, [Next]_vars, NEW l \in Lcores, ~Lcore(l)
               PROVE  LeftOf(l)' = LeftOf(l)
    BY LcoreBudget
  <2>1. CASE \E k \in Lcores : Lcore(k)
    BY <2>1, LcoreBudget
  <2>2. CASE ~\E k \in Lcores : Lcore(k)
    BY <2>2, OthersBudget
  <2> QED BY <2>1, <2>2
<1> QED BY AlwaysBudget, <1>1, <1>2, PTL DEF SignalRunsDown, Spec

\* An lcore that has not returned can go on, or it is a server still waiting for a
\* signal: neither an empty pool nor a full ring makes it stand for ever.
THEOREM LcoresGoOn == Spec => []NobodyStands
<1>1. ASSUME IInv, Budget PROVE NobodyStands
  <2> SUFFICES ASSUME NEW l \in Lcores, step[l] # "done", ~(step[l] = "listen" /\ ~terminate)
               PROVE  CanGoOn(l)
    BY DEF NobodyStands
  <2>1. /\ step[l] \in {"entry", "send", "burst", "listen", "free", "done"}
        /\ terminate \in BOOLEAN /\ count[l] \in Nat /\ config.packets \in Nat
        /\ count[l] <= config.packets
    BY <1>1, BudgetTypes DEF IInv, TypeOK, Budget
  <2>2. CASE step[l] = "burst"
    <3>1. l \in config.tx
      BY <1>1, <2>2 DEF IInv, Roles
    <3>2. Len(ring[l]) < RingSize \/ ring[l] # <<>>
      <4>1. ring[l] = <<>> => Len(ring[l]) = 0
        OBVIOUS
      <4> QED BY <4>1, SizesAssumption
    <3> QED BY <2>2, <3>1, <3>2 DEF CanGoOn
  <2>3. CASE step[l] = "send"
    BY <2>1, <2>3 DEF CanGoOn
  <2>4. CASE step[l] = "free"
    BY <1>1, <2>4 DEF IInv, Roles, CanGoOn
  <2>5. CASE step[l] \in {"entry", "listen"}
    BY <2>5 DEF CanGoOn
  <2> QED BY <2>1, <2>2, <2>3, <2>4, <2>5
<1> QED BY <1>1, AlwaysBudget, PTL
=============================================================================
