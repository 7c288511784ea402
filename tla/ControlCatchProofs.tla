-------------------------- MODULE ControlCatchProofs --------------------------
(***************************************************************************)
(* Control implements Catch: whatever leaves a catch frame leaves it for    *)
(* the innermost one that takes the tag or the error.                       *)
(***************************************************************************)
EXTENDS ControlProofs

LEMMA RangeInduction ==
  ASSUME NEW lo \in Nat, NEW hi \in Nat, NEW S, lo \in S,
         \A n \in lo .. hi : n \in S /\ n < hi => n + 1 \in S
  PROVE  \A n \in lo .. hi : n \in S
<1> DEFINE Out == {n \in lo .. hi : n \notin S}
<1>1. SUFFICES ASSUME Out # {} PROVE FALSE
  OBVIOUS
<1>2. Out \subseteq Nat
  OBVIOUS
<1>3. PICK n \in Out : \A m \in Out : n <= m
  <2> HIDE DEF Out
  <2>1. QED
    BY <1>1, <1>2, LeastOf
<1>4. n \in lo .. hi /\ n \notin S /\ n # lo
  OBVIOUS
<1>5. n - 1 \in lo .. hi /\ n - 1 < hi /\ (n - 1) + 1 = n /\ ~(n <= n - 1)
  BY <1>4
<1>6. n - 1 \in S
  BY <1>3, <1>5
<1>7. QED
  BY <1>4, <1>5, <1>6

-----------------------------------------------------------------------------
(* The tags of the catch frames of a stack.  counts says that f gives them  *)
(* for the stack's first n activations, for every n.                        *)
CountStep(f, s, n) ==
  IF n = 0 THEN <<>>
  ELSE IF s[n].fn = "catch" THEN Append(f[n - 1], s[n].tag)
  ELSE f[n - 1]
Counted(f, s, k) == [n \in 0 .. k |-> CountStep(f, s, n)]
Counts(f, s, k) == \A n \in 0 .. k : f[n] = CountStep(f, s, n)

LEMMA CountExists ==
  ASSUME NEW s, NEW k \in Nat
  PROVE  \E f : f = Counted(f, s, k)
<1> DEFINE Step(f, n) == CountStep(f, s, n)
           Def(f, m) == f = Counted(f, s, m)
           S == {m \in 0 .. k : \E f : Def(f, m)}
<1>1. 0 \in S
  <2> DEFINE g == [n \in 0 .. 0 |-> <<>>]
  <2>1. \A n \in 0 .. 0 : Step(g, n) = <<>>
    BY DEF CountStep
  <2>2. Def(g, 0)
    BY <2>1 DEF Counted
  <2>3. 0 \in 0 .. k /\ \E f : Def(f, 0)
    <3> HIDE DEF Def, g
    <3>1. QED
      BY <2>2
  <2>4. QED
    BY <2>3
<1>2. ASSUME NEW m \in 0 .. k, m \in S /\ m < k PROVE m + 1 \in S
  <2>1. PICK f : Def(f, m)
    BY <1>2
  <2> DEFINE g == [n \in 0 .. m + 1 |-> IF n = m + 1 THEN Step(f, m + 1) ELSE f[n]]
  <2>2. m \in Nat /\ m + 1 \in 0 .. k
    BY <1>2
  <2>3. ASSUME NEW n \in 0 .. m + 1 PROVE g[n] = Step(g, n)
    <3>1. n # 0 => n - 1 \in 0 .. m /\ n - 1 \in 0 .. m + 1 /\ n - 1 # m + 1
      BY <2>2
    <3>2. n # 0 => g[n - 1] = f[n - 1]
      BY <3>1
    <3>3. Step(g, n) = Step(f, n)
      BY <3>2 DEF CountStep
    <3>4. CASE n = m + 1
      BY <3>3, <3>4
    <3>5. CASE n # m + 1
      <4>1. n \in 0 .. m
        BY <2>2, <3>5
      <4>2. f[n] = Step(f, n)
        BY <2>1, <4>1 DEF Counted
      <4>3. g[n] = f[n]
        BY <3>5
      <4>4. QED
        BY <3>3, <4>2, <4>3
    <3>6. QED
      BY <3>4, <3>5
  <2>4. g = [n \in 0 .. m + 1 |-> g[n]]
    OBVIOUS
  <2>5. Def(g, m + 1)
    <3> HIDE DEF g
    <3>1. QED
      BY <2>3, <2>4 DEF Counted
  <2>6. \E h : Def(h, m + 1)
    <3> HIDE DEF Def, g
    <3>1. QED
      BY <2>5
  <2>7. QED
    BY <2>2, <2>6
<1>3. k \in S
  <2> HIDE DEF S
  <2>1. QED
    BY <1>1, <1>2, RangeInduction
<1>4. QED
  BY <1>3

LEMMA InForceCounts ==
  ASSUME NEW s \in Seq(Activations)
  PROVE  \E f : Counts(f, s, Len(s)) /\ InForce(s) = f[Len(s)]
<1> DEFINE Def(f) == Counted(f, s, Len(s))
           tags == CHOOSE f : f = Def(f)
<1>1. Len(s) \in Nat
  BY LenProperties
<1>2. \E f : f = Def(f)
  BY <1>1, CountExists
<1>3. tags = Def(tags)
  <2> HIDE DEF Def
  <2>1. QED
    BY <1>2
<1>4. InForce(s) = tags[Len(s)]
  BY DEF InForce, Counted, CountStep
<1>5. Counts(tags, s, Len(s))
  <2> HIDE DEF tags
  <2>1. QED
    BY <1>3 DEF Counts, Counted
<1>6. QED
  BY <1>4, <1>5

(* Stacks that agree on their catch frames have the same ones in force.     *)
AlikeAt(s, t, i) == t[i].fn = s[i].fn /\ (s[i].fn = "catch" => t[i].tag = s[i].tag)

LEMMA CountsAgree ==
  ASSUME NEW s, NEW t, NEW f, NEW g, NEW k \in Nat, Counts(f, s, k), Counts(g, t, k),
         \A i \in 1 .. k : AlikeAt(s, t, i)
  PROVE  \A n \in 0 .. k : f[n] = g[n]
<1> DEFINE S == {n \in 0 .. k : f[n] = g[n]}
<1>1. 0 \in S
  BY DEF Counts, CountStep
<1>2. ASSUME NEW n \in 0 .. k, n \in S /\ n < k PROVE n + 1 \in S
  <2>1. n + 1 \in 0 .. k /\ n + 1 # 0 /\ (n + 1) - 1 = n /\ n + 1 \in 1 .. k /\ f[n] = g[n]
    BY <1>2
  <2>2. f[n + 1] = IF s[n + 1].fn = "catch" THEN Append(f[n], s[n + 1].tag) ELSE f[n]
    BY <2>1 DEF Counts, CountStep
  <2>3. g[n + 1] = IF t[n + 1].fn = "catch" THEN Append(g[n], t[n + 1].tag) ELSE g[n]
    BY <2>1 DEF Counts, CountStep
  <2>4. AlikeAt(s, t, n + 1)
    BY <2>1
  <2>5. QED
    BY <2>1, <2>2, <2>3, <2>4 DEF AlikeAt
<1>3. \A n \in 0 .. k : n \in S
  <2> HIDE DEF S
  <2>1. QED
    BY <1>1, <1>2, RangeInduction
<1>4. QED
  BY <1>3

(* The handlers in force below position n. *)
Below(s, n) == InForce(SubSeq(s, 1, n))

LEMMA PrefixFacts ==
  ASSUME NEW s \in Seq(Activations), NEW l \in 0 .. Len(s)
  PROVE  /\ SubSeq(s, 1, l) \in Seq(Activations) /\ Len(SubSeq(s, 1, l)) = l /\ Len(s) \in Nat /\ l \in Nat
         /\ \A i \in 1 .. l : SubSeq(s, 1, l)[i] = s[i] /\ s[i] \in Activations
<1>1. Len(s) \in Nat /\ l \in Int /\ \A i \in 1 .. l : s[i] \in Activations
  BY LenProperties, ElementOfSeq
<1>2. /\ SubSeq(s, 1, l) \in Seq(Activations) /\ Len(SubSeq(s, 1, l)) = IF 1 <= l THEN l - 1 + 1 ELSE 0
      /\ \A i \in 1 .. l - 1 + 1 : SubSeq(s, 1, l)[i] = s[1 + i - 1]
  BY <1>1, SubSeqProperties
<1>3. QED
  BY <1>1, <1>2

LEMMA BelowCounts ==
  ASSUME NEW s \in Seq(Activations)
  PROVE  /\ Below(s, 0) = <<>>
         /\ \A n \in 1 .. Len(s) :
              Below(s, n) = IF s[n].fn = "catch" THEN Append(Below(s, n - 1), s[n].tag) ELSE Below(s, n - 1)
         /\ InForce(s) = Below(s, Len(s))
<1>1. PICK f : Counts(f, s, Len(s)) /\ InForce(s) = f[Len(s)]
  BY InForceCounts
<1>2. Len(s) \in Nat
  BY LenProperties
<1>3. ASSUME NEW n \in 0 .. Len(s) PROVE Below(s, n) = f[n]
  <2> DEFINE t == SubSeq(s, 1, n)
  <2>1. t \in Seq(Activations) /\ Len(t) = n /\ n \in Nat /\ \A i \in 1 .. n : t[i] = s[i]
    BY PrefixFacts
  <2> HIDE DEF t
  <2>2. PICK g : Counts(g, t, Len(t)) /\ InForce(t) = g[Len(t)]
    BY <2>1, InForceCounts
  <2>3. Counts(f, s, n) /\ Counts(g, t, n)
    BY <1>1, <1>2, <2>1, <2>2 DEF Counts
  <2>4. \A i \in 1 .. n : AlikeAt(s, t, i)
    BY <2>1 DEF AlikeAt
  <2>5. f[n] = g[n]
    BY <2>1, <2>3, <2>4, CountsAgree
  <2>6. QED
    BY <2>1, <2>2, <2>5 DEF Below, t
<1>4. ASSUME NEW n \in 1 .. Len(s)
      PROVE  Below(s, n) = IF s[n].fn = "catch" THEN Append(Below(s, n - 1), s[n].tag) ELSE Below(s, n - 1)
  <2>1. n \in 0 .. Len(s) /\ n - 1 \in 0 .. Len(s) /\ n # 0
    BY <1>2
  <2>2. f[n] = IF s[n].fn = "catch" THEN Append(f[n - 1], s[n].tag) ELSE f[n - 1]
    BY <1>1, <2>1 DEF Counts, CountStep
  <2>3. QED
    BY <1>3, <2>1, <2>2
<1>5. f[0] = <<>> /\ 0 \in 0 .. Len(s) /\ Len(s) \in 0 .. Len(s)
  BY <1>1, <1>2 DEF Counts, CountStep
<1>6. QED
  BY <1>1, <1>3, <1>4, <1>5

LEMMA AlikeForce ==
  ASSUME NEW s \in Seq(Activations), NEW t \in Seq(Activations), Len(t) = Len(s),
         \A i \in 1 .. Len(s) : AlikeAt(s, t, i)
  PROVE  InForce(t) = InForce(s)
<1>1. PICK f : Counts(f, s, Len(s)) /\ InForce(s) = f[Len(s)]
  BY InForceCounts
<1>2. PICK g : Counts(g, t, Len(t)) /\ InForce(t) = g[Len(t)]
  BY InForceCounts
<1>3. Len(s) \in Nat /\ Len(s) \in 0 .. Len(s)
  BY LenProperties
<1>4. Counts(g, t, Len(s))
  BY <1>2
<1>5. \A n \in 0 .. Len(s) : f[n] = g[n]
  BY <1>1, <1>3, <1>4, CountsAgree
<1>6. QED
  BY <1>1, <1>2, <1>3, <1>5

LEMMA BelowSeq ==
  ASSUME NEW s \in Seq(Activations)
  PROVE  /\ \A n \in 0 .. Len(s) : Below(s, n) \in Seq(Tags) /\ Len(Below(s, n)) \in Nat
         /\ InForce(s) \in Seq(Tags) /\ Len(InForce(s)) \in Nat
<1> DEFINE S == {n \in 0 .. Len(s) : Below(s, n) \in Seq(Tags)}
<1>1. Len(s) \in Nat /\ Len(s) \in 0 .. Len(s)
  BY LenProperties
<1>2. 0 \in S
  <2>1. Below(s, 0) = <<>>
    BY BelowCounts
  <2>2. <<>> \in Seq(Tags)
    OBVIOUS
  <2>3. Below(s, 0) \in Seq(Tags)
    BY <2>1, <2>2, Zenon
  <2>4. 0 \in 0 .. Len(s)
    BY <1>1
  <2>5. QED
    BY <2>3, <2>4
<1>3. ASSUME NEW n \in 0 .. Len(s), n \in S /\ n < Len(s) PROVE n + 1 \in S
  <2>1. n + 1 \in 1 .. Len(s) /\ n + 1 \in 0 .. Len(s) /\ (n + 1) - 1 = n /\ Below(s, n) \in Seq(Tags)
    BY <1>1, <1>3
  <2>2. Below(s, n + 1) = IF s[n + 1].fn = "catch" THEN Append(Below(s, n), s[n + 1].tag) ELSE Below(s, n)
    BY <2>1, BelowCounts
  <2>3. s[n + 1].fn = "catch" => s[n + 1].tag \in Tags
    BY <2>1, ElementOfSeq, ActivationFacts
  <2>4. s[n + 1].fn = "catch" => Append(Below(s, n), s[n + 1].tag) \in Seq(Tags)
    BY <2>1, <2>3, AppendProperties
  <2>5. Below(s, n + 1) \in Seq(Tags)
    BY <2>2, <2>4, <2>1
  <2>6. QED
    BY <2>1, <2>5
<1>4. \A n \in 0 .. Len(s) : n \in S
  <2> HIDE DEF S
  <2>1. QED
    BY <1>1, <1>2, <1>3, RangeInduction
<1>5. \A n \in 0 .. Len(s) : Below(s, n) \in Seq(Tags) /\ Len(Below(s, n)) \in Nat
  BY <1>4, LenProperties
<1>6. QED
  BY <1>1, <1>5, BelowCounts

(* From position l to position n handlers are only added, one for each      *)
(* catch frame in between.                                                  *)
Between(s, l, n) ==
  /\ Len(Below(s, l)) <= Len(Below(s, n))
  /\ \A j \in 1 .. Len(Below(s, l)) : Below(s, n)[j] = Below(s, l)[j]
  /\ \A j \in Len(Below(s, l)) + 1 .. Len(Below(s, n)) :
       \E q \in l + 1 .. n : s[q].fn = "catch" /\ s[q].tag = Below(s, n)[j]

LEMMA BetweenHolds ==
  ASSUME NEW s \in Seq(Activations), NEW l \in 0 .. Len(s)
  PROVE  Between(s, l, Len(s))
<1> DEFINE S == {n \in l .. Len(s) : Between(s, l, n)}
<1>1. Len(s) \in Nat /\ Len(s) \in l .. Len(s) /\ l \in Nat /\ l \in l .. Len(s)
  BY LenProperties
<1>2. Len(Below(s, l)) \in Nat
  BY BelowSeq
<1>3. l \in S
  BY <1>1, <1>2 DEF Between
<1>4. ASSUME NEW n \in l .. Len(s), n \in S /\ n < Len(s) PROVE n + 1 \in S
  <2> DEFINE b == Below(s, l)
             c == Below(s, n)
             d == Below(s, n + 1)
  <2>1. /\ n + 1 \in 1 .. Len(s) /\ n \in 0 .. Len(s) /\ n + 1 \in 0 .. Len(s) /\ (n + 1) - 1 = n
        /\ n \in Nat /\ n + 1 \in l .. Len(s)
        /\ Between(s, l, n)
    BY <1>1, <1>4
  <2>2. d = IF s[n + 1].fn = "catch" THEN Append(c, s[n + 1].tag) ELSE c
    BY <2>1, BelowCounts
  <2>3. c \in Seq(Tags) /\ Len(c) \in Nat /\ Len(b) \in Nat
    BY <1>2, <2>1, BelowSeq
  <2>4. /\ Len(b) <= Len(c) /\ \A j \in 1 .. Len(b) : c[j] = b[j]
        /\ \A j \in Len(b) + 1 .. Len(c) : \E q \in l + 1 .. n : s[q].fn = "catch" /\ s[q].tag = c[j]
    BY <2>1 DEF Between
  <2> HIDE DEF b, c, d
  <2>5. \A q \in l + 1 .. n : q \in l + 1 .. n + 1
    BY <1>1, <2>1
  <2>6. n + 1 \in l + 1 .. n + 1
    BY <1>1, <2>1
  <2>7. /\ Len(b) <= Len(d) /\ \A j \in 1 .. Len(b) : d[j] = b[j]
        /\ \A j \in Len(b) + 1 .. Len(d) : \E q \in l + 1 .. n + 1 : s[q].fn = "catch" /\ s[q].tag = d[j]
    <3>1. CASE s[n + 1].fn # "catch"
      BY <2>2, <2>4, <2>5, <3>1
    <3>2. CASE s[n + 1].fn = "catch"
      <4>1. s[n + 1].tag \in Tags
        BY <2>1, <3>2, ElementOfSeq, ActivationFacts
      <4>2. /\ Len(d) = Len(c) + 1 /\ d[Len(c) + 1] = s[n + 1].tag
            /\ \A j \in 1 .. Len(c) : d[j] = c[j]
        BY <2>2, <2>3, <3>2, <4>1, AppendProperties
      <4>3. ASSUME NEW j \in Len(b) + 1 .. Len(d)
            PROVE  \E q \in l + 1 .. n + 1 : s[q].fn = "catch" /\ s[q].tag = d[j]
        <5>1. j \in Len(b) + 1 .. Len(c) \/ j = Len(c) + 1
          BY <2>3, <4>2
        <5>2. CASE j = Len(c) + 1
          BY <2>6, <3>2, <4>2, <5>2
        <5>3. CASE j \in Len(b) + 1 .. Len(c)
          <6>1. d[j] = c[j]
            BY <2>3, <4>2, <5>3
          <6>2. QED
            BY <2>4, <2>5, <5>3, <6>1
        <5>4. QED
          BY <5>1, <5>2, <5>3
      <4>4. \A j \in 1 .. Len(b) : j \in 1 .. Len(c)
        BY <2>3, <2>4
      <4>5. QED
        BY <2>3, <2>4, <4>2, <4>3, <4>4
    <3>3. QED
      BY <3>1, <3>2
  <2>8. Between(s, l, n + 1)
    BY <2>7 DEF Between, b, d
  <2>9. QED
    BY <2>1, <2>8
<1>5. \A n \in l .. Len(s) : n \in S
  <2> HIDE DEF S
  <2>1. QED
    BY <1>1, <1>3, <1>4, RangeInduction
<1>6. QED
  BY <1>1, <1>5

LEMMA PrefixOfAppend ==
  ASSUME NEW s \in Seq(Activations), NEW a \in Activations
  PROVE  InForce(Append(s, a)) = IF a.fn = "catch" THEN Append(InForce(s), a.tag) ELSE InForce(s)
<1> DEFINE t == Append(s, a)
<1>1. /\ t \in Seq(Activations) /\ Len(t) = Len(s) + 1 /\ t[Len(s) + 1] = a /\ Len(s) \in Nat
      /\ \A i \in 1 .. Len(s) : t[i] = s[i]
  BY AppendProperties, LenProperties
<1> HIDE DEF t
<1>2. Len(s) \in 0 .. Len(t) /\ Len(s) + 1 \in 1 .. Len(t) /\ (Len(s) + 1) - 1 = Len(s)
  BY <1>1
<1>3. SubSeq(t, 1, Len(s)) = s
  <2>1. /\ SubSeq(t, 1, Len(s)) \in Seq(Activations) /\ Len(SubSeq(t, 1, Len(s))) = Len(s)
        /\ \A i \in 1 .. Len(s) : SubSeq(t, 1, Len(s))[i] = t[i]
    BY <1>1, <1>2, PrefixFacts
  <2>2. \A i \in 1 .. Len(s) : SubSeq(t, 1, Len(s))[i] = s[i]
    BY <1>1, <2>1
  <2>3. QED
    BY <2>1, <2>2, SeqEqual
<1>4. InForce(t) = IF a.fn = "catch" THEN Append(Below(t, Len(s)), a.tag) ELSE Below(t, Len(s))
  BY <1>1, <1>2, BelowCounts
<1>5. Below(t, Len(s)) = InForce(s)
  BY <1>3 DEF Below
<1>6. QED
  BY <1>4, <1>5 DEF t

(* Handlers that take none of the tags. *)
LEMMA NoneTakes ==
  ASSUME NEW s \in Seq(Activations), NEW tags,
         \A q \in 1 .. Len(s) : s[q].fn = "catch" => s[q].tag \notin tags
  PROVE  \A j \in 1 .. Len(InForce(s)) : InForce(s)[j] \notin tags
<1>1. Len(s) \in Nat /\ 0 \in 0 .. Len(s)
  BY LenProperties
<1>2. Between(s, 0, Len(s))
  BY <1>1, BetweenHolds
<1>3. Below(s, 0) = <<>> /\ InForce(s) = Below(s, Len(s))
  BY BelowCounts
<1>4. Len(Below(s, 0)) = 0
  BY <1>3
<1>5. ASSUME NEW j \in 1 .. Len(InForce(s)) PROVE InForce(s)[j] \notin tags
  <2>1. j \in Len(Below(s, 0)) + 1 .. Len(Below(s, Len(s)))
    BY <1>3, <1>4
  <2>2. \E q \in 0 + 1 .. Len(s) : s[q].fn = "catch" /\ s[q].tag = Below(s, Len(s))[j]
    BY <1>2, <2>1 DEF Between
  <2>3. QED
    BY <1>3, <2>2
<1>6. QED
  BY <1>5

LEMMA NoFrames ==
  ASSUME NEW s \in Seq(Activations), \A q \in 1 .. Len(s) : s[q].fn # "catch"
  PROVE  InForce(s) = <<>>
<1>1. InForce(s) \in Seq(Tags) /\ Len(InForce(s)) \in Nat
  BY BelowSeq
<1>2. \A j \in 1 .. Len(InForce(s)) : InForce(s)[j] \notin Tags
  BY NoneTakes
<1>3. \A j \in 1 .. Len(InForce(s)) : InForce(s)[j] \in Tags
  BY <1>1, ElementOfSeq
<1>4. Len(InForce(s)) = 0
  <2>1. SUFFICES ASSUME Len(InForce(s)) # 0 PROVE FALSE
    OBVIOUS
  <2>2. 1 \in 1 .. Len(InForce(s))
    BY <1>1, <2>1
  <2>3. QED
    BY <1>2, <1>3, <2>2
<1>5. QED
  BY <1>1, <1>4, EmptySeq

(* A jump to catch frame l, the innermost that takes one of tags.           *)
LEMMA JumpTransfers ==
  ASSUME NEW s \in Seq(Activations), NEW l \in 1 .. Len(s), s[l].fn = "catch", NEW tags, s[l].tag \in tags,
         \A q \in l + 1 .. Len(s) : s[q].fn = "catch" => s[q].tag \notin tags
  PROVE  \E i \in 1 .. Len(InForce(s)) :
           /\ InForce(s)[i] \in tags
           /\ \A j \in i + 1 .. Len(InForce(s)) : InForce(s)[j] \notin tags
           /\ InForce(SubSeq(s, 1, l)) = SubSeq(InForce(s), 1, i)
<1> DEFINE h == InForce(s)
           b == Below(s, l)
           i == Len(b)
<1>1. Len(s) \in Nat /\ l \in 0 .. Len(s) /\ l - 1 \in 0 .. Len(s)
  BY LenProperties
<1>2. /\ h = Below(s, Len(s)) /\ b = Append(Below(s, l - 1), s[l].tag)
  BY BelowCounts
<1>3. h \in Seq(Tags) /\ Len(h) \in Nat /\ b \in Seq(Tags) /\ i \in Nat /\ Below(s, l - 1) \in Seq(Tags)
  BY <1>1, BelowSeq
<1>4. s[l].tag \in Tags
  BY ElementOfSeq, ActivationFacts
<1>5. i \in Nat \ {0} /\ b[i] = s[l].tag
  BY <1>2, <1>3, <1>4, AppendProperties, LenProperties
<1>6. /\ i <= Len(h) /\ \A j \in 1 .. i : h[j] = b[j]
      /\ \A j \in i + 1 .. Len(h) : \E q \in l + 1 .. Len(s) : s[q].fn = "catch" /\ s[q].tag = h[j]
  <2>1. Between(s, l, Len(s))
    BY <1>1, BetweenHolds
  <2>2. QED
    BY <1>2, <2>1 DEF Between
<1>7. InForce(SubSeq(s, 1, l)) = b
  BY DEF Below
<1> HIDE DEF h, b
<1>8. SubSeq(h, 1, i) = b
  <2>1. /\ SubSeq(h, 1, i) \in Seq(Tags) /\ Len(SubSeq(h, 1, i)) = IF 1 <= i THEN i - 1 + 1 ELSE 0
        /\ \A j \in 1 .. i - 1 + 1 : SubSeq(h, 1, i)[j] = h[1 + j - 1]
    <3>1. \A j \in 1 .. i : h[j] \in Tags
      BY <1>3, <1>6, ElementOfSeq
    <3>2. QED
      BY <1>3, <1>5, <3>1, SubSeqProperties
  <2>2. Len(SubSeq(h, 1, i)) = i /\ \A j \in 1 .. i : SubSeq(h, 1, i)[j] = b[j]
    BY <1>5, <1>6, <2>1
  <2>3. QED
    BY <1>3, <2>1, <2>2, SeqEqual
<1>9. i \in 1 .. Len(h) /\ h[i] \in tags
  BY <1>3, <1>5, <1>6
<1>10. \A j \in i + 1 .. Len(h) : h[j] \notin tags
  BY <1>6
<1>11. QED
  BY <1>7, <1>8, <1>9, <1>10 DEF h

-----------------------------------------------------------------------------
(* The frame err has chosen is the innermost that takes errors until it     *)
(* jumps there.                                                             *)
TargetAt(s, i) ==
  Is(s, i, {"err"}) =>
    /\ s[s[i].frame].tag \in Errors
    /\ \A q \in s[i].frame + 1 .. i - 1 : Is(s, q, {"catch"}) => s[q].tag \notin Errors
TargetsOK(s) == \A i \in 1 .. Len(s) : TargetAt(s, i)
CatchInv == ControlInv /\ TargetsOK(stack)

Same(s, t, j) == AlikeAt(s, t, j) /\ (s[j].fn = "err" => t[j].frame = s[j].frame)

LEMMA TargetLike ==
  ASSUME NEW s, NEW t, NEW i \in Nat \ {0}, \A j \in 1 .. i : Same(s, t, j), LinkOK(s, i), TargetAt(s, i)
  PROVE  TargetAt(t, i)
<1>1. SUFFICES ASSUME Is(t, i, {"err"})
               PROVE  /\ t[t[i].frame].tag \in Errors
                      /\ \A q \in t[i].frame + 1 .. i - 1 : Is(t, q, {"catch"}) => t[q].tag \notin Errors
  BY DEF TargetAt
<1>2. \A j \in 1 .. i : AlikeAt(s, t, j)
  BY DEF Same
<1>3. Same(s, t, i) /\ s[i].fn = "err"
  BY <1>1 DEF Same, AlikeAt, Is
<1>4. /\ t[i].frame = s[i].frame /\ s[i].frame \in 1 .. i - 1 /\ s[s[i].frame].fn = "catch"
      /\ s[s[i].frame].tag \in Errors
      /\ \A q \in s[i].frame + 1 .. i - 1 : Is(s, q, {"catch"}) => s[q].tag \notin Errors
  BY <1>3 DEF Same, LinkOK, TargetAt, Is
<1>5. s[i].frame \in 1 .. i /\ \A q \in s[i].frame + 1 .. i - 1 : q \in 1 .. i
  BY <1>4
<1>6. t[s[i].frame].tag \in Errors
  BY <1>2, <1>4, <1>5 DEF AlikeAt
<1>7. ASSUME NEW q \in s[i].frame + 1 .. i - 1, Is(t, q, {"catch"}) PROVE t[q].tag \notin Errors
  <2>1. AlikeAt(s, t, q)
    BY <1>2, <1>5
  <2>2. Is(s, q, {"catch"}) /\ t[q].tag = s[q].tag
    BY <1>7, <2>1 DEF AlikeAt, Is
  <2>3. QED
    BY <1>4, <2>2
<1>8. QED
  BY <1>4, <1>6, <1>7

LEMMA SameSelf == \A s, j : Same(s, s, j)
BY DEF Same, AlikeAt

(* A stack t that agrees with s up to k.                                    *)
LEMMA TargetsLike ==
  ASSUME NEW s \in Seq(Activations), NEW t, NEW hc, NEW ht, StackOK(s, hc, ht), TargetsOK(s),
         NEW k \in Nat, k <= Len(s), \A j \in 1 .. k : Same(s, t, j)
  PROVE  \A i \in 1 .. k : TargetAt(t, i)
<1>1. ASSUME NEW i \in 1 .. k PROVE TargetAt(t, i)
  <2>1. i \in Nat \ {0} /\ i \in 1 .. Len(s) /\ \A j \in 1 .. i : j \in 1 .. k
    BY LenProperties
  <2>2. LinkOK(s, i) /\ TargetAt(s, i)
    BY <2>1 DEF StackOK, FrameOK, TargetsOK
  <2>3. \A j \in 1 .. i : Same(s, t, j)
    BY <2>1
  <2>4. QED
    BY <2>1, <2>2, <2>3, TargetLike
<1>2. QED
  BY <1>1

LEMMA TargetsCut ==
  ASSUME NEW s \in Seq(Activations), NEW l \in 0 .. Len(s), NEW hc, NEW ht, StackOK(s, hc, ht), TargetsOK(s)
  PROVE  TargetsOK(SubSeq(s, 1, l))
<1> DEFINE t == SubSeq(s, 1, l)
<1>1. Len(t) = l /\ l \in Nat /\ Len(s) \in Nat /\ l <= Len(s) /\ \A i \in 1 .. l : t[i] = s[i]
  BY PrefixFacts
<1> HIDE DEF t
<1>2. \A j \in 1 .. l : Same(s, t, j)
  BY <1>1 DEF Same, AlikeAt
<1>3. \A i \in 1 .. l : TargetAt(t, i)
  BY <1>1, <1>2, TargetsLike
<1>4. TargetsOK(t)
  BY <1>1, <1>3 DEF TargetsOK
<1>5. QED
  BY <1>4 DEF t

LEMMA TargetsPush ==
  ASSUME NEW s \in Seq(Activations), NEW a \in Activations, NEW hc, NEW ht, StackOK(s, hc, ht), TargetsOK(s),
         TargetAt(Append(s, a), Len(s) + 1)
  PROVE  TargetsOK(Append(s, a))
<1> DEFINE t == Append(s, a)
<1>1. Len(t) = Len(s) + 1 /\ Len(s) \in Nat /\ \A i \in 1 .. Len(s) : t[i] = s[i]
  BY AppendProperties, LenProperties
<1>2. TargetAt(t, Len(s) + 1)
  OBVIOUS
<1> HIDE DEF t
<1>3. \A j \in 1 .. Len(s) : Same(s, t, j)
  BY <1>1 DEF Same, AlikeAt
<1>4. \A i \in 1 .. Len(s) : TargetAt(t, i)
  BY <1>1, <1>3, TargetsLike
<1>5. TargetsOK(t)
  BY <1>1, <1>2, <1>4 DEF TargetsOK
<1>6. QED
  BY <1>5 DEF t

LEMMA TargetsPushPlain ==
  ASSUME NEW s \in Seq(Activations), NEW a \in Activations, NEW hc, NEW ht, StackOK(s, hc, ht), TargetsOK(s),
         a.fn # "err"
  PROVE  TargetsOK(Append(s, a))
<1>1. Append(s, a)[Len(s) + 1] = a
  BY AppendProperties
<1>2. TargetAt(Append(s, a), Len(s) + 1)
  BY <1>1 DEF TargetAt, Is
<1>3. QED
  BY <1>2, TargetsPush

-----------------------------------------------------------------------------
(* The steps.  Each keeps the targets and is a step of Catch or none.       *)
Mapped == TargetsOK(stack') /\ (Handlers!Next \/ InForce(stack') = InForce(stack))

(* What is left of the stack as err is called has the frames of the stack.  *)
KeepsFrames(s) ==
  /\ \A i \in 1 .. Len(s) : Is(s, i, {"catch"}) => i \in 1 .. Len(stack) /\ s[i] = stack[i]
  /\ \A i \in 1 .. Len(stack) : Is(stack, i, {"catch"}) => i \in 1 .. Len(s) /\ s[i] = stack[i]
  /\ TargetsOK(s)
  /\ InForce(s) = InForce(stack)

LEMMA StackKept ==
  ASSUME CatchInv
  PROVE  KeepsFrames(stack)
BY DEF CatchInv, KeepsFrames

LEMMA Toplevel ==
  ASSUME CatchInv, NEW s, NEW how, ErrFrom(s), ToDriver(how), Alive
  PROVE  Mapped
<1>1. errjmp_ok = 1 /\ Search(Errors) = NULL /\ stack # <<>> /\ stack' = <<stack[1]>>
  BY DEF ToDriver
<1>2. /\ stack \in Seq(Activations) /\ StackOK(stack, hookCaught, hookThrew)
      /\ Inner(stack, catch_framep, Len(stack)) /\ PcOK /\ TypeOK /\ Len(stack) \in Nat
  BY <1>1, LenProperties DEF CatchInv, ControlInv, TypeOK, ErrFrom
<1>3. \A q \in 1 .. Len(stack) : ~TakerAt(Errors, q)
  BY <1>1, <1>2, SearchFacts DEF NULL
<1>4. \A q \in 1 .. Len(stack) : stack[q].fn = "catch" => stack[q].tag \notin Errors
  BY <1>3 DEF TakerAt, Is
<1>5. \A j \in 1 .. Len(InForce(stack)) : InForce(stack)[j] \notin Errors
  BY <1>2, <1>4, NoneTakes
<1>6. Len(stack) > 0 /\ Is(stack, 1, {"driver"})
  BY <1>1, <1>2 DEF PcOK, TypeOK, Alive
<1>7. stack[1] \in Activations
  BY <1>2, <1>6, ElementOfSeq
<1>8. stack' \in Seq(Activations) /\ Len(stack') = 1 /\ stack'[1] = stack[1]
  BY <1>1, <1>7
<1>9. \A q \in 1 .. Len(stack') : stack'[q].fn = "driver"
  BY <1>6, <1>8 DEF Is
<1>10. InForce(stack') = <<>>
  BY <1>8, <1>9, NoFrames
<1>11. TargetsOK(stack')
  BY <1>9 DEF TargetsOK, TargetAt, Is
<1>12. Handlers!Toplevel
  BY <1>5, <1>10 DEF Handlers!Toplevel
<1>13. QED
  BY <1>11, <1>12 DEF Mapped, Handlers!Next

LEMMA Handled ==
  ASSUME CatchInv, NEW s, NEW how \in {"error", "reraise", "quit"}, ErrFrom(s), KeepsFrames(s),
         ToHandler(s, how)
  PROVE  Mapped
<1> DEFINE l == Search(Errors)
           a == ErrFrame(how, inside_err, l)
<1>1. errjmp_ok = 1 /\ l # NULL /\ stack' = Append(s, a)
  BY DEF ToHandler
<1>2. /\ stack \in Seq(Activations) /\ StackOK(stack, hookCaught, hookThrew)
      /\ Inner(stack, catch_framep, Len(stack)) /\ TypeOK /\ Len(stack) \in Nat /\ Len(stack) \in Positions
  BY <1>1, LenProperties DEF CatchInv, ControlInv, TypeOK, ErrFrom
<1>3. /\ l \in 1 .. Len(stack) /\ Is(stack, l, {"catch"}) /\ stack[l].tag \in Errors
      /\ \A q \in l + 1 .. Len(stack) : ~TakerAt(Errors, q)
  BY <1>1, <1>2, SearchFacts
<1>4. /\ l \in 1 .. Len(s) /\ s[l] = stack[l]
      /\ s \in Seq(Activations) /\ StackOK(s, hookCaught, hookThrew) /\ Len(s) \in Nat
      /\ TargetsOK(s) /\ InForce(s) = InForce(stack)
  BY <1>3, LenProperties DEF KeepsFrames, ErrFrom
<1>5. l \in Positions /\ inside_err \in Bits
  BY <1>2, <1>3, DepthFacts DEF TypeOK
<1>6. a \in Activations /\ a.fn = "err" /\ a.frame = l
  BY <1>5, MakeActivations
<1> HIDE DEF a, l
<1>7. /\ Append(s, a)[Len(s) + 1] = a
      /\ \A i \in 1 .. Len(s) : Append(s, a)[i] = s[i]
  BY <1>4, <1>6, AppendProperties
<1>8. ASSUME NEW q \in l + 1 .. Len(s), Is(s, q, {"catch"}) PROVE s[q].tag \notin Errors
  <2>1. q \in 1 .. Len(s)
    BY <1>4, <1>8
  <2>2. q \in 1 .. Len(stack) /\ s[q] = stack[q]
    BY <1>8, <2>1 DEF KeepsFrames
  <2>3. q \in l + 1 .. Len(stack) /\ Is(stack, q, {"catch"})
    BY <1>2, <1>4, <1>8, <2>2 DEF Is
  <2>4. QED
    BY <1>3, <2>2, <2>3 DEF TakerAt
<1>9. \A q \in l + 1 .. (Len(s) + 1) - 1 : q \in l + 1 .. Len(s) /\ q \in 1 .. Len(s)
  BY <1>4
<1>10. TargetAt(Append(s, a), Len(s) + 1)
  BY <1>3, <1>4, <1>6, <1>7, <1>8, <1>9 DEF TargetAt, Is
<1>11. TargetsOK(Append(s, a))
  BY <1>4, <1>6, <1>10, TargetsPush
<1>12. InForce(Append(s, a)) = InForce(s)
  BY <1>4, <1>6, PrefixOfAppend
<1>13. QED
  BY <1>1, <1>4, <1>11, <1>12 DEF Mapped

LEMMA StackSame ==
  ASSUME CatchInv, stack' = stack
  PROVE  Mapped
BY DEF CatchInv, Mapped

LEMMA ErrMaps ==
  ASSUME CatchInv, Alive, NEW s, NEW how \in {"error", "reraise", "quit"}, err(s, how), ErrFrom(s),
         KeepsFrames(s)
  PROVE  Mapped
<1>1. Fatal \/ ToHandler(s, how) \/ ToDriver(how) \/ ToNowhere
  BY DEF err
<1>2. CASE Fatal \/ ToNowhere
  BY <1>2, StackSame DEF Fatal, ToNowhere
<1>3. CASE ToHandler(s, how)
  BY <1>3, Handled
<1>4. CASE ToDriver(how)
  BY <1>4, Toplevel
<1>5. QED
  BY <1>1, <1>2, <1>3, <1>4

LEMMA FrontOfAppend ==
  ASSUME NEW S, NEW b \in Seq(S), NEW e \in S
  PROVE  /\ Append(b, e) # <<>>
         /\ SubSeq(Append(b, e), 1, Len(Append(b, e)) - 1) = b
<1> DEFINE t == Append(b, e)
<1>1. /\ t \in Seq(S) /\ Len(t) = Len(b) + 1 /\ Len(b) \in Nat /\ \A i \in 1 .. Len(b) : t[i] = b[i] /\ t[i] \in S
  BY AppendProperties, LenProperties, ElementOfSeq
<1>2. t # <<>>
  BY AppendProperties
<1> HIDE DEF t
<1>3. Len(t) - 1 = Len(b)
  BY <1>1
<1>4. /\ SubSeq(t, 1, Len(b)) \in Seq(S) /\ Len(SubSeq(t, 1, Len(b))) = IF 1 <= Len(b) THEN Len(b) - 1 + 1 ELSE 0
      /\ \A j \in 1 .. Len(b) - 1 + 1 : SubSeq(t, 1, Len(b))[j] = t[1 + j - 1]
  BY <1>1, SubSeqProperties
<1>5. Len(SubSeq(t, 1, Len(b))) = Len(b) /\ \A j \in 1 .. Len(b) : SubSeq(t, 1, Len(b))[j] = b[j]
  BY <1>1, <1>4
<1>6. SubSeq(t, 1, Len(b)) = b
  BY <1>4, <1>5, SeqEqual
<1>7. QED
  BY <1>2, <1>3, <1>6 DEF t

(* The handlers in force with and without the activation at the top. *)
LEMMA ForcePopped ==
  ASSUME CatchInv, pc \in {"run", "caught"}, Top.fn # "driver"
  PROVE  /\ InForce(stack) = IF Top.fn = "catch" THEN Append(InForce(Popped), Top.tag) ELSE InForce(Popped)
         /\ TargetsOK(Popped) /\ Popped \in Seq(Activations)
         /\ Top.fn = "catch" => Top.tag \in Tags
         /\ Len(stack) \in Nat \ {0}
<1>1. /\ stack \in Seq(Activations) /\ StackOK(stack, hookCaught, hookThrew) /\ TargetsOK(stack)
  BY DEF CatchInv, ControlInv, TypeOK
<1>2. /\ Len(stack) \in Nat \ {0} /\ Len(stack) \in 1 .. Len(stack) /\ Top = stack[Len(stack)]
      /\ Top \in Activations
  BY StackFacts DEF CatchInv, ControlInv, PcOK
<1>3. Len(stack) - 1 \in 0 .. Len(stack)
  BY <1>2
<1>4. Popped \in Seq(Activations) /\ TargetsOK(Popped)
  BY <1>1, <1>3, TargetsCut, PrefixFacts DEF Popped
<1>5. Below(stack, Len(stack) - 1) = InForce(Popped)
  BY DEF Below, Popped
<1>6. InForce(stack) = Below(stack, Len(stack))
  BY <1>1, BelowCounts
<1>7. Below(stack, Len(stack)) =
        IF Top.fn = "catch" THEN Append(Below(stack, Len(stack) - 1), Top.tag) ELSE Below(stack, Len(stack) - 1)
  BY <1>1, <1>2, BelowCounts
<1>8. Top.fn = "catch" => Top.tag \in Tags
  BY <1>2, ActivationFacts
<1>9. QED
  BY <1>2, <1>4, <1>5, <1>6, <1>7, <1>8

LEMMA CatchPopped ==
  ASSUME CatchInv, pc \in {"run", "caught"}, Top.fn = "catch", stack' = Popped
  PROVE  Mapped
<1>1. /\ InForce(stack) = Append(InForce(Popped), Top.tag) /\ TargetsOK(Popped)
      /\ Popped \in Seq(Activations) /\ Top.tag \in Tags
  BY ForcePopped
<1>2. InForce(Popped) \in Seq(Tags)
  BY <1>1, BelowSeq
<1>3. /\ InForce(stack) # <<>> /\ InForce(Popped) = SubSeq(InForce(stack), 1, Len(InForce(stack)) - 1)
  BY <1>1, <1>2, FrontOfAppend
<1>4. InForce(stack') = SubSeq(InForce(stack), 1, Len(InForce(stack)) - 1)
  BY <1>3
<1>5. Handlers!Leave
  BY <1>3, <1>4 DEF Handlers!Leave
<1>6. QED
  BY <1>1, <1>5 DEF Mapped, Handlers!Next

LEMMA LeftKept ==
  ASSUME CatchInv, pc \in {"run", "caught"}, Top.fn \in {"section", "gc", "hook"}, NEW s, Left(s)
  PROVE  KeepsFrames(s)
<1>1. ControlInv
  BY DEF CatchInv
<1>2. /\ \A i \in 1 .. Len(stack) - 1 : i \in 1 .. Len(s) /\ s[i] = stack[i]
      /\ \A i \in 1 .. Len(s) : i \in 1 .. Len(stack) - 1 \/ Is(s, i, {"hook"})
  BY <1>1, LeftOK
<1>3. /\ InForce(stack) = InForce(Popped) /\ TargetsOK(Popped) /\ Popped \in Seq(Activations)
      /\ Len(stack) \in Nat \ {0}
  BY ForcePopped
<1>4. Top = stack[Len(stack)]
  BY DEF Top
<1>5. \A i \in 1 .. Len(s) : Is(s, i, {"catch"}) => i \in 1 .. Len(stack) /\ s[i] = stack[i]
  <2>1. ASSUME NEW i \in 1 .. Len(s), Is(s, i, {"catch"}) PROVE i \in 1 .. Len(stack) - 1
    BY <1>2, <2>1 DEF Is
  <2>2. \A i \in 1 .. Len(stack) - 1 : i \in 1 .. Len(stack)
    BY <1>3
  <2>3. QED
    BY <1>2, <2>1, <2>2
<1>6. \A i \in 1 .. Len(stack) : Is(stack, i, {"catch"}) => i \in 1 .. Len(s) /\ s[i] = stack[i]
  <2>1. ASSUME NEW i \in 1 .. Len(stack), Is(stack, i, {"catch"}) PROVE i \in 1 .. Len(stack) - 1
    <3>1. i # Len(stack)
      BY <1>4, <2>1 DEF Is
    <3>2. QED
      BY <1>3, <3>1
  <2>2. QED
    BY <1>2, <2>1
<1>7. TargetsOK(s) /\ InForce(s) = InForce(stack)
  <2>1. CASE s = Popped
    BY <1>3, <2>1
  <2>2. CASE s = Append(Popped, Hook)
    <3>1. Hook \in Activations /\ Hook.fn = "hook"
      BY MakeActivations
    <3>2. StackOK(Popped, hookCaught, hookThrew)
      BY <1>1, Returning
    <3>3. TargetsOK(s)
      BY <1>3, <2>2, <3>1, <3>2, TargetsPushPlain
    <3>4. InForce(s) = InForce(Popped)
      BY <1>3, <2>2, <3>1, PrefixOfAppend
    <3>5. QED
      BY <1>3, <3>3, <3>4
  <2>3. QED
    BY <2>1, <2>2 DEF Left
<1>8. QED
  BY <1>5, <1>6, <1>7 DEF KeepsFrames

LEMMA StackLeft ==
  ASSUME CatchInv, pc \in {"run", "caught"}, Top.fn \in {"section", "gc", "hook"}, NEW s, Left(s), stack' = s
  PROVE  Mapped
<1>1. KeepsFrames(s)
  BY LeftKept
<1>2. QED
  BY <1>1 DEF KeepsFrames, Mapped

LEMMA RestoreMaps ==
  ASSUME CatchInv, pc = "run", Top.fn \in {"section", "gc"}, errjmp_ok = 1, NEW s, Left(s),
         Restore(Top.flag, s)
  PROVE  Mapped
<1>1. CASE err(s, "error")
  <2>1. ErrFrom(s)
    BY ErrFromLeft DEF CatchInv
  <2>2. KeepsFrames(s) /\ Alive
    BY LeftKept DEF Alive
  <2>3. QED
    BY <1>1, <2>1, <2>2, ErrMaps
<1>2. CASE stack' = s
  BY <1>2, StackLeft
<1>3. QED
  BY <1>1, <1>2 DEF Restore

LEMMA Pushed ==
  ASSUME CatchInv, NEW a \in Activations, a.fn # "err", stack' = Append(stack, a),
         a.fn = "catch" => a.tag \in Tags
  PROVE  Mapped
<1>1. /\ stack \in Seq(Activations) /\ StackOK(stack, hookCaught, hookThrew) /\ TargetsOK(stack)
  BY DEF CatchInv, ControlInv, TypeOK
<1>2. TargetsOK(stack')
  BY <1>1, TargetsPushPlain
<1>3. InForce(stack') = IF a.fn = "catch" THEN Append(InForce(stack), a.tag) ELSE InForce(stack)
  BY <1>1, PrefixOfAppend
<1>4. CASE a.fn = "catch"
  <2>1. InForce(stack') = Append(InForce(stack), a.tag)
    BY <1>3, <1>4
  <2>2. Handlers!Establish(a.tag)
    BY <2>1 DEF Handlers!Establish
  <2>3. Handlers!Next
    BY <1>4, <2>2 DEF Handlers!Next
  <2>4. QED
    BY <1>2, <2>3 DEF Mapped
<1>5. CASE a.fn # "catch"
  BY <1>2, <1>3, <1>5 DEF Mapped
<1>6. QED
  BY <1>4, <1>5

(* A jump to frame l. *)
LEMMA Landed ==
  ASSUME CatchInv, NEW l \in 1 .. Len(stack), Is(stack, l, {"catch"}), Land(l), NEW tags,
         stack[l].tag \in tags, \A q \in l + 1 .. Len(stack) : ~TakerAt(tags, q)
  PROVE  /\ TargetsOK(stack')
         /\ \E i \in 1 .. Len(InForce(stack)) : Handlers!Transfer(i, tags)
<1>1. /\ stack \in Seq(Activations) /\ StackOK(stack, hookCaught, hookThrew) /\ TargetsOK(stack)
  BY DEF CatchInv, ControlInv, TypeOK
<1>2. stack' = SubSeq(stack, 1, l)
  BY DEF Land
<1>3. l \in 0 .. Len(stack)
  BY <1>1, LenProperties
<1>4. TargetsOK(stack')
  BY <1>1, <1>2, <1>3, TargetsCut
<1>5. stack[l].fn = "catch" /\ \A q \in l + 1 .. Len(stack) : stack[q].fn = "catch" => stack[q].tag \notin tags
  BY DEF TakerAt, Is
<1>6. PICK i \in 1 .. Len(InForce(stack)) :
           /\ InForce(stack)[i] \in tags
           /\ \A j \in i + 1 .. Len(InForce(stack)) : InForce(stack)[j] \notin tags
           /\ InForce(SubSeq(stack, 1, l)) = SubSeq(InForce(stack), 1, i)
  BY <1>1, <1>5, JumpTransfers
<1>7. InForce(stack') = SubSeq(InForce(stack), 1, i)
  BY <1>2, <1>6
<1>8. Handlers!Transfer(i, tags)
  BY <1>6, <1>7 DEF Handlers!Transfer
<1>9. QED
  BY <1>4, <1>8

(* A step that changes neither the catch frames nor the frames of errs. *)
LEMMA Relabelled ==
  ASSUME CatchInv, stack' \in Seq(Activations), Len(stack') = Len(stack),
         \A i \in 1 .. Len(stack) : Same(stack, stack', i)
  PROVE  Mapped
<1>1. /\ stack \in Seq(Activations) /\ StackOK(stack, hookCaught, hookThrew) /\ TargetsOK(stack)
      /\ Len(stack) \in Nat
  BY LenProperties DEF CatchInv, ControlInv, TypeOK
<1>2. \A i \in 1 .. Len(stack) : TargetAt(stack', i)
  BY <1>1, TargetsLike
<1>3. \A i \in 1 .. Len(stack) : AlikeAt(stack, stack', i)
  BY DEF Same
<1>4. InForce(stack') = InForce(stack)
  BY <1>1, <1>3, AlikeForce
<1>5. QED
  BY <1>2, <1>4 DEF Mapped, TargetsOK

LEMMA RetvalMaps ==
  ASSUME CatchInv, ErrSetsRetval
  PROVE  Mapped
<1> DEFINE n == Len(stack)
           l == Top.frame
<1>1. /\ n \in Nat \ {0} /\ Top = stack[n]
      /\ Top \in [fn : {"err"}, given : BOOLEAN, was_inside : Bits, frame : Positions, phase : {"cons", "jump"}]
      /\ l \in 1 .. n - 1 /\ stack[l].fn = "catch" /\ l \in Nat
      /\ stack[l] \in [fn : {"catch"}, tag : Tags, next : Positions, retval : {"none", "nil", "error"}]
      /\ stack' \in Seq(Activations) /\ Len(stack') = n
      /\ \A i \in 1 .. n : i # n /\ i # l => stack'[i] = stack[i]
      /\ stack'[l] = [stack[l] EXCEPT !.retval = Retval]
      /\ stack'[n] = [Top EXCEPT !.phase = "jump"]
  BY RetvalStack DEF CatchInv
<1> HIDE DEF n, l
<1>2. Same(stack, stack', l)
  BY <1>1 DEF Same, AlikeAt
<1>3. Same(stack, stack', n)
  BY <1>1 DEF Same, AlikeAt
<1>4. ASSUME NEW i \in 1 .. n PROVE Same(stack, stack', i)
  <2>1. CASE i # n /\ i # l
    BY <1>1, <2>1 DEF Same, AlikeAt
  <2>2. QED
    BY <1>2, <1>3, <2>1
<1>5. QED
  BY <1>1, <1>4, Relabelled DEF n

LEMMA DoneMaps ==
  ASSUME CatchInv, GcEnds
  PROVE  Mapped
<1> DEFINE n == Len(stack)
<1>1. /\ n \in Nat \ {0} /\ Top = stack[n]
      /\ Top \in [fn : {"gc"}, flag : Bits, phase : {"mark", "done"}]
      /\ stack' \in Seq(Activations) /\ Len(stack') = n
      /\ \A i \in 1 .. n : i # n => stack'[i] = stack[i]
      /\ stack'[n] = [Top EXCEPT !.phase = "done"]
  BY DoneStack DEF CatchInv
<1> HIDE DEF n
<1>2. Same(stack, stack', n)
  BY <1>1 DEF Same, AlikeAt
<1>3. ASSUME NEW i \in 1 .. n PROVE Same(stack, stack', i)
  <2>1. CASE i # n
    BY <1>1, <2>1 DEF Same, AlikeAt
  <2>2. QED
    BY <1>2, <2>1
<1>4. QED
  BY <1>1, <1>3, Relabelled DEF n

LEMMA ErrJumpsMaps ==
  ASSUME CatchInv, ErrJumps
  PROVE  Mapped
<1>1. /\ pc = "run" /\ Top.fn = "err" /\ Land(Top.frame)
  BY DEF ErrJumps, Running
<1>2. /\ Len(stack) \in Nat \ {0} /\ Len(stack) \in 1 .. Len(stack) /\ Top = stack[Len(stack)]
      /\ FrameOK(stack, hookCaught, hookThrew, Len(stack))
  BY <1>1, StackFacts DEF CatchInv, ControlInv, PcOK
<1>3. Top.frame \in 1 .. Len(stack) - 1 /\ Is(stack, Top.frame, {"catch"})
  BY <1>1, <1>2 DEF FrameOK, LinkOK, Is
<1>4. TargetAt(stack, Len(stack))
  BY <1>2 DEF CatchInv, TargetsOK
<1>5. /\ stack[Top.frame].tag \in Errors
      /\ \A q \in Top.frame + 1 .. Len(stack) - 1 : Is(stack, q, {"catch"}) => stack[q].tag \notin Errors
  BY <1>1, <1>2, <1>4 DEF TargetAt, Is
<1>6. ASSUME NEW q \in Top.frame + 1 .. Len(stack) PROVE ~TakerAt(Errors, q)
  <2>1. CASE q = Len(stack)
    BY <1>1, <1>2, <2>1 DEF TakerAt, Is
  <2>2. CASE q # Len(stack)
    <3>1. q \in Top.frame + 1 .. Len(stack) - 1
      BY <1>2, <1>3, <2>2
    <3>2. QED
      BY <1>5, <3>1 DEF TakerAt
  <2>3. QED
    BY <2>1, <2>2
<1>7. Top.frame \in 1 .. Len(stack)
  BY <1>2, <1>3
<1>8. TargetsOK(stack') /\ \E i \in 1 .. Len(InForce(stack)) : Handlers!Transfer(i, Errors)
  BY <1>1, <1>3, <1>5, <1>6, <1>7, Landed
<1>9. Handlers!Error
  BY <1>8 DEF Handlers!Error
<1>10. QED
  BY <1>8, <1>9 DEF Mapped, Handlers!Next

LEMMA LthrowMaps ==
  ASSUME CatchInv, NEW tag \in Tags, siod_lthrow(tag)
  PROVE  Mapped
<1> DEFINE l == Search({tag, catchall})
<1>1. EvaluatesLisp /\ ControlInv
  BY DEF siod_lthrow, CatchInv
<1>2. pc = "run" /\ Top.fn # "gc" /\ (Top.fn = "err" => Top.phase = "cons") /\ Alive
  BY <1>1, LispCalls
<1>3. CASE ThrowTo(l)
  <2>1. l # NULL /\ Land(l)
    BY <1>3 DEF ThrowTo
  <2>2. /\ stack \in Seq(Activations) /\ StackOK(stack, hookCaught, hookThrew)
        /\ Inner(stack, catch_framep, Len(stack))
    BY <1>1, <1>2, Calling DEF ControlInv, TypeOK
  <2>3. /\ l \in 1 .. Len(stack) /\ Is(stack, l, {"catch"}) /\ stack[l].tag \in {tag, catchall}
        /\ \A q \in l + 1 .. Len(stack) : ~TakerAt({tag, catchall}, q)
    BY <2>1, <2>2, SearchFacts
  <2> HIDE DEF l
  <2>4. TargetsOK(stack') /\ \E i \in 1 .. Len(InForce(stack)) : Handlers!Transfer(i, {tag, catchall})
    BY <2>1, <2>3, Landed
  <2>5. Handlers!Throw(tag)
    BY <2>4 DEF Handlers!Throw
  <2>6. Handlers!Next
    BY <2>5 DEF Handlers!Next
  <2>7. QED
    BY <2>4, <2>6 DEF Mapped
<1>4. CASE err(stack, "error")
  <2>1. ErrFrom(stack) /\ KeepsFrames(stack)
    BY <1>1, <1>2, ErrFromStack, StackKept
  <2>2. QED
    BY <1>2, <1>4, <2>1, ErrMaps
<1>5. QED
  BY <1>3, <1>4 DEF siod_lthrow

LEMMA LispErrMaps ==
  ASSUME CatchInv, Error \/ Reraise \/ siod_quit
  PROVE  Mapped
<1>1. PICK how \in {"error", "reraise", "quit"} :
        (EvaluatesLisp \/ Running({"section"}) \/ Consing) /\ err(stack, how)
  BY DEF Error, Reraise, siod_quit
<1>2. pc = "run" /\ Top.fn # "gc" /\ Alive
  BY <1>1, LispCalls DEF CatchInv
<1>3. ErrFrom(stack) /\ KeepsFrames(stack)
  BY <1>2, ErrFromStack, StackKept DEF CatchInv
<1>4. QED
  BY <1>1, <1>2, <1>3, ErrMaps

LEMMA OtherErrMaps ==
  ASSUME CatchInv, Alive, nointerrupt = 0 \/ errjmp_ok = 0, err(stack, "error")
  PROVE  Mapped
<1>1. ErrFrom(stack) /\ KeepsFrames(stack)
  BY ErrFromStack, StackKept DEF CatchInv
<1>2. QED
  BY <1>1, ErrMaps

LEMMA PushMaps ==
  ASSUME CatchInv,
         (\E tag \in Tags : siod_leval_catch(tag)) \/ siod_no_interrupt_1 \/ siod_gc_for_newcell
  PROVE  Mapped
<1>1. TypeOK
  BY DEF CatchInv, ControlInv
<1>2. ASSUME NEW tag \in Tags, siod_leval_catch(tag) PROVE Mapped
  <2> DEFINE a == CatchFrame(tag, catch_framep)
  <2>1. a \in Activations /\ a.fn = "catch" /\ a.tag = tag
    BY <1>1, MakeActivations DEF TypeOK, CatchFrame
  <2>2. stack' = Append(stack, a)
    BY <1>2 DEF siod_leval_catch, Push
  <2> HIDE DEF a
  <2>3. QED
    BY <2>1, <2>2, Pushed
<1>3. CASE siod_no_interrupt_1
  <2> DEFINE a == Section(nointerrupt)
  <2>1. a \in Activations /\ a.fn = "section"
    BY <1>1, MakeActivations DEF TypeOK
  <2>2. stack' = Append(stack, a)
    BY <1>3 DEF siod_no_interrupt_1, Push
  <2> HIDE DEF a
  <2>3. QED
    BY <2>1, <2>2, Pushed
<1>4. CASE siod_gc_for_newcell
  <2> DEFINE a == Collection(nointerrupt)
  <2>1. a \in Activations /\ a.fn = "gc"
    BY <1>1, MakeActivations DEF TypeOK
  <2>2. stack' = Append(stack, a)
    BY <1>4 DEF siod_gc_for_newcell, Push
  <2> HIDE DEF a
  <2>3. QED
    BY <2>1, <2>2, Pushed
<1>5. QED
  BY <1>2, <1>3, <1>4

LEMMA ReturnMaps ==
  ASSUME CatchInv,
         siod_leval_catch_1 \/ Caught \/ siod_no_interrupt_flag \/ GcReturns \/ HookReturns
  PROVE  Mapped
<1>1. ControlInv /\ FlagsOK /\ PcOK /\ TypeOK
  BY DEF CatchInv, ControlInv
<1>2. CASE siod_leval_catch_1
  BY <1>2, CatchPopped DEF siod_leval_catch_1, Running
<1>3. CASE Caught
  <2>1. pc = "caught" /\ stack' = Popped /\ Top.fn = "catch"
    BY <1>1, <1>3 DEF Caught, PcOK, Top, Is
  <2>2. QED
    BY <2>1, CatchPopped
<1>4. CASE siod_no_interrupt_flag
  <2>1. pc = "run" /\ Top.fn = "section" /\ Restore(Top.flag, Popped)
    BY <1>4 DEF siod_no_interrupt_flag, Running
  <2>2. errjmp_ok = 1 /\ Left(Popped)
    BY <1>1, <2>1, Calling DEF Left
  <2>3. QED
    BY <2>1, <2>2, RestoreMaps
<1>5. CASE GcReturns
  <2>1. /\ pc = "run" /\ Top.fn = "gc" /\ Top.phase = "done"
        /\ Restore(Top.flag, Popped) \/ Restore(Top.flag, Append(Popped, Hook))
    BY <1>5 DEF GcReturns, Running
  <2>2. errjmp_ok = 1
    BY <1>1, <2>1 DEF FlagsOK, TypeOK, Bits, Top
  <2>3. Left(Popped) /\ Left(Append(Popped, Hook))
    BY <2>1 DEF Left
  <2>4. QED
    BY <2>1, <2>2, <2>3, RestoreMaps
<1>6. CASE HookReturns
  <2>1. pc = "run" /\ Top.fn = "hook" /\ stack' = Popped /\ Left(Popped)
    BY <1>6 DEF HookReturns, Running, Left
  <2>2. QED
    BY <2>1, StackLeft
<1>7. QED
  BY <1>2, <1>3, <1>4, <1>5, <1>6

(* The driver has the C stack to itself when it comes and goes. *)
LEMMA DriverMaps ==
  ASSUME CatchInv, DriverReturns \/ (\E want \in Wants : siod_repl_driver(want))
  PROVE  Mapped
<1>1. ControlInv /\ PcOK /\ TypeOK /\ stack \in Seq(Activations)
  BY DEF CatchInv, ControlInv, TypeOK
<1>2. Len(stack) = 0 \/ (Len(stack) = 1 /\ Is(stack, 1, {"driver"}))
  <2>1. CASE pc = "out"
    BY <1>1, <2>1 DEF PcOK
  <2>2. CASE pc = "quit"
    BY <1>1, <2>2 DEF PcOK
  <2>3. CASE Running({"driver"})
    <3>1. /\ Len(stack) \in Nat \ {0} /\ Top = stack[Len(stack)] /\ Is(stack, 1, {"driver"})
          /\ FrameOK(stack, hookCaught, hookThrew, Len(stack))
      BY <1>1, <2>3, StackFacts DEF PcOK, Running
    <3>2. Is(stack, Len(stack), {"driver"})
      BY <2>3, <3>1 DEF Running, Is
    <3>3. ~(Len(stack) > 1)
      BY <3>1, <3>2 DEF FrameOK, CallerOK
    <3>4. \A n \in Nat \ {0} : ~(n > 1) => n = 1
      OBVIOUS
    <3>5. QED
      BY <3>1, <3>3, <3>4
  <2>4. QED
    BY <2>1, <2>2, <2>3 DEF DriverReturns, siod_repl_driver
<1>3. \A j \in 1 .. Len(stack) : Is(stack, j, {"driver"})
  BY <1>2, DriverAlone
<1>4. \A q \in 1 .. Len(stack) : stack[q].fn # "catch"
  BY <1>3 DEF Is
<1>5. InForce(stack) = <<>>
  BY <1>1, <1>4, NoFrames
<1>6. stack' \in Seq(Activations) /\ (Len(stack') = 0 \/ (Len(stack') = 1 /\ Is(stack', 1, {"driver"})))
  <2>1. CASE DriverReturns
    BY <2>1 DEF DriverReturns
  <2>2. ASSUME NEW want \in Wants, siod_repl_driver(want)
        PROVE  stack' \in Seq(Activations) /\ Len(stack') = 1 /\ Is(stack', 1, {"driver"})
    <3>1. Driver(want) \in Activations /\ Driver(want).fn = "driver"
      BY MakeActivations, WantsAssumption
    <3>2. stack' = <<Driver(want)>>
      BY <2>2 DEF siod_repl_driver
    <3>3. QED
      BY <3>1, <3>2 DEF Is
  <2>3. QED
    BY <2>1, <2>2
<1>7. \A j \in 1 .. Len(stack') : Is(stack', j, {"driver"})
  BY <1>6, DriverAlone
<1>8. \A q \in 1 .. Len(stack') : stack'[q].fn # "catch"
  BY <1>7 DEF Is
<1>9. InForce(stack') = <<>>
  BY <1>6, <1>8, NoFrames
<1>10. TargetsOK(stack')
  BY <1>7 DEF TargetsOK, TargetAt, Is
<1>11. QED
  BY <1>5, <1>9, <1>10 DEF Mapped

LEMMA StepMaps ==
  ASSUME CatchInv, [Next]_vars
  PROVE  Mapped
<1>1. CASE Program
  <2>1. ASSUME NEW tag \in Tags, siod_lthrow(tag) PROVE Mapped
    BY <2>1, LthrowMaps
  <2>2. CASE (\E tag \in Tags : siod_leval_catch(tag)) \/ siod_no_interrupt_1 \/ siod_gc_for_newcell
    BY <2>2, PushMaps
  <2>3. CASE siod_leval_catch_1 \/ Caught \/ siod_no_interrupt_flag \/ GcReturns \/ HookReturns
    BY <2>3, ReturnMaps
  <2>4. CASE Error \/ Reraise \/ siod_quit
    BY <2>4, LispErrMaps
  <2>5. CASE ErrSetsRetval
    BY <2>5, RetvalMaps
  <2>6. CASE ErrJumps
    BY <2>6, ErrJumpsMaps
  <2>7. CASE GcEnds
    BY <2>7, DoneMaps
  <2>8. CASE DriverReturns
    BY <2>8, DriverMaps
  <2>9. CASE (\E how \in {"weak", "sure"} : siod_lalarm(how)) \/ InstallHandlers \/ ResetState
    <3>1. stack' = stack
      BY <2>9 DEF siod_lalarm, InstallHandlers, ResetState
    <3>2. QED
      BY <3>1, StackSame
  <2>10. QED
    BY <1>1, <2>1, <2>2, <2>3, <2>4, <2>5, <2>6, <2>7, <2>8, <2>9 DEF Program
<1>2. CASE StartupError
  BY <1>2, OtherErrMaps DEF StartupError, Alive
<1>3. CASE \E want \in Wants : siod_repl_driver(want)
  BY <1>3, DriverMaps
<1>4. CASE siod_handle_sigint
  <2>1. Alive /\ (stack' = stack \/ (nointerrupt = 0 /\ err(stack, "error")))
    BY <1>4 DEF siod_handle_sigint
  <2>2. QED
    BY <2>1, StackSame, OtherErrMaps
<1>5. CASE siod_handle_sigalrm
  <2>1. Alive /\ (stack' = stack \/ (nointerrupt = 0 /\ err(stack, "error")))
    BY <1>5 DEF siod_handle_sigalrm
  <2>2. QED
    BY <2>1, StackSame, OtherErrMaps
<1>6. CASE UNCHANGED vars
  BY <1>6, StackSame DEF vars
<1>7. QED
  BY <1>1, <1>2, <1>3, <1>4, <1>5, <1>6 DEF Next, Caller

LEMMA CatchStarts ==
  ASSUME Init
  PROVE  CatchInv /\ Handlers!Init
<1>1. ControlInv /\ stack = <<>> /\ Len(stack) = 0
  BY ControlInit DEF Init
<1>2. stack \in Seq(Activations)
  BY <1>1 DEF ControlInv, TypeOK
<1>3. TargetsOK(stack)
  BY <1>1 DEF TargetsOK
<1>4. \A q \in 1 .. Len(stack) : stack[q].fn # "catch"
  BY <1>1
<1>5. InForce(stack) = <<>>
  BY <1>2, <1>4, NoFrames
<1>6. QED
  BY <1>1, <1>3, <1>5 DEF CatchInv, Handlers!Init

(* For the Scheme program the frames are a stack of handlers: *throw goes   *)
(* to the innermost that takes its tag, an error to the innermost that      *)
(* takes errors, and to the top level only when there is none, with every   *)
(* signal, critical section, collection and hook between.                   *)
THEOREM ControlImplementsCatch == Spec => ImplementsCatch
<1>1. Init => CatchInv /\ Handlers!Init
  BY CatchStarts
<1>2. CatchInv /\ [Next]_vars => CatchInv' /\ [Handlers!Next]_(InForce(stack))
  <2>1. SUFFICES ASSUME CatchInv, [Next]_vars PROVE CatchInv' /\ [Handlers!Next]_(InForce(stack))
    OBVIOUS
  <2>2. Mapped
    BY <2>1, StepMaps
  <2>3. ControlInv'
    BY <2>1, ControlStep DEF CatchInv
  <2>4. TargetsOK(stack)'
    BY <2>2 DEF Mapped
  <2>5. CatchInv'
    BY <2>3, <2>4 DEF CatchInv
  <2>6. Handlers!Next \/ InForce(stack)' = InForce(stack)
    BY <2>2 DEF Mapped
  <2>7. QED
    BY <2>5, <2>6
<1>3. QED
  BY <1>1, <1>2, PTL DEF Spec, ImplementsCatch, Handlers!Spec
=============================================================================
