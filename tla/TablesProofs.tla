----------------------------- MODULE TablesProofs -----------------------------
(***************************************************************************)
(* Proofs about Tables: what intern and hset promise holds of every         *)
(* interleaving of activations of these functions through the *after-gc*    *)
(* hook, for all names, keys, hashes and dimensions.                        *)
(***************************************************************************)
EXTENDS Tables, TLAPS, WellFoundedInduction

-----------------------------------------------------------------------------
(* The search that intern and siod_assoc share: the first element of a list *)
(* to which names gives the name n, or 0.                                   *)
First(n, names, list) ==
  LET i == SelectInSeq(list, LAMBDA s : names[s] = n) IN IF i = 0 THEN 0 ELSE list[i]

LEMMA LeastOf ==
  ASSUME NEW S, S \subseteq Nat, S # {}
  PROVE  \E n \in S : \A m \in S : n <= m
<1> DEFINE R == OpToRel(<, Nat)
<1>1. PICK n \in S : \A m \in S : ~(<<m, n>> \in R)
  BY NatLessThanWellFounded, WFMin
<1>2. \A m \in S : ~(m < n)
  BY <1>1 DEF OpToRel
<1>3. QED
  BY <1>2

(* The element found has the name and none before it has.                  *)
FoundAt(n, names, list, i) ==
  /\ i \in 1 .. Len(list)
  /\ names[list[i]] = n
  /\ \A j \in 1 .. Len(list) : j < i => names[list[j]] # n

LEMMA FirstIs ==
  ASSUME NEW n, NEW names, NEW list \in Seq(Nat)
  PROVE  \/ First(n, names, list) = 0 /\ \A i \in 1 .. Len(list) : names[list[i]] # n
         \/ \E i : FoundAt(n, names, list, i) /\ First(n, names, list) = list[i]
<1> DEFINE I == {i \in 1 .. Len(list) : names[list[i]] = n}
           sel == IF I # {} THEN Min(I) ELSE 0
<1>1. First(n, names, list) = IF sel = 0 THEN 0 ELSE list[sel]
  BY DEF First, SelectInSeq
<1>2. Len(list) \in Nat
  OBVIOUS
<1>3. CASE I = {}
  <2>1. First(n, names, list) = 0
    BY <1>1, <1>3
  <2>2. \A i \in 1 .. Len(list) : names[list[i]] # n
    BY <1>3
  <2>3. QED
    BY <2>1, <2>2
<1>4. CASE I # {}
  <2>1. I \subseteq Nat
    BY <1>2
  <2>2. PICK k \in I : \A m \in I : k <= m
    <3> HIDE DEF I
    <3>1. QED
      BY <2>1, <1>4, LeastOf
  <2>3. Min(I) \in I /\ \A m \in I : Min(I) <= m
    <3> HIDE DEF I
    <3>1. QED
      BY <2>2 DEF Min
  <2>4. sel = Min(I)
    BY <1>4
  <2>5. sel \in 1 .. Len(list) /\ names[list[sel]] = n
    <3> HIDE DEF sel
    <3>1. QED
      BY <2>3, <2>4
  <2>6. \A j \in 1 .. Len(list) : j < sel => names[list[j]] # n
    <3>1. \A m \in I : sel <= m
      <4> HIDE DEF I, sel
      <4>1. QED
        BY <2>3, <2>4
    <3> HIDE DEF sel
    <3>2. QED
      BY <3>1, <2>5, <1>2
  <2>7. First(n, names, list) = list[sel]
    <3> HIDE DEF sel
    <3>1. QED
      BY <1>1, <2>5, <1>2
  <2>8. FoundAt(n, names, list, sel)
    <3> HIDE DEF sel
    <3>1. QED
      BY <2>5, <2>6 DEF FoundAt
  <2>9. QED
    <3> HIDE DEF sel
    <3>1. QED
      BY <2>7, <2>8
<1>5. QED
  BY <1>3, <1>4

LEMMA FoundAtUnique ==
  ASSUME NEW n, NEW names, NEW list \in Seq(Nat), NEW i, NEW j,
         FoundAt(n, names, list, i), FoundAt(n, names, list, j)
  PROVE  i = j
<1>1. Len(list) \in Nat /\ i \in Nat /\ j \in Nat
  BY DEF FoundAt
<1>2. ~(i < j) /\ ~(j < i)
  BY DEF FoundAt
<1>3. QED
  BY <1>1, <1>2

(* Only the names of the list's elements matter, and of these only which    *)
(* are n.                                                                   *)
LEMMA FirstSame ==
  ASSUME NEW n, NEW names, NEW names2, NEW list \in Seq(Nat),
         \A i \in 1 .. Len(list) : names2[list[i]] = n <=> names[list[i]] = n
  PROVE  First(n, names2, list) = First(n, names, list)
<1>1. {i \in 1 .. Len(list) : names2[list[i]] = n} = {i \in 1 .. Len(list) : names[list[i]] = n}
  OBVIOUS
<1>2. QED
  BY <1>1 DEF First, SelectInSeq

(* What is found is in the list and has the name. *)
LEMMA FirstFinds ==
  ASSUME NEW n, NEW names, NEW list \in Seq(Nat), First(n, names, list) # 0
  PROVE  /\ names[First(n, names, list)] = n
         /\ \E i \in 1 .. Len(list) : list[i] = First(n, names, list)
<1>1. PICK i : FoundAt(n, names, list, i) /\ First(n, names, list) = list[i]
  BY FirstIs
<1>2. QED
  BY <1>1 DEF FoundAt

LEMMA SeqWiden ==
  ASSUME NEW S, NEW T, S \subseteq T
  PROVE  \A list : list \in Seq(S) => list \in Seq(T)
<1>1. ASSUME NEW list \in Seq(S) PROVE list \in Seq(T)
  OBVIOUS
<1>2. QED
  BY <1>1

LEMMA ElementIn ==
  ASSUME NEW S, NEW s \in Seq(S), NEW i \in 1 .. Len(s)
  PROVE  s[i] \in S
  OBVIOUS

LEMMA PutFacts ==
  ASSUME NEW S, NEW s \in Seq(S), NEW i \in 1 .. Len(s), NEW x \in S
  PROVE  /\ [s EXCEPT ![i] = x] \in Seq(S) /\ Len([s EXCEPT ![i] = x]) = Len(s)
         /\ \A j \in 1 .. Len(s) : [s EXCEPT ![i] = x][j] = IF j = i THEN x ELSE s[j]
  OBVIOUS

LEMMA ConsFacts ==
  ASSUME NEW S, NEW s \in S, NEW list \in Seq(S)
  PROVE  /\ <<s>> \o list \in Seq(S)
         /\ Len(<<s>> \o list) = Len(list) + 1
         /\ (<<s>> \o list)[1] = s
         /\ \A i \in 1 .. Len(list) : (<<s>> \o list)[i + 1] = list[i]
  OBVIOUS

(* An element at the front is found by its own name and hides no other.    *)
LEMMA FirstCons ==
  ASSUME NEW n, NEW names, NEW s \in Nat, NEW list \in Seq(Nat)
  PROVE  First(n, names, <<s>> \o list) = IF names[s] = n THEN s ELSE First(n, names, list)
<1> DEFINE more == <<s>> \o list
<1>1. /\ more \in Seq(Nat) /\ Len(more) = Len(list) + 1 /\ more[1] = s
      /\ \A i \in 1 .. Len(list) : more[i + 1] = list[i]
  BY ConsFacts
<1>2. Len(list) \in Nat
  OBVIOUS
<1> HIDE DEF more
<1>3. \/ First(n, names, more) = 0 /\ \A i \in 1 .. Len(more) : names[more[i]] # n
      \/ \E i : FoundAt(n, names, more, i) /\ First(n, names, more) = more[i]
  <2>1. more \in Seq(Nat)
    BY <1>1
  <2>2. QED
    BY <2>1, FirstIs
<1>4. \/ First(n, names, list) = 0 /\ \A i \in 1 .. Len(list) : names[list[i]] # n
      \/ \E i : FoundAt(n, names, list, i) /\ First(n, names, list) = list[i]
  BY FirstIs
<1>5. CASE names[s] = n
  <2>1. FoundAt(n, names, more, 1)
    BY <1>1, <1>2, <1>5 DEF FoundAt
  <2>2. ~ \A i \in 1 .. Len(more) : names[more[i]] # n
    BY <1>1, <1>2, <1>5
  <2>3. PICK i : FoundAt(n, names, more, i) /\ First(n, names, more) = more[i]
    BY <1>3, <2>2
  <2>4. i = 1
    BY <1>1, <2>1, <2>3, FoundAtUnique
  <2>5. QED
    BY <1>1, <1>5, <2>3, <2>4 DEF more
<1>6. CASE names[s] # n
  <2>1. CASE First(n, names, list) = 0 /\ \A i \in 1 .. Len(list) : names[list[i]] # n
    <3>1. ASSUME NEW i \in 1 .. Len(more) PROVE names[more[i]] # n
      <4>1. CASE i = 1
        BY <4>1, <1>1, <1>6
      <4>2. CASE i # 1
        <5>1. i - 1 \in 1 .. Len(list) /\ (i - 1) + 1 = i
          BY <4>2, <1>1, <1>2
        <5>2. more[i] = list[i - 1]
          BY <1>1, <5>1
        <5>3. QED
          BY <2>1, <5>1, <5>2
      <4>3. QED
        BY <4>1, <4>2
    <3>2. First(n, names, more) = 0
      BY <1>3, <3>1 DEF FoundAt
    <3>3. QED
      BY <3>2, <2>1, <1>6 DEF more
  <2>2. CASE \E i : FoundAt(n, names, list, i) /\ First(n, names, list) = list[i]
    <3>1. PICK i : FoundAt(n, names, list, i) /\ First(n, names, list) = list[i]
      BY <2>2
    <3>2. i \in 1 .. Len(list) /\ i + 1 \in 1 .. Len(more) /\ more[i + 1] = list[i]
      BY <3>1, <1>1, <1>2 DEF FoundAt
    <3>3. ASSUME NEW j \in 1 .. Len(more), j < i + 1 PROVE names[more[j]] # n
      <4>1. CASE j = 1
        BY <4>1, <1>1, <1>6
      <4>2. CASE j # 1
        <5>1. j - 1 \in 1 .. Len(list) /\ (j - 1) + 1 = j /\ j - 1 < i
          BY <4>2, <3>2, <3>3, <1>1, <1>2
        <5>2. more[j] = list[j - 1]
          BY <1>1, <5>1
        <5>3. QED
          BY <3>1, <5>1, <5>2 DEF FoundAt
      <4>3. QED
        BY <4>1, <4>2
    <3>4. FoundAt(n, names, more, i + 1)
      BY <3>1, <3>2, <3>3 DEF FoundAt
    <3>5. PICK k : FoundAt(n, names, more, k) /\ First(n, names, more) = more[k]
      BY <1>3, <3>4 DEF FoundAt
    <3>6. k = i + 1
      BY <1>1, <3>4, <3>5, FoundAtUnique
    <3>7. QED
      BY <3>1, <3>2, <3>5, <3>6, <1>6 DEF more
  <2>3. QED
    BY <1>4, <2>1, <2>2
<1>7. QED
  BY <1>5, <1>6

-----------------------------------------------------------------------------
(* The inductive invariant.  What an activation of intern or of hset has    *)
(* read is what is there unless it is marked late; the symbol it has made   *)
(* is not in oblistvar before it puts it there, nor the cell of an entry in *)
(* the table; and no two activations have made the same.                    *)
InternActs ==
  [fn : {"intern"}, name : Names, phase : {"symcons", "obarray", "oblist"},
   sym : Nat, list : Seq(Nat), late : BOOLEAN]
HsetActs ==
  [fn : {"hset"}, key : Keys, value : Values, phase : {"cell", "bucket"}, index : Buckets,
   list : Seq(Nat), entry : Nat, late : BOOLEAN]
Acts == InternActs \cup HsetActs \cup {Hook}

InternOK(a) ==
  /\ a.sym <= Len(pname) /\ a.list \in Seq(1 .. Len(pname))
  /\ a.phase = "obarray" => HasObarray
  /\ a.phase # "symcons" => a.sym # 0 /\ pname[a.sym] = a.name
  /\ ~a.late => a.list = IF a.phase = "oblist" THEN oblist ELSE ListFor(a.name)
  /\ ~a.late /\ (a.phase = "oblist" => ~HasObarray) => Found(a.name) = 0
  /\ a.phase # "symcons" /\ ~dropped => \A k \in 1 .. Len(oblist) : oblist[k] # a.sym
  /\ a.phase = "oblist" /\ HasObarray /\ ~dropped => Found(a.name) = a.sym

HsetOK(a) ==
  /\ a.entry <= Len(entries) /\ a.list \in Seq(1 .. Len(entries))
  /\ a.phase = "bucket" => a.entry # 0 /\ entries[a.entry] = [key |-> a.key, value |-> a.value]
  /\ ~a.late => a.index = href_index(a.key) /\ a.list = table[a.index]
  /\ \A b \in Buckets : \A k \in 1 .. Len(table[b]) : table[b][k] # a.entry

IsIntern(s, i) == i \in 1 .. Len(s) /\ s[i].fn = "intern"
IsHset(s, i) == i \in 1 .. Len(s) /\ s[i].fn = "hset"

CallsOK == calls \in Seq(Acts)
InternsOK == \A i : IsIntern(calls, i) => InternOK(calls[i])
HsetsOK == \A i : IsHset(calls, i) => HsetOK(calls[i])
InternsApart ==
  \A i, j : IsIntern(calls, i) /\ IsIntern(calls, j) /\ i # j =>
    calls[i].sym = 0 \/ calls[i].sym # calls[j].sym
HsetsApart ==
  \A i, j : IsHset(calls, i) /\ IsHset(calls, j) /\ i # j =>
    /\ calls[i].entry = 0 \/ calls[i].entry # calls[j].entry
    /\ \A k \in 1 .. Len(calls[j].list) : calls[j].list[k] # calls[i].entry

TablesInv ==
  /\ TypeOK /\ CallsOK
  /\ InternsOK /\ InternsApart
  /\ HsetsOK /\ HsetsApart
  /\ OblistFound

-----------------------------------------------------------------------------
(* The C stack.  An activation of t is like that of s if it differs from it *)
(* in being late, at most.                                                  *)
Like(a, b) == b = a \/ (a.fn # "hook" /\ b = [a EXCEPT !.late = TRUE])
Alternate(s) == \A i \in 1 .. Len(s) : s[i].fn = "hook" <=> i % 2 = 0

LEMMA LateIntern ==
  ASSUME NEW a \in InternActs, NEW b, Like(a, b)
  PROVE  /\ b \in InternActs
         /\ b.fn = a.fn /\ b.name = a.name /\ b.phase = a.phase /\ b.sym = a.sym
         /\ b.list = a.list /\ (~b.late => ~a.late)
  BY DEF InternActs, Like

LEMMA LateHset ==
  ASSUME NEW a \in HsetActs, NEW b, Like(a, b)
  PROVE  /\ b \in HsetActs
         /\ b.fn = a.fn /\ b.key = a.key /\ b.value = a.value /\ b.phase = a.phase
         /\ b.index = a.index /\ b.list = a.list /\ b.entry = a.entry /\ (~b.late => ~a.late)
  BY DEF HsetActs, Like

LEMMA ActFacts ==
  ASSUME NEW a \in Acts
  PROVE  /\ a.fn \in {"intern", "hset", "hook"}
         /\ a.fn = "intern" <=> a \in InternActs
         /\ a.fn = "hset" <=> a \in HsetActs
         /\ a.fn = "hook" <=> a = Hook
<1>1. CASE a \in InternActs
  <2>1. a.fn = "intern"
    BY <1>1 DEF InternActs
  <2>2. a \notin HsetActs /\ a # Hook
    BY <2>1 DEF HsetActs, Hook
  <2>3. QED
    BY <1>1, <2>1, <2>2
<1>2. CASE a \in HsetActs
  <2>1. a.fn = "hset"
    BY <1>2 DEF HsetActs
  <2>2. a \notin InternActs /\ a # Hook
    BY <2>1 DEF InternActs, Hook
  <2>3. QED
    BY <1>2, <2>1, <2>2
<1>3. CASE a = Hook
  <2>1. a.fn = "hook"
    BY <1>3 DEF Hook
  <2>2. a \notin InternActs /\ a \notin HsetActs
    BY <2>1 DEF InternActs, HsetActs
  <2>3. QED
    BY <1>3, <2>1, <2>2
<1>4. QED
  BY <1>1, <1>2, <1>3 DEF Acts

LEMMA LikeActs ==
  ASSUME NEW a \in Acts, NEW b, Like(a, b)
  PROVE  b \in Acts /\ b.fn = a.fn
<1>1. CASE a.fn = "intern"
  <2>1. a \in InternActs
    BY <1>1, ActFacts
  <2>2. QED
    BY <2>1, LateIntern DEF Acts
<1>2. CASE a.fn = "hset"
  <2>1. a \in HsetActs
    BY <1>2, ActFacts
  <2>2. QED
    BY <2>1, LateHset DEF Acts
<1>3. CASE a.fn = "hook"
  BY <1>3 DEF Like
<1>4. QED
  BY <1>1, <1>2, <1>3, ActFacts

LEMMA Pushed ==
  ASSUME NEW s \in Seq(Acts), Alternate(s), NEW a \in Acts,
         a.fn = "hook" <=> (Len(s) + 1) % 2 = 0
  PROVE  /\ Append(s, a) \in Seq(Acts)
         /\ Len(Append(s, a)) = Len(s) + 1
         /\ Append(s, a)[Len(s) + 1] = a
         /\ \A i \in 1 .. Len(s) : Append(s, a)[i] = s[i]
         /\ Alternate(Append(s, a))
<1> DEFINE t == Append(s, a)
<1>1. t \in Seq(Acts) /\ Len(t) = Len(s) + 1 /\ t[Len(s) + 1] = a
  OBVIOUS
<1>2. \A i \in 1 .. Len(s) : t[i] = s[i]
  OBVIOUS
<1> HIDE DEF t
<1>3. ASSUME NEW i \in 1 .. Len(t) PROVE t[i].fn = "hook" <=> i % 2 = 0
  <2>1. Len(s) \in Nat
    OBVIOUS
  <2>2. i = Len(s) + 1 \/ i \in 1 .. Len(s)
    BY <1>1, <2>1
  <2>3. CASE i = Len(s) + 1
    BY <2>3, <1>1
  <2>4. CASE i \in 1 .. Len(s)
    BY <2>4, <1>2 DEF Alternate
  <2>5. QED
    BY <2>2, <2>3, <2>4
<1>4. Alternate(t)
  BY <1>3 DEF Alternate
<1>5. QED
  BY <1>1, <1>2, <1>4 DEF t

LEMMA Cut ==
  ASSUME NEW s \in Seq(Acts), Alternate(s), NEW n \in 0 .. Len(s)
  PROVE  /\ SubSeq(s, 1, n) \in Seq(Acts)
         /\ Len(SubSeq(s, 1, n)) = n
         /\ \A i \in 1 .. n : SubSeq(s, 1, n)[i] = s[i]
         /\ Alternate(SubSeq(s, 1, n))
<1> DEFINE t == SubSeq(s, 1, n)
<1>1. Len(s) \in Nat /\ n \in Nat /\ n <= Len(s)
  OBVIOUS
<1>2. t \in Seq(Acts) /\ Len(t) = n
  BY <1>1
<1>3. \A i \in 1 .. n : t[i] = s[i]
  BY <1>1
<1> HIDE DEF t
<1>4. Alternate(t)
  <2>1. \A i \in 1 .. n : i \in 1 .. Len(s)
    BY <1>1
  <2>2. QED
    BY <1>2, <1>3, <2>1 DEF Alternate
<1>5. QED
  BY <1>2, <1>3, <1>4 DEF t

LEMMA Marked ==
  ASSUME NEW s \in Seq(Acts), Alternate(s), NEW t, DOMAIN t = DOMAIN s,
         t = [i \in DOMAIN s |-> t[i]], \A i \in 1 .. Len(s) : Like(s[i], t[i])
  PROVE  t \in Seq(Acts) /\ Len(t) = Len(s) /\ Alternate(t)
<1>1. Len(s) \in Nat /\ DOMAIN s = 1 .. Len(s) /\ \A i \in 1 .. Len(s) : s[i] \in Acts
  OBVIOUS
<1>2. \A i \in 1 .. Len(s) : t[i] \in Acts /\ t[i].fn = s[i].fn
  BY <1>1, LikeActs
<1>3. t \in [1 .. Len(s) -> Acts]
  BY <1>1, <1>2
<1>4. t \in Seq(Acts) /\ Len(t) = Len(s)
  BY <1>1, <1>3
<1>5. Alternate(t)
  BY <1>2, <1>4 DEF Alternate
<1>6. QED
  BY <1>4, <1>5

LEMMA MarkedInterns ==
  ASSUME NEW s \in Seq(Acts), Alternate(s), NEW stored
  PROVE  /\ OvertakeInterns(stored, s) \in Seq(Acts)
         /\ Len(OvertakeInterns(stored, s)) = Len(s)
         /\ Alternate(OvertakeInterns(stored, s))
         /\ \A i \in 1 .. Len(s) :
              /\ Like(s[i], OvertakeInterns(stored, s)[i])
              /\ Overtakes(stored, s[i]) =>
                   OvertakeInterns(stored, s)[i] = [s[i] EXCEPT !.late = TRUE]
              /\ s[i].fn = "hset" => OvertakeInterns(stored, s)[i] = s[i]
<1> DEFINE t == OvertakeInterns(stored, s)
<1>1. t = [i \in DOMAIN s |->
             IF Overtakes(stored, s[i]) THEN [s[i] EXCEPT !.late = TRUE] ELSE s[i]]
  BY DEF OvertakeInterns
<1>2. DOMAIN s = 1 .. Len(s)
  OBVIOUS
<1> HIDE DEF t
<1>3. DOMAIN t = DOMAIN s /\ t = [i \in DOMAIN s |-> t[i]]
  BY <1>1
<1>4. \A i \in 1 .. Len(s) :
        t[i] = IF Overtakes(stored, s[i]) THEN [s[i] EXCEPT !.late = TRUE] ELSE s[i]
  BY <1>1, <1>2
<1>5. \A i \in 1 .. Len(s) : Overtakes(stored, s[i]) => s[i].fn = "intern"
  BY DEF Overtakes
<1>6. \A i \in 1 .. Len(s) : Like(s[i], t[i])
  BY <1>4, <1>5 DEF Like
<1>7. t \in Seq(Acts) /\ Len(t) = Len(s) /\ Alternate(t)
  BY <1>3, <1>6, Marked
<1>8. QED
  BY <1>4, <1>5, <1>6, <1>7 DEF t

LEMMA MarkedHsets ==
  ASSUME NEW s \in Seq(Acts), Alternate(s), NEW indices, NEW keys
  PROVE  /\ OvertakeHsets(indices, keys, s) \in Seq(Acts)
         /\ Len(OvertakeHsets(indices, keys, s)) = Len(s)
         /\ Alternate(OvertakeHsets(indices, keys, s))
         /\ \A i \in 1 .. Len(s) :
              /\ Like(s[i], OvertakeHsets(indices, keys, s)[i])
              /\ s[i].fn = "hset" /\ (s[i].index \in indices \/ s[i].key \in keys) =>
                   OvertakeHsets(indices, keys, s)[i] = [s[i] EXCEPT !.late = TRUE]
              /\ s[i].fn = "intern" => OvertakeHsets(indices, keys, s)[i] = s[i]
<1> DEFINE t == OvertakeHsets(indices, keys, s)
           Late(a) == a.fn = "hset" /\ (a.index \in indices \/ a.key \in keys)
<1>1. t = [i \in DOMAIN s |-> IF Late(s[i]) THEN [s[i] EXCEPT !.late = TRUE] ELSE s[i]]
  BY DEF OvertakeHsets
<1>2. DOMAIN s = 1 .. Len(s)
  OBVIOUS
<1> HIDE DEF t
<1>3. DOMAIN t = DOMAIN s /\ t = [i \in DOMAIN s |-> t[i]]
  BY <1>1
<1>4. \A i \in 1 .. Len(s) : t[i] = IF Late(s[i]) THEN [s[i] EXCEPT !.late = TRUE] ELSE s[i]
  BY <1>1, <1>2
<1>5. \A i \in 1 .. Len(s) : Like(s[i], t[i])
  BY <1>4 DEF Like
<1>6. t \in Seq(Acts) /\ Len(t) = Len(s) /\ Alternate(t)
  BY <1>3, <1>5, Marked
<1>7. QED
  BY <1>4, <1>5, <1>6 DEF t

-----------------------------------------------------------------------------
(* What a step leaves of the activations of each function. *)
Framed == calls' \in Seq(Acts) /\ Alternate(calls')
SameInterns == \A i : IsIntern(calls', i) => IsIntern(calls, i) /\ Like(calls[i], calls'[i])
SameHsets == \A i : IsHset(calls', i) => IsHset(calls, i) /\ Like(calls[i], calls'[i])

LEMMA AlternateIs ==
  ASSUME CallsOK
  PROVE  Alternate(calls) <=> \A i \in DOMAIN calls : calls[i].fn = "hook" <=> i % 2 = 0
<1>1. DOMAIN calls = 1 .. Len(calls)
  BY DEF CallsOK
<1>2. QED
  BY <1>1 DEF Alternate

LEMMA FramedFacts ==
  ASSUME Framed
  PROVE  CallsOK' /\ \A i \in DOMAIN calls' : calls'[i].fn = "hook" <=> i % 2 = 0
<1>1. calls' \in Seq(Acts) /\ Alternate(calls')
  BY DEF Framed
<1>2. DOMAIN calls' = 1 .. Len(calls')
  BY <1>1
<1>3. QED
  BY <1>1, <1>2 DEF CallsOK, Alternate

LEMMA InternActAt ==
  ASSUME CallsOK, NEW i, IsIntern(calls, i)
  PROVE  i \in 1 .. Len(calls) /\ calls[i] \in InternActs
<1>1. i \in 1 .. Len(calls) /\ calls[i] \in Acts /\ calls[i].fn = "intern"
  BY DEF CallsOK, IsIntern
<1>2. QED
  BY <1>1, ActFacts

LEMMA HsetActAt ==
  ASSUME CallsOK, NEW i, IsHset(calls, i)
  PROVE  i \in 1 .. Len(calls) /\ calls[i] \in HsetActs
<1>1. i \in 1 .. Len(calls) /\ calls[i] \in Acts /\ calls[i].fn = "hset"
  BY DEF CallsOK, IsHset
<1>2. QED
  BY <1>1, ActFacts

LEMMA InternStays ==
  ASSUME NEW a \in InternActs, NEW b, Like(a, b), InternOK(a),
         obarray_dim' = obarray_dim, dropped => dropped',
         Len(pname) \in Nat, Len(pname') \in Nat, Len(pname) <= Len(pname'),
         \A s \in 1 .. Len(pname) : pname'[s] = pname[s],
         ~b.late /\ a.phase = "oblist" => oblist' = oblist,
         ~b.late /\ a.phase # "oblist" => ListFor(a.name)' = ListFor(a.name),
         ~b.late /\ (a.phase = "oblist" => ~HasObarray) => Found(a.name)' = Found(a.name),
         a.phase # "symcons" /\ ~dropped' => \A k \in 1 .. Len(oblist') : oblist'[k] # a.sym,
         a.phase = "oblist" /\ HasObarray /\ ~dropped' => Found(a.name)' = Found(a.name)
  PROVE  InternOK(b)'
<1>1. /\ b.name = a.name /\ b.phase = a.phase /\ b.sym = a.sym
      /\ b.list = a.list /\ (~b.late => ~a.late)
  BY LateIntern
<1>2. HasObarray' = HasObarray
  BY DEF HasObarray
<1>3. a.sym \in Nat
  BY DEF InternActs
<1>4. b.sym <= Len(pname') /\ b.list \in Seq(1 .. Len(pname'))
  <2>1. a.sym <= Len(pname) /\ a.list \in Seq(1 .. Len(pname))
    BY DEF InternOK
  <2>2. 1 .. Len(pname) \subseteq 1 .. Len(pname')
    OBVIOUS
  <2>3. a.list \in Seq(1 .. Len(pname'))
    BY <2>1, <2>2
  <2>4. QED
    BY <1>1, <1>3, <2>1, <2>3
<1>5. b.phase # "symcons" => b.sym # 0 /\ pname'[b.sym] = b.name
  <2>1. ASSUME a.phase # "symcons" PROVE a.sym # 0 /\ pname'[a.sym] = a.name
    <3>1. a.sym # 0 /\ pname[a.sym] = a.name /\ a.sym <= Len(pname)
      BY <2>1 DEF InternOK
    <3>2. a.sym \in 1 .. Len(pname)
      BY <3>1, <1>3
    <3>3. QED
      BY <3>1, <3>2
  <2>2. QED
    BY <2>1, <1>1
<1>6. b.phase = "obarray" => HasObarray'
  BY <1>1, <1>2 DEF InternOK
<1>7. ~b.late => b.list = IF b.phase = "oblist" THEN oblist' ELSE ListFor(b.name)'
  <2>1. ASSUME ~b.late, a.phase = "oblist" PROVE a.list = oblist'
    BY <2>1, <1>1 DEF InternOK
  <2>2. ASSUME ~b.late, a.phase # "oblist" PROVE a.list = ListFor(a.name)'
    BY <2>2, <1>1 DEF InternOK
  <2>3. QED
    BY <2>1, <2>2, <1>1
<1>8. ~b.late /\ (b.phase = "oblist" => ~HasObarray') => Found(b.name)' = 0
  BY <1>1, <1>2 DEF InternOK
<1>9. b.phase # "symcons" /\ ~dropped' => \A k \in 1 .. Len(oblist') : oblist'[k] # b.sym
  BY <1>1
<1>10. b.phase = "oblist" /\ HasObarray' /\ ~dropped' => Found(b.name)' = b.sym
  <2>1. ASSUME a.phase = "oblist", HasObarray, ~dropped' PROVE Found(a.name)' = a.sym
    <3>1. ~dropped
      BY <2>1
    <3>2. Found(a.name) = a.sym
      BY <3>1, <2>1 DEF InternOK
    <3>3. QED
      BY <3>2, <2>1
  <2>2. QED
    BY <2>1, <1>1, <1>2
<1>11. QED
  BY <1>4, <1>5, <1>6, <1>7, <1>8, <1>9, <1>10 DEF InternOK

(* Found, with the names and the lists it looks at. *)
LEMMA FoundIs ==
  ASSUME NEW n
  PROVE  /\ Found(n) = First(n, pname, ListFor(n))
         /\ Found(n)' = First(n, pname', ListFor(n)')
  BY DEF Found, Find, First, SelectInSeq

(* The names and the lists are as they were. *)
LEMMA SymbolsSame ==
  ASSUME UNCHANGED symbolVars, NEW n
  PROVE  ListFor(n)' = ListFor(n) /\ Found(n)' = Found(n) /\ HasObarray' = HasObarray
<1>1. /\ obarray_dim' = obarray_dim /\ pname' = pname /\ obarray' = obarray
      /\ oblist' = oblist
  BY DEF symbolVars
<1>2. QED
  BY <1>1, FoundIs DEF ListFor, HasObarray, Hash

(* A step that touches neither the symbols nor the activations of intern,   *)
(* except that it may end some.                                             *)
LEMMA InternsKept ==
  ASSUME TypeOK, CallsOK, InternsOK, InternsApart, SameInterns, UNCHANGED symbolVars
  PROVE  InternsOK' /\ InternsApart'
<1>1. /\ obarray_dim' = obarray_dim /\ pname' = pname /\ oblist' = oblist /\ dropped' = dropped
  BY DEF symbolVars
<1>2. Len(pname) \in Nat
  BY DEF TypeOK, SymbolsTypeOK
<1>3. ASSUME NEW i, IsIntern(calls', i), NEW b, b = calls'[i] PROVE InternOK(b)'
  <2>1. PICK a : a = calls[i]
    OBVIOUS
  <2>2. a \in InternActs /\ InternOK(a) /\ Like(a, b)
    BY <1>3, <2>1, InternActAt DEF SameInterns, InternsOK
  <2>3. ListFor(a.name)' = ListFor(a.name) /\ Found(a.name)' = Found(a.name)
    BY SymbolsSame
  <2>4. a.phase # "symcons" /\ ~dropped' => \A k \in 1 .. Len(oblist') : oblist'[k] # a.sym
    BY <2>2, <1>1 DEF InternOK
  <2>5. Len(pname') \in Nat /\ Len(pname) <= Len(pname')
    BY <1>1, <1>2
  <2>6. QED
    BY <2>2, <2>3, <2>4, <2>5, <1>1, <1>2, InternStays
<1>4. InternsOK'
  <2>1. ASSUME NEW i, IsIntern(calls', i) PROVE InternOK(calls[i])'
    <3>1. PICK b : b = calls'[i]
      OBVIOUS
    <3>2. InternOK(b)'
      BY <1>3, <2>1, <3>1
    <3>3. QED
      BY <3>1, <3>2 DEF InternOK
  <2>2. QED
    BY <2>1 DEF InternsOK, IsIntern
<1>5. \A i : IsIntern(calls', i) => IsIntern(calls, i) /\ calls'[i].sym = calls[i].sym
  <2>1. ASSUME NEW i, IsIntern(calls', i) PROVE IsIntern(calls, i) /\ calls'[i].sym = calls[i].sym
    BY <2>1, InternActAt, LateIntern DEF SameInterns
  <2>2. QED
    BY <2>1
<1>6. InternsApart'
  BY <1>5 DEF InternsApart, IsIntern
<1>7. QED
  BY <1>4, <1>6

-----------------------------------------------------------------------------
LEMMA ListFacts ==
  ASSUME SymbolsTypeOK, NEW n \in Names
  PROVE  /\ Len(pname) \in Nat
         /\ Hash(n) \in DOMAIN obarray
         /\ ListFor(n) \in Seq(1 .. Len(pname)) /\ ListFor(n) \in Seq(Nat)
         /\ oblist \in Seq(1 .. Len(pname)) /\ oblist \in Seq(Nat)
         /\ \A i \in 1 .. Len(ListFor(n)) : ListFor(n)[i] \in 1 .. Len(pname)
<1>1. Len(pname) \in Nat /\ oblist \in Seq(1 .. Len(pname))
  BY DEF SymbolsTypeOK
<1>2. NameHash[n] \in Nat
  BY HashAssumption
<1>3. obarray_dim \in Nat \ {0}
  BY DimsAssumption DEF SymbolsTypeOK
<1>4. Hash(n) \in 0 .. obarray_dim - 1
  BY <1>2, <1>3 DEF Hash
<1>5. Hash(n) \in DOMAIN obarray
  BY <1>4 DEF SymbolsTypeOK
<1>6. ListFor(n) \in Seq(1 .. Len(pname))
  BY <1>1, <1>5 DEF ListFor, SymbolsTypeOK
<1>7. 1 .. Len(pname) \subseteq Nat
  BY <1>1
<1>8. ListFor(n) \in Seq(Nat) /\ oblist \in Seq(Nat)
  BY <1>1, <1>6, <1>7
<1>9. \A i \in 1 .. Len(ListFor(n)) : ListFor(n)[i] \in 1 .. Len(pname)
  BY <1>6
<1>10. QED
  BY <1>1, <1>5, <1>6, <1>8, <1>9

-----------------------------------------------------------------------------
(* The activation on top, and what pushing and popping leaves. *)
LEMMA TopFacts ==
  ASSUME CallsOK, Alternate(calls), ~EvaluatesLisp
  PROVE  /\ Len(calls) \in Nat \ {0} /\ Len(calls) % 2 = 1
         /\ Top = calls[Len(calls)]
         /\ Top.fn \in {"intern", "hset"}
         /\ Top.fn = "intern" => Top \in InternActs /\ IsIntern(calls, Len(calls))
         /\ Top.fn = "hset" => Top \in HsetActs /\ IsHset(calls, Len(calls))
         /\ Popped \in Seq(Acts) /\ Alternate(Popped) /\ Len(Popped) = Len(calls) - 1
         /\ \A i \in 1 .. Len(calls) - 1 : Popped[i] = calls[i]
<1>1. calls \in Seq(Acts) /\ calls # <<>> /\ Top.fn # "hook"
  BY DEF CallsOK, EvaluatesLisp
<1>2. Len(calls) \in Nat \ {0} /\ Top = calls[Len(calls)]
  BY <1>1 DEF Top
<1>3. Len(calls) \in 1 .. Len(calls) /\ Len(calls) - 1 \in 0 .. Len(calls)
  BY <1>2
<1>4. Top \in Acts
  BY <1>1, <1>2, <1>3
<1>5. Len(calls) % 2 = 1
  <2>1. Len(calls) % 2 # 0
    BY <1>1, <1>2, <1>3 DEF Alternate
  <2>2. QED
    BY <1>2, <2>1
<1>6. /\ Popped \in Seq(Acts) /\ Alternate(Popped) /\ Len(Popped) = Len(calls) - 1
      /\ \A i \in 1 .. Len(calls) - 1 : Popped[i] = calls[i]
  BY <1>1, <1>3, Cut DEF Popped, Below
<1>7. Top.fn \in {"intern", "hset"}
  BY <1>1, <1>4, ActFacts
<1>8. Top.fn = "intern" => Top \in InternActs /\ IsIntern(calls, Len(calls))
  BY <1>2, <1>3, <1>4, ActFacts DEF IsIntern
<1>9. Top.fn = "hset" => Top \in HsetActs /\ IsHset(calls, Len(calls))
  BY <1>2, <1>3, <1>4, ActFacts DEF IsHset
<1>10. QED
  BY <1>2, <1>5, <1>6, <1>7, <1>8, <1>9

LEMMA LispFacts ==
  ASSUME CallsOK, Alternate(calls), EvaluatesLisp
  PROVE  Len(calls) \in Nat /\ (Len(calls) + 1) % 2 = 1
<1>1. calls \in Seq(Acts) /\ Len(calls) \in Nat
  BY DEF CallsOK
<1>2. CASE calls = <<>>
  <2>1. Len(calls) = 0
    BY <1>2
  <2>2. QED
    BY <2>1
<1>3. CASE calls # <<>>
  <2>1. Len(calls) \in 1 .. Len(calls) /\ calls[Len(calls)].fn = "hook"
    BY <1>1, <1>3 DEF EvaluatesLisp, Top
  <2>2. Len(calls) % 2 = 0
    BY <2>1 DEF Alternate
  <2>3. QED
    BY <1>1, <2>2
<1>4. QED
  BY <1>2, <1>3

LEMMA Entered ==
  ASSUME CallsOK, Alternate(calls), NEW a \in Acts, a.fn # "hook", Enter(a)
  PROVE  /\ Framed
         /\ Len(calls') = Len(calls) + 1 /\ calls'[Len(calls) + 1] = a
         /\ \A i \in 1 .. Len(calls) : calls'[i] = calls[i]
<1>1. EvaluatesLisp /\ calls' = Append(calls, a)
  BY DEF Enter
<1>2. Len(calls) \in Nat /\ (Len(calls) + 1) % 2 # 0
  BY <1>1, LispFacts
<1>3. calls \in Seq(Acts)
  BY DEF CallsOK
<1>4. /\ Append(calls, a) \in Seq(Acts)
      /\ Len(Append(calls, a)) = Len(calls) + 1
      /\ Append(calls, a)[Len(calls) + 1] = a
      /\ \A i \in 1 .. Len(calls) : Append(calls, a)[i] = calls[i]
      /\ Alternate(Append(calls, a))
  BY <1>2, <1>3, Pushed
<1>5. QED
  BY <1>1, <1>4 DEF Framed

LEMMA TopReplaced ==
  ASSUME CallsOK, Alternate(calls), ~EvaluatesLisp, NEW s \in Seq(Acts), Alternate(s),
         Len(s) = Len(calls) - 1, NEW x \in Acts, x.fn # "hook", calls' = Append(s, x)
  PROVE  /\ Framed
         /\ Len(calls') = Len(calls) /\ calls'[Len(calls)] = x
         /\ \A i \in 1 .. Len(calls) - 1 : calls'[i] = s[i]
<1>1. Len(calls) \in Nat \ {0} /\ Len(calls) % 2 = 1
  BY TopFacts
<1>2. Len(s) + 1 = Len(calls) /\ (Len(s) + 1) % 2 # 0
  BY <1>1
<1>3. /\ Append(s, x) \in Seq(Acts)
      /\ Len(Append(s, x)) = Len(s) + 1
      /\ Append(s, x)[Len(s) + 1] = x
      /\ \A i \in 1 .. Len(s) : Append(s, x)[i] = s[i]
      /\ Alternate(Append(s, x))
  BY <1>2, Pushed
<1>4. QED
  BY <1>2, <1>3 DEF Framed

(* Only the top changes. *)
LEMMA OthersLike ==
  ASSUME NEW a PROVE Like(a, a)
  BY DEF Like

LEMMA InternsAll ==
  ASSUME \A i, b : IsIntern(calls', i) /\ b = calls'[i] => InternOK(b)'
  PROVE  InternsOK'
<1>1. ASSUME NEW i, IsIntern(calls', i) PROVE InternOK(calls[i])'
  <2>1. PICK b : b = calls'[i]
    OBVIOUS
  <2>2. InternOK(b)'
    BY <1>1, <2>1
  <2>3. QED
    BY <2>1, <2>2 DEF InternOK
<1>2. QED
  BY <1>1 DEF InternsOK, IsIntern

-----------------------------------------------------------------------------
(* A call of intern. *)
LEMMA InternEnters ==
  ASSUME TablesInv, NEW n \in Names, siod_intern(n)
  PROVE  Framed /\ SameHsets /\ SymbolsTypeOK' /\ InternsOK' /\ InternsApart' /\ OblistFound'
<1> DEFINE a == Intern(n, "symcons", 0, ListFor(n))
<1>1. /\ TypeOK /\ CallsOK /\ InternsOK /\ InternsApart /\ SymbolsTypeOK
      /\ Alternate(calls) /\ OblistFound
  BY AlternateIs DEF TablesInv, TypeOK
<1>2. Found(n) = 0 /\ Enter(a) /\ UNCHANGED symbolVars
  BY DEF siod_intern, Found
<1>3. ListFor(n) \in Seq(1 .. Len(pname)) /\ ListFor(n) \in Seq(Nat) /\ Len(pname) \in Nat
  BY <1>1, ListFacts
<1>4. /\ a.fn = "intern" /\ a.name = n /\ a.phase = "symcons" /\ a.sym = 0
      /\ a.list = ListFor(n) /\ a.late = FALSE /\ a \in InternActs
  BY <1>3 DEF Intern, InternActs
<1>5. PICK b : b = a
  OBVIOUS
<1> HIDE DEF a
<1>6. /\ Framed
      /\ Len(calls') = Len(calls) + 1 /\ calls'[Len(calls) + 1] = b
      /\ \A i \in 1 .. Len(calls) : calls'[i] = calls[i]
  <2>1. b \in Acts /\ b.fn # "hook" /\ Enter(b)
    BY <1>2, <1>4, <1>5 DEF Acts
  <2>2. QED
    BY <2>1, <1>1, Entered
<1>7. /\ obarray_dim' = obarray_dim /\ pname' = pname /\ oblist' = oblist
      /\ dropped' = dropped /\ obarray' = obarray
  BY <1>2 DEF symbolVars
<1>8. SymbolsTypeOK'
  BY <1>1, <1>7 DEF SymbolsTypeOK
<1>9. Len(calls) \in Nat
  BY <1>1 DEF CallsOK
<1>10. \A i : i \in 1 .. Len(calls') => i \in 1 .. Len(calls) \/ i = Len(calls) + 1
  BY <1>6, <1>9
<1>11. SameHsets
  BY <1>4, <1>5, <1>6, <1>10, OthersLike DEF SameHsets, IsHset
<1>12. InternOK(b)'
  <2>1. ListFor(n)' = ListFor(n) /\ Found(n)' = Found(n)
    BY <1>2, SymbolsSame
  <2>2. b.list = ListFor(b.name)' /\ Found(b.name)' = 0
    BY <2>1, <1>2, <1>4, <1>5
  <2>3. QED
    BY <2>2, <1>3, <1>4, <1>5, <1>7 DEF InternOK
<1>13. ASSUME NEW i, IsIntern(calls', i), NEW c, c = calls'[i] PROVE InternOK(c)'
  <2>1. CASE i = Len(calls) + 1
    BY <2>1, <1>6, <1>12, <1>13
  <2>2. CASE i \in 1 .. Len(calls)
    <3>1. IsIntern(calls, i) /\ c = calls[i]
      BY <2>2, <1>6, <1>13 DEF IsIntern
    <3>2. c \in InternActs /\ InternOK(c) /\ Like(c, c)
      BY <3>1, <1>1, InternActAt, OthersLike DEF InternsOK
    <3>3. ListFor(c.name)' = ListFor(c.name) /\ Found(c.name)' = Found(c.name)
      BY <1>2, SymbolsSame
    <3>4. c.phase # "symcons" /\ ~dropped' => \A k \in 1 .. Len(oblist') : oblist'[k] # c.sym
      BY <3>2, <1>7 DEF InternOK
    <3>5. Len(pname') \in Nat /\ Len(pname) <= Len(pname')
      BY <1>3, <1>7
    <3>6. QED
      BY <3>2, <3>3, <3>4, <3>5, <1>3, <1>7, InternStays
  <2>3. QED
    BY <2>1, <2>2, <1>10, <1>13 DEF IsIntern
<1>14. InternsOK'
  BY <1>13, InternsAll
<1>15. InternsApart'
  <2>1. ASSUME NEW i, NEW j, IsIntern(calls', i), IsIntern(calls', j), i # j
        PROVE  calls'[i].sym = 0 \/ calls'[i].sym # calls'[j].sym
    <3>1. CASE i = Len(calls) + 1 \/ j = Len(calls) + 1
      BY <3>1, <1>4, <1>5, <1>6
    <3>2. CASE i \in 1 .. Len(calls) /\ j \in 1 .. Len(calls)
      <4>1. calls'[i] = calls[i] /\ calls'[j] = calls[j]
        BY <3>2, <1>6
      <4>2. IsIntern(calls, i) /\ IsIntern(calls, j)
        BY <3>2, <4>1, <2>1 DEF IsIntern
      <4>3. QED
        BY <4>1, <4>2, <2>1, <1>1 DEF InternsApart
    <3>3. QED
      BY <3>1, <3>2, <2>1, <1>10 DEF IsIntern
  <2>2. QED
    BY <2>1 DEF InternsApart, IsIntern
<1>16. OblistFound'
  <2>1. \A m : Found(m)' = Found(m)
    BY <1>2, SymbolsSame
  <2>2. QED
    BY <2>1, <1>1, <1>7 DEF OblistFound, IsInjective
<1>17. QED
  BY <1>6, <1>8, <1>11, <1>14, <1>15, <1>16

(* The symbol is made. *)
LEMMA SymconsStep ==
  ASSUME TablesInv, Symcons
  PROVE  /\ Framed /\ SameHsets /\ SymbolsTypeOK' /\ InternsOK' /\ InternsApart' /\ OblistFound'
         /\ \A n \in Names : Found(n)' = Found(n)
<1> DEFINE L == Len(calls)
           sym == Len(pname) + 1
<1>1. /\ TypeOK /\ CallsOK /\ InternsOK /\ InternsApart /\ SymbolsTypeOK
      /\ Alternate(calls) /\ OblistFound
  BY AlternateIs DEF TablesInv, TypeOK
<1>2. ~EvaluatesLisp /\ Top.fn = "intern" /\ Top.phase = "symcons" /\ Len(pname) < MaxSymbols
  BY DEF Symcons, Running
<1>3. PICK a : a = Top
  OBVIOUS
<1>4. /\ L \in Nat \ {0} /\ a = calls[L] /\ a \in InternActs /\ IsIntern(calls, L)
      /\ a.fn = "intern" /\ a.phase = "symcons"
  BY <1>1, <1>2, <1>3, TopFacts
<1>5. /\ Popped \in Seq(Acts) /\ Alternate(Popped) /\ Len(Popped) = L - 1
      /\ \A i \in 1 .. L - 1 : Popped[i] = calls[i]
  BY <1>1, <1>2, TopFacts
<1>6. /\ pname' = Append(pname, a.name) /\ obarray_dim' = obarray_dim /\ obarray' = obarray
      /\ oblist' = oblist /\ dropped' = dropped
  BY <1>3 DEF Symcons
<1>7. InternOK(a) /\ a.name \in Names /\ a.list \in Seq(1 .. Len(pname)) /\ a.late \in BOOLEAN
  BY <1>1, <1>4 DEF InternsOK, InternActs, InternOK
<1>8. Len(pname) \in Nat /\ oblist \in Seq(1 .. Len(pname)) /\ oblist \in Seq(Nat)
  BY <1>1, <1>7, ListFacts
<1>9. PICK x : x = IF HasObarray THEN ToObarray([a EXCEPT !.sym = sym])
                                 ELSE ToOblist([a EXCEPT !.sym = sym])
  OBVIOUS
<1>10. calls' = Append(Popped, x)
  BY <1>3, <1>9 DEF Symcons
<1>11. /\ x.fn = "intern" /\ x.name = a.name /\ x.sym = sym /\ x \in InternActs
       /\ HasObarray => x.phase = "obarray" /\ x.list = a.list /\ x.late = a.late
       /\ ~HasObarray => x.phase = "oblist" /\ x.list = oblist /\ x.late = a.late
  <2>1. CASE HasObarray
    <3>1. x = [fn |-> "intern", name |-> a.name, phase |-> "obarray", sym |-> sym,
               list |-> a.list, late |-> a.late]
      BY <2>1, <1>4, <1>9 DEF ToObarray, InternActs
    <3>2. x \in InternActs
      BY <3>1, <1>4, <1>8 DEF InternActs
    <3>3. QED
      BY <2>1, <3>1, <3>2
  <2>2. CASE ~HasObarray
    <3>1. x = [fn |-> "intern", name |-> a.name, phase |-> "oblist", sym |-> sym,
               list |-> oblist, late |-> (a.late /\ ~HasObarray)]
      BY <2>2, <1>4, <1>9 DEF ToOblist, InternActs
    <3>2. (a.late /\ ~HasObarray) = a.late
      BY <2>2, <1>7
    <3>3. x \in InternActs
      BY <3>1, <3>2, <1>4, <1>8 DEF InternActs
    <3>4. QED
      BY <2>2, <3>1, <3>2, <3>3
  <2>3. QED
    BY <2>1, <2>2
<1>12. /\ Framed
       /\ Len(calls') = L /\ calls'[L] = x
       /\ \A i \in 1 .. L - 1 : calls'[i] = calls[i]
  <2>1. x \in Acts /\ x.fn # "hook"
    BY <1>11 DEF Acts
  <2>2. QED
    BY <2>1, <1>1, <1>2, <1>5, <1>10, TopReplaced
<1> HIDE DEF L
<1>13. \A i : i \in 1 .. Len(calls') => i \in 1 .. L - 1 \/ i = L
  BY <1>4, <1>12
<1>14. \A i : i \in 1 .. L - 1 => i \in 1 .. Len(calls) /\ calls'[i] = calls[i]
  BY <1>4, <1>12 DEF L
<1>15. SameHsets
  BY <1>11, <1>12, <1>13, <1>14, OthersLike DEF SameHsets, IsHset
<1>16. /\ pname' \in Seq(Names) /\ Len(pname') = sym /\ pname'[sym] = a.name
       /\ \A s \in 1 .. Len(pname) : pname'[s] = pname[s]
  <2>1. pname \in Seq(Names)
    BY <1>1 DEF SymbolsTypeOK
  <2>2. QED
    BY <2>1, <1>6, <1>7
<1>17. SymbolsTypeOK'
  <2>1. 1 .. Len(pname) \subseteq 1 .. Len(pname')
    BY <1>8, <1>16
  <2>2. \A list : list \in Seq(1 .. Len(pname)) => list \in Seq(1 .. Len(pname'))
    BY <2>1, SeqWiden
  <2>3. Len(pname') <= MaxSymbols
    BY <1>2, <1>8, <1>16, MaxSymbolsAssumption
  <2>4. QED
    BY <2>2, <2>3, <1>1, <1>6, <1>16 DEF SymbolsTypeOK
<1>18. \A n : ListFor(n)' = ListFor(n)
  BY <1>6 DEF ListFor, HasObarray, Hash
<1>19. ASSUME NEW n \in Names PROVE Found(n)' = Found(n)
  <2>1. /\ ListFor(n) \in Seq(Nat)
        /\ \A i \in 1 .. Len(ListFor(n)) : ListFor(n)[i] \in 1 .. Len(pname)
    BY <1>1, ListFacts
  <2>2. \A i \in 1 .. Len(ListFor(n)) : pname'[ListFor(n)[i]] = n <=> pname[ListFor(n)[i]] = n
    BY <2>1, <1>16
  <2>3. First(n, pname', ListFor(n)) = First(n, pname, ListFor(n))
    BY <2>1, <2>2, FirstSame
  <2>4. QED
    BY <2>3, <1>18, FoundIs
<1>20. HasObarray' = HasObarray
  BY <1>6 DEF HasObarray
<1>21. InternOK(x)'
  <2>1. x.sym <= Len(pname') /\ x.sym # 0 /\ pname'[x.sym] = x.name
    BY <1>8, <1>11, <1>16
  <2>2. x.list \in Seq(1 .. Len(pname'))
    <3>1. 1 .. Len(pname) \subseteq 1 .. Len(pname')
      BY <1>8, <1>16
    <3>2. \A list : list \in Seq(1 .. Len(pname)) => list \in Seq(1 .. Len(pname'))
      BY <3>1, SeqWiden
    <3>3. QED
      BY <3>2, <1>7, <1>8, <1>11
  <2>3. ~x.late => x.list = IF x.phase = "oblist" THEN oblist' ELSE ListFor(x.name)'
    <3>1. ~a.late => a.list = ListFor(a.name)
      BY <1>4, <1>7 DEF InternOK
    <3>2. QED
      BY <3>1, <1>6, <1>11, <1>18
  <2>4. ~x.late => Found(x.name)' = 0
    <3>1. ~a.late => Found(a.name) = 0
      BY <1>4, <1>7 DEF InternOK
    <3>2. QED
      BY <3>1, <1>7, <1>11, <1>19
  <2>5. \A k \in 1 .. Len(oblist') : oblist'[k] # x.sym
    BY <1>6, <1>8, <1>11
  <2>6. x.phase = "obarray" => HasObarray'
    BY <1>11, <1>20
  <2>7. ~(x.phase = "oblist" /\ HasObarray')
    BY <1>11, <1>20
  <2>8. QED
    BY <2>1, <2>2, <2>3, <2>4, <2>5, <2>6, <2>7 DEF InternOK
<1>22. ASSUME NEW i, NEW b, IsIntern(calls', i) /\ b = calls'[i] PROVE InternOK(b)'
  <2>1. CASE i = L
    BY <2>1, <1>12, <1>21, <1>22
  <2>2. CASE i \in 1 .. L - 1
    <3>1. IsIntern(calls, i) /\ b = calls[i]
      BY <2>2, <1>14, <1>22 DEF IsIntern
    <3>2. b \in InternActs /\ InternOK(b) /\ Like(b, b)
      BY <3>1, <1>1, InternActAt, OthersLike DEF InternsOK
    <3>3. ListFor(b.name)' = ListFor(b.name) /\ Found(b.name)' = Found(b.name)
      BY <3>2, <1>18, <1>19 DEF InternActs
    <3>4. b.phase # "symcons" /\ ~dropped' => \A k \in 1 .. Len(oblist') : oblist'[k] # b.sym
      BY <3>2, <1>6 DEF InternOK
    <3>5. Len(pname') \in Nat /\ Len(pname) <= Len(pname')
      BY <1>8, <1>16
    <3>6. QED
      BY <3>2, <3>3, <3>4, <3>5, <1>6, <1>8, <1>16, InternStays
  <2>3. QED
    BY <2>1, <2>2, <1>13, <1>22 DEF IsIntern
<1>23. InternsOK'
  BY <1>22, InternsAll
<1>24. ASSUME NEW i \in 1 .. L - 1, IsIntern(calls', i)
       PROVE  IsIntern(calls, i) /\ calls'[i] = calls[i] /\ calls[i].sym \in Nat
              /\ calls[i].sym <= Len(pname)
  <2>1. IsIntern(calls, i) /\ calls'[i] = calls[i]
    BY <1>14, <1>24 DEF IsIntern
  <2>2. calls[i] \in InternActs /\ InternOK(calls[i])
    BY <2>1, <1>1, InternActAt DEF InternsOK
  <2>3. QED
    BY <2>1, <2>2 DEF InternActs, InternOK
<1>25. InternsApart'
  <2>1. ASSUME NEW i, NEW j, IsIntern(calls', i), IsIntern(calls', j), i # j
        PROVE  calls'[i].sym = 0 \/ calls'[i].sym # calls'[j].sym
    <3>1. CASE i = L
      <4>1. j \in 1 .. L - 1
        BY <3>1, <2>1, <1>13 DEF IsIntern
      <4>2. calls'[j].sym \in Nat /\ calls'[j].sym <= Len(pname)
        BY <4>1, <2>1, <1>24
      <4>3. QED
        BY <3>1, <4>2, <1>8, <1>11, <1>12
    <3>2. CASE j = L
      <4>1. i \in 1 .. L - 1
        BY <3>2, <2>1, <1>13 DEF IsIntern
      <4>2. calls'[i].sym \in Nat /\ calls'[i].sym <= Len(pname)
        BY <4>1, <2>1, <1>24
      <4>3. QED
        BY <3>2, <4>2, <1>8, <1>11, <1>12
    <3>3. CASE i \in 1 .. L - 1 /\ j \in 1 .. L - 1
      BY <3>3, <2>1, <1>1, <1>24 DEF InternsApart
    <3>4. QED
      BY <3>1, <3>2, <3>3, <2>1, <1>13 DEF IsIntern
  <2>2. QED
    BY <2>1 DEF InternsApart, IsIntern
<1>26. OblistFound'
  <2>1. ASSUME ~dropped', NEW i \in DOMAIN oblist'
        PROVE  Found(pname[oblist[i]])' = oblist'[i]
    <3>1. i \in DOMAIN oblist /\ oblist[i] \in 1 .. Len(pname)
      BY <2>1, <1>6, <1>8
    <3>2. Found(pname[oblist[i]]) = oblist[i]
      BY <2>1, <3>1, <1>1, <1>6 DEF OblistFound
    <3>3. PICK n : n = pname[oblist[i]]
      OBVIOUS
    <3>4. n \in Names
      BY <3>1, <3>3, <1>1 DEF SymbolsTypeOK
    <3>5. n = pname'[oblist'[i]]
      BY <3>1, <3>3, <1>6, <1>16
    <3>6. Found(n)' = oblist'[i]
      BY <3>2, <3>3, <3>4, <1>6, <1>19
    <3>7. QED
      BY <3>5, <3>6 DEF Found, Find, ListFor, Hash
  <2>2. ~dropped' => IsInjective(oblist')
    BY <1>1, <1>6 DEF OblistFound
  <2>3. QED
    BY <2>1, <2>2 DEF OblistFound
<1>27. QED
  BY <1>12, <1>15, <1>17, <1>19, <1>23, <1>25, <1>26

(* The list stored is the one that is there, with the symbol in front. *)
LEMMA FoundAfterStore ==
  ASSUME SymbolsTypeOK, NEW n \in Names, NEW sym \in 1 .. Len(pname), pname' = pname,
         ListFor(n)' = <<sym>> \o ListFor(n)
  PROVE  Found(n)' = IF n = pname[sym] THEN sym ELSE Found(n)
<1>1. sym \in Nat /\ ListFor(n) \in Seq(Nat)
  BY ListFacts
<1>2. First(n, pname, <<sym>> \o ListFor(n))
        = IF pname[sym] = n THEN sym ELSE First(n, pname, ListFor(n))
  BY <1>1, FirstCons
<1>3. QED
  BY <1>2, FoundIs

(* The symbol goes to its list of obarray. *)
LEMMA StoreObarrayStep ==
  ASSUME TablesInv, StoreObarray
  PROVE  /\ Framed /\ SameHsets /\ SymbolsTypeOK' /\ InternsOK' /\ InternsApart' /\ OblistFound'
         /\ ~Top.late => \A n \in Names : \/ Found(n)' = Found(n)
                                          \/ Found(n) = 0 /\ n = Top.name
<1> DEFINE L == Len(calls)
<1>1. /\ TypeOK /\ CallsOK /\ InternsOK /\ InternsApart /\ SymbolsTypeOK
      /\ Alternate(calls) /\ OblistFound
  BY AlternateIs DEF TablesInv, TypeOK
<1>2. ~EvaluatesLisp /\ Top.fn = "intern" /\ Top.phase = "obarray"
  BY DEF StoreObarray, Running
<1>3. PICK a : a = Top
  OBVIOUS
<1>4. /\ L \in Nat \ {0} /\ a = calls[L] /\ a \in InternActs /\ IsIntern(calls, L)
      /\ a.fn = "intern" /\ a.phase = "obarray"
  BY <1>1, <1>2, <1>3, TopFacts
<1>5. /\ Popped \in Seq(Acts) /\ Alternate(Popped) /\ Len(Popped) = L - 1
      /\ \A i \in 1 .. L - 1 : Popped[i] = calls[i]
  BY <1>1, <1>2, TopFacts
<1>6. /\ obarray' = [obarray EXCEPT ![Hash(a.name)] = <<a.sym>> \o a.list]
      /\ dropped' = (dropped \/ a.late)
      /\ obarray_dim' = obarray_dim /\ pname' = pname /\ oblist' = oblist
  BY <1>3 DEF StoreObarray
<1>7. InternOK(a) /\ a.name \in Names /\ a.late \in BOOLEAN /\ a.sym \in Nat
  BY <1>1, <1>4 DEF InternsOK, InternActs
<1>8. Len(pname) \in Nat /\ oblist \in Seq(1 .. Len(pname)) /\ oblist \in Seq(Nat)
      /\ Hash(a.name) \in DOMAIN obarray
  BY <1>1, <1>7, ListFacts
<1>9. /\ HasObarray /\ a.list \in Seq(1 .. Len(pname))
      /\ a.sym \in 1 .. Len(pname) /\ pname[a.sym] = a.name
      /\ ~a.late => a.list = ListFor(a.name) /\ Found(a.name) = 0
      /\ ~dropped => \A k \in 1 .. Len(oblist) : oblist[k] # a.sym
  BY <1>4, <1>7, <1>8 DEF InternOK
<1>10. PICK x : x = ToOblist(a)
  OBVIOUS
<1>11. PICK s : s = OvertakeInterns("obarray", Popped)
  OBVIOUS
<1>12. calls' = Append(s, x)
  BY <1>3, <1>10, <1>11 DEF StoreObarray
<1>13. /\ x.fn = "intern" /\ x.name = a.name /\ x.sym = a.sym /\ x \in InternActs
       /\ x.phase = "oblist" /\ x.list = oblist /\ x.late = FALSE
  <2>1. x = [fn |-> "intern", name |-> a.name, phase |-> "oblist", sym |-> a.sym,
             list |-> oblist, late |-> (a.late /\ ~HasObarray)]
    BY <1>4, <1>10 DEF ToOblist, InternActs
  <2>2. (a.late /\ ~HasObarray) = FALSE
    BY <1>9
  <2>3. x \in InternActs
    BY <2>1, <2>2, <1>7, <1>8 DEF InternActs
  <2>4. QED
    BY <2>1, <2>2, <2>3
<1>14. /\ s \in Seq(Acts) /\ Len(s) = L - 1 /\ Alternate(s)
       /\ \A i \in 1 .. L - 1 :
            /\ Like(calls[i], s[i])
            /\ Overtakes("obarray", calls[i]) => s[i] = [calls[i] EXCEPT !.late = TRUE]
            /\ calls[i].fn = "hset" => s[i] = calls[i]
  BY <1>5, <1>11, MarkedInterns
<1>15. /\ Framed
       /\ Len(calls') = L /\ calls'[L] = x
       /\ \A i \in 1 .. L - 1 : calls'[i] = s[i]
  <2>1. x \in Acts /\ x.fn # "hook"
    BY <1>13 DEF Acts
  <2>2. QED
    BY <2>1, <1>1, <1>2, <1>12, <1>14, TopReplaced
<1> HIDE DEF L
<1>16. \A i : i \in 1 .. Len(calls') => i \in 1 .. L - 1 \/ i = L
  BY <1>4, <1>15
<1>17. \A i : i \in 1 .. L - 1 =>
         /\ i \in 1 .. Len(calls) /\ Like(calls[i], calls'[i]) /\ calls[i] \in Acts
         /\ calls'[i].fn = calls[i].fn
  <2>1. ASSUME NEW i \in 1 .. L - 1
        PROVE  /\ i \in 1 .. Len(calls) /\ Like(calls[i], calls'[i]) /\ calls[i] \in Acts
               /\ calls'[i].fn = calls[i].fn
    <3>1. i \in 1 .. Len(calls)
      BY <1>4 DEF L
    <3>2. calls[i] \in Acts /\ Like(calls[i], calls'[i])
      BY <3>1, <1>1, <1>14, <1>15 DEF CallsOK
    <3>3. QED
      BY <3>1, <3>2, LikeActs
  <2>2. QED
    BY <2>1
<1>18. SameHsets
  BY <1>13, <1>15, <1>16, <1>17 DEF SameHsets, IsHset
<1>19. SymbolsTypeOK'
  <2>1. <<a.sym>> \o a.list \in Seq(1 .. Len(pname))
    BY <1>9, ConsFacts
  <2>2. DOMAIN obarray' = DOMAIN obarray
    BY <1>6
  <2>3. \A b \in DOMAIN obarray' : obarray'[b] \in Seq(1 .. Len(pname))
    BY <2>1, <2>2, <1>1, <1>6 DEF SymbolsTypeOK
  <2>4. dropped' \in BOOLEAN
    BY <1>6
  <2>5. QED
    BY <2>2, <2>3, <2>4, <1>1, <1>6 DEF SymbolsTypeOK
<1>20. HasObarray' = HasObarray
  BY <1>6 DEF HasObarray
<1>21. ASSUME NEW n \in Names, Hash(n) # Hash(a.name)
       PROVE  ListFor(n)' = ListFor(n) /\ Found(n)' = Found(n)
  <2>1. Hash(n) \in DOMAIN obarray
    BY <1>1, ListFacts
  <2>2. Hash(n)' = Hash(n)
    BY <1>6 DEF Hash
  <2>3. ListFor(n)' = ListFor(n)
    BY <2>1, <2>2, <1>6, <1>20, <1>21 DEF ListFor
  <2>4. QED
    BY <2>3, <1>6, FoundIs
<1>22. ASSUME ~a.late, NEW n \in Names
       PROVE  Found(n)' = IF n = a.name THEN a.sym ELSE Found(n)
  <2>1. CASE Hash(n) # Hash(a.name)
    BY <2>1, <1>21
  <2>2. CASE Hash(n) = Hash(a.name)
    <3>1. Hash(n)' = Hash(a.name)
      BY <2>2, <1>6 DEF Hash
    <3>2. ListFor(n)' = <<a.sym>> \o a.list
      BY <3>1, <1>6, <1>8, <1>9, <1>20 DEF ListFor
    <3>3. a.list = ListFor(n)
      BY <2>2, <1>9, <1>22 DEF ListFor
    <3>4. QED
      BY <3>2, <3>3, <1>1, <1>6, <1>9, FoundAfterStore
  <2>3. QED
    BY <2>1, <2>2
<1>23. InternOK(x)'
  <2>1. x.sym <= Len(pname') /\ x.sym # 0 /\ pname'[x.sym] = x.name
    BY <1>6, <1>8, <1>9, <1>13
  <2>2. x.list \in Seq(1 .. Len(pname'))
    BY <1>6, <1>8, <1>13
  <2>3. x.list = oblist'
    BY <1>6, <1>13
  <2>4. ~dropped' => \A k \in 1 .. Len(oblist') : oblist'[k] # x.sym
    BY <1>6, <1>9, <1>13
  <2>5. ~dropped' => Found(x.name)' = x.sym
    BY <1>6, <1>7, <1>13, <1>22
  <2>6. QED
    BY <2>1, <2>2, <2>3, <2>4, <2>5, <1>9, <1>13, <1>20 DEF InternOK
<1>24. ASSUME NEW i, NEW b, IsIntern(calls', i) /\ b = calls'[i] PROVE InternOK(b)'
  <2>1. CASE i = L
    BY <2>1, <1>15, <1>23, <1>24
  <2>2. CASE i \in 1 .. L - 1
    <3>1. PICK c : c = calls[i]
      OBVIOUS
    <3>2. IsIntern(calls, i) /\ Like(c, b)
      BY <2>2, <3>1, <1>17, <1>24 DEF IsIntern
    <3>3. c \in InternActs /\ InternOK(c) /\ c.name \in Names /\ c.fn = "intern"
      BY <3>1, <3>2, <1>1, InternActAt DEF InternsOK, InternActs
    <3>4. ~b.late /\ c.phase # "oblist" => Hash(c.name) # Hash(a.name)
      <4>1. ASSUME c.phase # "oblist", Hash(c.name) = Hash(a.name) PROVE b.late
        <5>1. c.phase \in {"symcons", "obarray"}
          BY <4>1, <3>3 DEF InternActs
        <5>2. Overtakes("obarray", c)
          BY <5>1, <4>1, <3>3, <1>3 DEF Overtakes
        <5>3. b = [c EXCEPT !.late = TRUE]
          BY <5>2, <2>2, <3>1, <1>14, <1>15, <1>24
        <5>4. QED
          BY <5>3, <3>3 DEF InternActs
      <4>2. QED
        BY <4>1
    <3>5. ~b.late /\ c.phase # "oblist" =>
            ListFor(c.name)' = ListFor(c.name) /\ Found(c.name)' = Found(c.name)
      BY <3>3, <3>4, <1>21
    <3>6. c.phase # "symcons" /\ ~dropped' => \A k \in 1 .. Len(oblist') : oblist'[k] # c.sym
      BY <3>3, <1>6 DEF InternOK
    <3>7. c.phase = "oblist" /\ HasObarray /\ ~dropped' => Found(c.name)' = Found(c.name)
      <4>1. ASSUME c.phase = "oblist", ~dropped' PROVE Found(c.name)' = Found(c.name)
        <5>1. ~a.late /\ ~dropped
          BY <4>1, <1>6
        <5>2. Found(c.name) = c.sym /\ c.sym # 0
          BY <4>1, <5>1, <3>3, <1>9 DEF InternOK
        <5>3. c.name # a.name
          BY <5>1, <5>2, <1>9
        <5>4. QED
          BY <5>1, <5>3, <3>3, <1>22
      <4>2. QED
        BY <4>1
    <3>8. Len(pname') \in Nat /\ Len(pname) <= Len(pname')
      BY <1>6, <1>8
    <3>9. ~b.late /\ (c.phase = "oblist" => ~HasObarray) => Found(c.name)' = Found(c.name)
      BY <3>5, <1>9
    <3>10. \A t \in 1 .. Len(pname) : pname'[t] = pname[t]
      BY <1>6
    <3>11. QED
      BY <3>2, <3>3, <3>5, <3>6, <3>7, <3>8, <3>9, <3>10, <1>6, <1>8, InternStays
  <2>3. QED
    BY <2>1, <2>2, <1>16, <1>24 DEF IsIntern
<1>25. InternsOK'
  BY <1>24, InternsAll
<1>26. ASSUME NEW i, IsIntern(calls', i) PROVE IsIntern(calls, i) /\ calls'[i].sym = calls[i].sym
  <2>1. CASE i = L
    BY <2>1, <1>4, <1>13, <1>15
  <2>2. CASE i \in 1 .. L - 1
    <3>1. IsIntern(calls, i) /\ Like(calls[i], calls'[i])
      BY <2>2, <1>17, <1>26 DEF IsIntern
    <3>2. QED
      BY <3>1, <1>1, InternActAt, LateIntern
  <2>3. QED
    BY <2>1, <2>2, <1>16, <1>26 DEF IsIntern
<1>27. InternsApart'
  <2>1. \A i : IsIntern(calls', i) => IsIntern(calls, i) /\ calls'[i].sym = calls[i].sym
    BY <1>26
  <2>2. QED
    BY <2>1, <1>1 DEF InternsApart, IsIntern
<1>28. OblistFound'
  <2>1. ASSUME ~dropped', NEW i \in DOMAIN oblist'
        PROVE  Found(pname[oblist[i]])' = oblist'[i]
    <3>1. i \in DOMAIN oblist /\ oblist[i] \in 1 .. Len(pname) /\ oblist[i] # 0
      BY <2>1, <1>6, <1>8
    <3>2. ~dropped /\ ~a.late
      BY <2>1, <1>6
    <3>3. Found(pname[oblist[i]]) = oblist[i]
      BY <3>1, <3>2, <1>1 DEF OblistFound
    <3>4. PICK n : n = pname[oblist[i]]
      OBVIOUS
    <3>5. n \in Names
      BY <3>1, <3>4, <1>1 DEF SymbolsTypeOK
    <3>6. n # a.name
      BY <3>1, <3>2, <3>3, <3>4, <1>9
    <3>7. Found(n)' = oblist'[i]
      BY <3>2, <3>3, <3>4, <3>5, <3>6, <1>6, <1>22
    <3>8. n = pname'[oblist'[i]]
      BY <3>4, <1>6
    <3>9. QED
      BY <3>7, <3>8 DEF Found, Find, ListFor, Hash
  <2>2. ~dropped' => IsInjective(oblist')
    BY <1>1, <1>6 DEF OblistFound
  <2>3. QED
    BY <2>1, <2>2 DEF OblistFound
<1>29. ~Top.late => \A n \in Names : \/ Found(n)' = Found(n)
                                     \/ Found(n) = 0 /\ n = Top.name
  BY <1>3, <1>9, <1>22
<1>30. QED
  BY <1>15, <1>18, <1>19, <1>25, <1>27, <1>28, <1>29

(* The symbol goes to oblistvar, and intern returns. *)
LEMMA StoreOblistStep ==
  ASSUME TablesInv, StoreOblist
  PROVE  /\ Framed /\ SameHsets /\ SymbolsTypeOK' /\ InternsOK' /\ InternsApart' /\ OblistFound'
         /\ ~Top.late => \A n \in Names : \/ Found(n)' = Found(n)
                                          \/ Found(n) = 0 /\ n = Top.name
<1> DEFINE L == Len(calls)
<1>1. /\ TypeOK /\ CallsOK /\ InternsOK /\ InternsApart /\ SymbolsTypeOK
      /\ Alternate(calls) /\ OblistFound
  BY AlternateIs DEF TablesInv, TypeOK
<1>2. ~EvaluatesLisp /\ Top.fn = "intern" /\ Top.phase = "oblist"
  BY DEF StoreOblist, Running
<1>3. PICK a : a = Top
  OBVIOUS
<1>4. /\ L \in Nat \ {0} /\ a = calls[L] /\ a \in InternActs /\ IsIntern(calls, L)
      /\ a.fn = "intern" /\ a.phase = "oblist"
  BY <1>1, <1>2, <1>3, TopFacts
<1>5. /\ Popped \in Seq(Acts) /\ Alternate(Popped) /\ Len(Popped) = L - 1
      /\ \A i \in 1 .. L - 1 : Popped[i] = calls[i]
  BY <1>1, <1>2, TopFacts
<1>6. /\ oblist' = <<a.sym>> \o a.list
      /\ dropped' = (dropped \/ a.late)
      /\ obarray_dim' = obarray_dim /\ pname' = pname /\ obarray' = obarray
  BY <1>3 DEF StoreOblist
<1>7. InternOK(a) /\ a.name \in Names /\ a.late \in BOOLEAN /\ a.sym \in Nat
  BY <1>1, <1>4 DEF InternsOK, InternActs
<1>8. Len(pname) \in Nat /\ oblist \in Seq(1 .. Len(pname)) /\ oblist \in Seq(Nat)
  BY <1>1, <1>7, ListFacts
<1>9. /\ a.list \in Seq(1 .. Len(pname))
      /\ a.sym \in 1 .. Len(pname) /\ pname[a.sym] = a.name
      /\ ~a.late => a.list = oblist
      /\ ~a.late /\ ~HasObarray => Found(a.name) = 0
      /\ ~dropped => \A k \in 1 .. Len(oblist) : oblist[k] # a.sym
      /\ ~dropped /\ HasObarray => Found(a.name) = a.sym
  BY <1>4, <1>7, <1>8 DEF InternOK
<1>10. /\ Framed /\ Len(calls') = L - 1
       /\ \A i \in 1 .. L - 1 :
            /\ Like(calls[i], calls'[i])
            /\ Overtakes("oblist", calls[i]) => calls'[i] = [calls[i] EXCEPT !.late = TRUE]
  <2>1. calls' = OvertakeInterns("oblist", Popped)
    BY DEF StoreOblist
  <2>2. /\ calls' \in Seq(Acts) /\ Len(calls') = Len(Popped) /\ Alternate(calls')
        /\ \A i \in 1 .. Len(Popped) :
             /\ Like(Popped[i], calls'[i])
             /\ Overtakes("oblist", Popped[i]) => calls'[i] = [Popped[i] EXCEPT !.late = TRUE]
    BY <2>1, <1>5, MarkedInterns
  <2>3. QED
    BY <2>2, <1>5 DEF Framed
<1> HIDE DEF L
<1>11. ASSUME NEW i \in 1 .. Len(calls')
       PROVE  /\ i \in 1 .. L - 1 /\ i # L
              /\ i \in 1 .. Len(calls) /\ Like(calls[i], calls'[i]) /\ calls[i] \in Acts
              /\ calls'[i].fn = calls[i].fn
  <2>1. i \in 1 .. L - 1 /\ i # L /\ i \in 1 .. Len(calls)
    BY <1>4, <1>10 DEF L
  <2>2. calls[i] \in Acts /\ Like(calls[i], calls'[i])
    BY <2>1, <1>1, <1>10 DEF CallsOK
  <2>3. QED
    BY <2>1, <2>2, LikeActs
<1>12. SameHsets
  BY <1>11 DEF SameHsets, IsHset
<1>13. /\ oblist' \in Seq(1 .. Len(pname)) /\ Len(oblist') = Len(a.list) + 1
       /\ oblist'[1] = a.sym
       /\ \A k \in 1 .. Len(a.list) : oblist'[k + 1] = a.list[k]
  BY <1>6, <1>9, ConsFacts
<1>14. Len(a.list) \in Nat /\ \A k \in 1 .. Len(oblist') :
         k = 1 \/ (k - 1 \in 1 .. Len(a.list) /\ (k - 1) + 1 = k)
  <2>1. Len(a.list) \in Nat
    BY <1>9
  <2>2. QED
    BY <2>1, <1>13
<1>15. \A k \in 1 .. Len(oblist') : k # 1 => oblist'[k] = a.list[k - 1]
  <2>1. ASSUME NEW k \in 1 .. Len(oblist'), k # 1 PROVE oblist'[k] = a.list[k - 1]
    <3>1. k - 1 \in 1 .. Len(a.list) /\ (k - 1) + 1 = k
      BY <2>1, <1>14
    <3>2. QED
      BY <3>1, <1>13
  <2>2. QED
    BY <2>1
<1>16. SymbolsTypeOK'
  <2>1. dropped' \in BOOLEAN
    BY <1>6
  <2>2. QED
    BY <2>1, <1>1, <1>6, <1>13 DEF SymbolsTypeOK
<1>17. HasObarray' = HasObarray
  BY <1>6 DEF HasObarray
<1>18. ASSUME HasObarray, NEW n
       PROVE  ListFor(n)' = ListFor(n) /\ Found(n)' = Found(n)
  <2>1. ListFor(n)' = ListFor(n)
    BY <1>6, <1>17, <1>18 DEF ListFor, Hash
  <2>2. QED
    BY <2>1, <1>6, FoundIs
<1>19. ASSUME ~a.late, ~HasObarray, NEW n \in Names
       PROVE  Found(n)' = IF n = a.name THEN a.sym ELSE Found(n)
  <2>1. ListFor(n)' = <<a.sym>> \o ListFor(n)
    BY <1>6, <1>9, <1>17, <1>19 DEF ListFor
  <2>2. QED
    BY <2>1, <1>1, <1>6, <1>9, FoundAfterStore
<1>20. ASSUME ~dropped', NEW k \in 1 .. Len(oblist'), k # 1
       PROVE  k - 1 \in 1 .. Len(oblist) /\ oblist'[k] = oblist[k - 1]
  BY <1>6, <1>9, <1>14, <1>15, <1>20
<1>21. ASSUME NEW i, NEW b, IsIntern(calls', i) /\ b = calls'[i] PROVE InternOK(b)'
  <2>1. PICK c : c = calls[i]
    OBVIOUS
  <2>2. IsIntern(calls, i) /\ Like(c, b) /\ i \in 1 .. L - 1 /\ i # L
    BY <2>1, <1>11, <1>21 DEF IsIntern
  <2>3. c \in InternActs /\ InternOK(c) /\ c.name \in Names /\ c.fn = "intern"
    BY <2>1, <2>2, <1>1, InternActAt DEF InternsOK, InternActs
  <2>4. ~b.late => c.phase # "oblist" /\ HasObarray
    <3>1. ASSUME c.phase = "oblist" \/ ~HasObarray PROVE b.late
      <4>1. Overtakes("oblist", c)
        BY <3>1, <2>3 DEF Overtakes
      <4>2. b = [c EXCEPT !.late = TRUE]
        BY <4>1, <2>1, <2>2, <1>10, <1>21
      <4>3. QED
        BY <4>2, <2>3 DEF InternActs
    <3>2. QED
      BY <3>1
  <2>5. c.phase # "symcons" /\ ~dropped' => \A k \in 1 .. Len(oblist') : oblist'[k] # c.sym
    <3>1. ASSUME c.phase # "symcons", ~dropped', NEW k \in 1 .. Len(oblist')
          PROVE  oblist'[k] # c.sym
      <4>1. ~dropped
        BY <3>1, <1>6
      <4>2. c.sym # 0 /\ \A m \in 1 .. Len(oblist) : oblist[m] # c.sym
        BY <4>1, <3>1, <2>3 DEF InternOK
      <4>3. CASE k = 1
        <5>1. c.sym # a.sym
          BY <4>2, <2>1, <2>2, <1>1, <1>4 DEF InternsApart
        <5>2. QED
          BY <5>1, <4>3, <1>13
      <4>4. CASE k # 1
        BY <4>2, <4>4, <3>1, <1>20
      <4>5. QED
        BY <4>3, <4>4
    <3>2. QED
      BY <3>1
  <2>6. HasObarray => ListFor(c.name)' = ListFor(c.name) /\ Found(c.name)' = Found(c.name)
    BY <1>18
  <2>7. Len(pname') \in Nat /\ Len(pname) <= Len(pname')
    BY <1>6, <1>8
  <2>8. \A t \in 1 .. Len(pname) : pname'[t] = pname[t]
    BY <1>6
  <2>9. dropped => dropped'
    BY <1>6
  <2>10. QED
    BY <2>2, <2>3, <2>4, <2>5, <2>6, <2>7, <2>8, <2>9, <1>6, <1>8, InternStays
<1>22. InternsOK'
  BY <1>21, InternsAll
<1>23. InternsApart'
  <2>1. ASSUME NEW i, IsIntern(calls', i)
        PROVE  IsIntern(calls, i) /\ calls'[i].sym = calls[i].sym
    <3>1. IsIntern(calls, i) /\ Like(calls[i], calls'[i])
      BY <2>1, <1>11 DEF IsIntern
    <3>2. QED
      BY <3>1, <1>1, InternActAt, LateIntern
  <2>2. QED
    BY <2>1, <1>1 DEF InternsApart, IsIntern
<1>24. ASSUME ~dropped', NEW i \in DOMAIN oblist'
       PROVE  Found(pname[oblist[i]])' = oblist'[i]
  <2>1. ~dropped /\ ~a.late /\ i \in 1 .. Len(oblist')
    <3>1. ~dropped /\ ~a.late
      BY <1>6, <1>24
    <3>2. i \in 1 .. Len(oblist')
      BY <1>13, <1>24
    <3>3. QED
      BY <3>1, <3>2
  <2>2. CASE i = 1
    <3>1. Found(a.name)' = a.sym
      <4>1. CASE HasObarray
        BY <4>1, <2>1, <1>9, <1>18
      <4>2. CASE ~HasObarray
        BY <4>2, <2>1, <1>7, <1>19
      <4>3. QED
        BY <4>1, <4>2
    <3>2. a.name = pname'[oblist'[i]] /\ oblist'[i] = a.sym
      BY <2>2, <1>6, <1>9, <1>13
    <3>3. QED
      BY <3>1, <3>2 DEF Found, Find, ListFor, Hash
  <2>3. CASE i # 1
    <3>1. i - 1 \in DOMAIN oblist /\ oblist'[i] = oblist[i - 1]
      BY <2>1, <2>3, <1>8, <1>20, <1>24
    <3>2. oblist[i - 1] \in 1 .. Len(pname) /\ oblist[i - 1] # 0
      BY <3>1, <1>8
    <3>3. PICK n : n = pname[oblist[i - 1]]
      OBVIOUS
    <3>4. Found(n) = oblist[i - 1]
      BY <3>1, <3>3, <2>1, <1>1 DEF OblistFound
    <3>5. n \in Names
      BY <3>2, <3>3, <1>1 DEF SymbolsTypeOK
    <3>6. Found(n)' = oblist'[i]
      <4>1. CASE HasObarray
        BY <4>1, <3>1, <3>4, <1>18
      <4>2. CASE ~HasObarray
        <5>1. n # a.name
          BY <4>2, <3>2, <3>4, <2>1, <1>9
        <5>2. QED
          BY <5>1, <4>2, <3>1, <3>4, <3>5, <2>1, <1>19
      <4>3. QED
        BY <4>1, <4>2
    <3>7. n = pname'[oblist'[i]]
      BY <3>1, <3>3, <1>6
    <3>8. QED
      BY <3>6, <3>7 DEF Found, Find, ListFor, Hash
  <2>4. QED
    BY <2>2, <2>3
<1>25. ASSUME ~dropped' PROVE IsInjective(oblist')
  <2>1. ~dropped /\ IsInjective(oblist) /\ \A k \in 1 .. Len(oblist) : oblist[k] # a.sym
    BY <1>1, <1>6, <1>9, <1>25 DEF OblistFound
  <2>2. ASSUME NEW i \in 1 .. Len(oblist'), NEW j \in 1 .. Len(oblist'), oblist'[i] = oblist'[j]
        PROVE  i = j
    <3>1. CASE i = 1 \/ j = 1
      BY <3>1, <2>1, <2>2, <1>13, <1>20, <1>25
    <3>2. CASE i # 1 /\ j # 1
      <4>1. /\ i - 1 \in DOMAIN oblist /\ j - 1 \in DOMAIN oblist
            /\ oblist[i - 1] = oblist[j - 1]
        BY <3>2, <2>2, <1>8, <1>20, <1>25
      <4>2. i - 1 = j - 1
        BY <4>1, <2>1 DEF IsInjective
      <4>3. QED
        BY <4>2
    <3>3. QED
      BY <3>1, <3>2
  <2>3. DOMAIN oblist' = 1 .. Len(oblist')
    BY <1>13
  <2>4. QED
    BY <2>2, <2>3 DEF IsInjective
<1>26. OblistFound'
  BY <1>24, <1>25 DEF OblistFound
<1>27. ~Top.late => \A n \in Names : \/ Found(n)' = Found(n)
                                     \/ Found(n) = 0 /\ n = Top.name
  BY <1>3, <1>9, <1>18, <1>19
<1>28. QED
  BY <1>10, <1>12, <1>16, <1>22, <1>23, <1>26, <1>27

-----------------------------------------------------------------------------
(* href, with the tables it looks at: the contents of the keys of entries,  *)
(* and the value of the first entry of a list that has them.                *)
KeysOf(cont, ents) == [e \in 1 .. Len(ents) |-> cont[ents[e].key]]
ValueIn(c, cont, ents, list) ==
  LET e == First(c, KeysOf(cont, ents), list) IN IF e = 0 THEN None ELSE ents[e].value

LEMMA AssocIs ==
  ASSUME NEW c, NEW list \in Seq(1 .. Len(entries))
  PROVE  assoc(c, list) = First(c, KeysOf(content, entries), list)
<1>1. \A i \in 1 .. Len(list) : KeysOf(content, entries)[list[i]] = content[entries[list[i]].key]
  BY DEF KeysOf
<1>2. {i \in 1 .. Len(list) : content[entries[list[i]].key] = c}
        = {i \in 1 .. Len(list) : KeysOf(content, entries)[list[i]] = c}
  BY <1>1
<1>3. QED
  BY <1>2 DEF assoc, First, SelectInSeq

LEMMA AssocIsNext ==
  ASSUME NEW c, NEW list \in Seq(1 .. Len(entries'))
  PROVE  assoc(c, list)' = First(c, KeysOf(content', entries'), list)
<1>1. \A i \in 1 .. Len(list) :
        KeysOf(content', entries')[list[i]] = content'[entries'[list[i]].key]
  BY DEF KeysOf
<1>2. {i \in 1 .. Len(list) : content'[entries'[list[i]].key] = c}
        = {i \in 1 .. Len(list) : KeysOf(content', entries')[list[i]] = c}
  BY <1>1
<1>3. QED
  BY <1>2 DEF assoc, First, SelectInSeq

LEMMA HrefIs ==
  ASSUME NEW c, table[Sxhash[c]] \in Seq(1 .. Len(entries))
  PROVE  href(c) = ValueIn(c, content, entries, table[Sxhash[c]])
<1>1. assoc(c, table[Sxhash[c]]) = First(c, KeysOf(content, entries), table[Sxhash[c]])
  BY AssocIs
<1>2. QED
  BY <1>1 DEF href, ValueIn

LEMMA HrefIsNext ==
  ASSUME NEW c, table'[Sxhash[c]] \in Seq(1 .. Len(entries'))
  PROVE  href(c)' = ValueIn(c, content', entries', table'[Sxhash[c]])
<1>1. PICK list \in Seq(1 .. Len(entries')) : list = table'[Sxhash[c]]
  OBVIOUS
<1>2. assoc(c, list)' = First(c, KeysOf(content', entries'), list)
  BY AssocIsNext
<1>3. assoc(c, table[Sxhash[c]])' = First(c, KeysOf(content', entries'), table'[Sxhash[c]])
  BY <1>1, <1>2 DEF assoc
<1>4. QED
  BY <1>3 DEF href, ValueIn

LEMMA TableFacts ==
  ASSUME HashTableTypeOK, NEW c \in Contents
  PROVE  /\ Len(entries) \in Nat /\ Sxhash[c] \in Buckets
         /\ table[Sxhash[c]] \in Seq(1 .. Len(entries)) /\ table[Sxhash[c]] \in Seq(Nat)
         /\ \A i \in 1 .. Len(table[Sxhash[c]]) : table[Sxhash[c]][i] \in 1 .. Len(entries)
         /\ href(c) = ValueIn(c, content, entries, table[Sxhash[c]])
<1>1. Len(entries) \in Nat /\ Sxhash[c] \in Buckets
  BY DEF HashTableTypeOK, Buckets
<1>2. table[Sxhash[c]] \in Seq(1 .. Len(entries))
  BY <1>1 DEF HashTableTypeOK
<1>3. table[Sxhash[c]] \in Seq(Nat)
  <2>1. 1 .. Len(entries) \subseteq Nat
    BY <1>1
  <2>2. QED
    BY <2>1, <1>2, SeqWiden
<1>4. QED
  BY <1>1, <1>2, <1>3, HrefIs

(* The tables are as they were. *)
LEMMA HrefsSame ==
  ASSUME HashTableTypeOK, UNCHANGED tableVars
  PROVE  hrefs' = hrefs
<1>1. content' = content /\ entries' = entries /\ table' = table
  BY DEF tableVars
<1>2. ASSUME NEW c \in Contents PROVE href(c)' = href(c)
  BY <1>1, TableFacts, HrefIsNext
<1>3. QED
  BY <1>2 DEF hrefs

LEMMA HsetStays ==
  ASSUME NEW a \in HsetActs, NEW b, Like(a, b), HsetOK(a),
         Len(entries) \in Nat, Len(entries') \in Nat, Len(entries) <= Len(entries'),
         a.phase = "bucket" => entries'[a.entry] = entries[a.entry],
         ~b.late => href_index(a.key)' = href_index(a.key) /\ table'[a.index] = table[a.index],
         \A i \in Buckets : \A k \in 1 .. Len(table'[i]) : table'[i][k] # a.entry
  PROVE  HsetOK(b)'
<1>1. /\ b.key = a.key /\ b.value = a.value /\ b.phase = a.phase
      /\ b.index = a.index /\ b.list = a.list /\ b.entry = a.entry /\ (~b.late => ~a.late)
  BY LateHset
<1>2. b.entry <= Len(entries')
  BY <1>1 DEF HsetOK, HsetActs
<1>3. b.list \in Seq(1 .. Len(entries'))
  <2>1. 1 .. Len(entries) \subseteq 1 .. Len(entries')
    OBVIOUS
  <2>2. a.list \in Seq(1 .. Len(entries))
    BY DEF HsetOK
  <2>3. QED
    BY <2>1, <2>2, <1>1, SeqWiden
<1>4. b.phase = "bucket" =>
        b.entry # 0 /\ entries'[b.entry] = [key |-> b.key, value |-> b.value]
  BY <1>1 DEF HsetOK
<1>5. ~b.late => b.index = href_index(b.key)' /\ b.list = table'[b.index]
  BY <1>1 DEF HsetOK
<1>6. QED
  BY <1>1, <1>2, <1>3, <1>4, <1>5 DEF HsetOK

LEMMA HsetsAll ==
  ASSUME \A i, b : IsHset(calls', i) /\ b = calls'[i] => HsetOK(b)'
  PROVE  HsetsOK'
<1>1. ASSUME NEW i, IsHset(calls', i) PROVE HsetOK(calls[i])'
  <2>1. PICK b : b = calls'[i]
    OBVIOUS
  <2>2. HsetOK(b)'
    BY <1>1, <2>1
  <2>3. QED
    BY <2>1, <2>2 DEF HsetOK
<1>2. QED
  BY <1>1 DEF HsetsOK, IsHset

(* Activations of hset that are left, with what they have made. *)
LEMMA HsetsStayApart ==
  ASSUME CallsOK, HsetsApart,
         \A i : IsHset(calls', i) =>
           /\ IsHset(calls, i)
           /\ calls'[i].entry = calls[i].entry /\ calls'[i].list = calls[i].list
  PROVE  HsetsApart'
  BY DEF HsetsApart, IsHset

LEMMA HsetsLike ==
  ASSUME CallsOK, SameHsets, NEW i, IsHset(calls', i)
  PROVE  /\ IsHset(calls, i)
         /\ calls'[i].entry = calls[i].entry /\ calls'[i].list = calls[i].list
<1>1. IsHset(calls, i) /\ Like(calls[i], calls'[i])
  BY DEF SameHsets
<1>2. QED
  BY <1>1, HsetActAt, LateHset

(* A step that touches neither the tables nor the activations of hset,      *)
(* except that it may end some.                                             *)
LEMMA HsetsKept ==
  ASSUME HashTableTypeOK, CallsOK, HsetsOK, HsetsApart, SameHsets, UNCHANGED tableVars
  PROVE  HsetsOK' /\ HsetsApart' /\ HashTableTypeOK'
<1>1. content' = content /\ entries' = entries /\ table' = table
  BY DEF tableVars
<1>2. Len(entries) \in Nat
  BY DEF HashTableTypeOK
<1>3. ASSUME NEW i, NEW b, IsHset(calls', i) /\ b = calls'[i] PROVE HsetOK(b)'
  <2>1. PICK a : a = calls[i]
    OBVIOUS
  <2>2. a \in HsetActs /\ HsetOK(a) /\ Like(a, b)
    BY <1>3, <2>1, HsetActAt DEF SameHsets, HsetsOK
  <2>3. href_index(a.key)' = href_index(a.key) /\ table'[a.index] = table[a.index]
    BY <1>1 DEF href_index
  <2>4. \A j \in Buckets : \A k \in 1 .. Len(table'[j]) : table'[j][k] # a.entry
    BY <2>2, <1>1 DEF HsetOK
  <2>5. Len(entries') \in Nat /\ Len(entries) <= Len(entries')
    BY <1>1, <1>2
  <2>6. a.phase = "bucket" => entries'[a.entry] = entries[a.entry]
    BY <1>1
  <2>7. QED
    BY <2>2, <2>3, <2>4, <2>5, <2>6, <1>2, HsetStays
<1>4. HsetsOK'
  BY <1>3, HsetsAll
<1>5. HsetsApart'
  BY HsetsLike, HsetsStayApart
<1>6. HashTableTypeOK'
  BY <1>1 DEF HashTableTypeOK
<1>7. QED
  BY <1>4, <1>5, <1>6

-----------------------------------------------------------------------------
(* A call of hset for a key that has no entry. *)
LEMMA HsetEnters ==
  ASSUME TablesInv, NEW key \in Keys, NEW v \in Values, HsetNew(key, v)
  PROVE  Framed /\ SameInterns /\ HashTableTypeOK' /\ HsetsOK' /\ HsetsApart' /\ hrefs' = hrefs
<1> DEFINE a == Hset(key, v, "cell")
<1>1. /\ TypeOK /\ CallsOK /\ HsetsOK /\ HsetsApart /\ HashTableTypeOK /\ Alternate(calls)
  BY AlternateIs DEF TablesInv, TypeOK
<1>2. Enter(a) /\ UNCHANGED tableVars
  BY DEF HsetNew
<1>3. content[key] \in Contents
  BY <1>1 DEF HashTableTypeOK
<1>4. /\ href_index(key) \in Buckets /\ Len(entries) \in Nat
      /\ table[href_index(key)] \in Seq(1 .. Len(entries))
      /\ table[href_index(key)] \in Seq(Nat)
  BY <1>1, <1>3, TableFacts DEF href_index
<1>5. /\ a.fn = "hset" /\ a.key = key /\ a.value = v /\ a.phase = "cell" /\ a.entry = 0
      /\ a.index = href_index(key) /\ a.list = table[href_index(key)] /\ a.late = FALSE
      /\ a \in HsetActs
  BY <1>4 DEF Hset, HsetActs
<1>6. PICK b : b = a
  OBVIOUS
<1> HIDE DEF a
<1>7. /\ Framed
      /\ Len(calls') = Len(calls) + 1 /\ calls'[Len(calls) + 1] = b
      /\ \A i \in 1 .. Len(calls) : calls'[i] = calls[i]
  <2>1. b \in Acts /\ b.fn # "hook" /\ Enter(b)
    BY <1>2, <1>5, <1>6 DEF Acts
  <2>2. QED
    BY <2>1, <1>1, Entered
<1>8. content' = content /\ entries' = entries /\ table' = table
  BY <1>2 DEF tableVars
<1>9. HashTableTypeOK'
  BY <1>1, <1>8 DEF HashTableTypeOK
<1>10. Len(calls) \in Nat
  BY <1>1 DEF CallsOK
<1>11. \A i : i \in 1 .. Len(calls') => i \in 1 .. Len(calls) \/ i = Len(calls) + 1
  BY <1>7, <1>10
<1>12. SameInterns
  BY <1>5, <1>6, <1>7, <1>11, OthersLike DEF SameInterns, IsIntern
<1>13. \A i \in Buckets : \A k \in 1 .. Len(table[i]) : table[i][k] # 0
  <2>1. ASSUME NEW i \in Buckets, NEW k \in 1 .. Len(table[i]) PROVE table[i][k] # 0
    <3>1. table[i] \in Seq(1 .. Len(entries))
      BY <1>1 DEF HashTableTypeOK
    <3>2. table[i][k] \in 1 .. Len(entries)
      BY <3>1
    <3>3. QED
      BY <3>2
  <2>2. QED
    BY <2>1
<1>14. HsetOK(b)'
  <2>1. href_index(key)' = href_index(key)
    BY <1>8 DEF href_index
  <2>2. b.index = href_index(b.key)' /\ b.list = table'[b.index]
    BY <2>1, <1>5, <1>6, <1>8
  <2>3. \A i \in Buckets : \A k \in 1 .. Len(table'[i]) : table'[i][k] # b.entry
    BY <1>5, <1>6, <1>8, <1>13
  <2>4. b.entry <= Len(entries') /\ b.list \in Seq(1 .. Len(entries')) /\ b.phase # "bucket"
    BY <1>4, <1>5, <1>6, <1>8
  <2>5. QED
    BY <2>2, <2>3, <2>4 DEF HsetOK
<1>15. ASSUME NEW i, IsHset(calls', i), i \in 1 .. Len(calls)
       PROVE  IsHset(calls, i) /\ calls'[i] = calls[i] /\ calls[i] \in HsetActs
              /\ HsetOK(calls[i])
  <2>1. IsHset(calls, i) /\ calls'[i] = calls[i]
    BY <1>7, <1>15 DEF IsHset
  <2>2. QED
    BY <2>1, <1>1, HsetActAt DEF HsetsOK
<1>16. ASSUME NEW i, NEW c, IsHset(calls', i) /\ c = calls'[i] PROVE HsetOK(c)'
  <2>1. CASE i = Len(calls) + 1
    BY <2>1, <1>7, <1>14, <1>16
  <2>2. CASE i \in 1 .. Len(calls)
    <3>1. c \in HsetActs /\ HsetOK(c)
      BY <2>2, <1>15, <1>16
    <3>2. href_index(c.key)' = href_index(c.key) /\ table'[c.index] = table[c.index]
      BY <1>8 DEF href_index
    <3>3. \A j \in Buckets : \A k \in 1 .. Len(table'[j]) : table'[j][k] # c.entry
      BY <3>1, <1>8 DEF HsetOK
    <3>4. Len(entries') \in Nat /\ Len(entries) <= Len(entries')
      BY <1>4, <1>8
    <3>5. c.phase = "bucket" => entries'[c.entry] = entries[c.entry]
      BY <1>8
    <3>6. Like(c, c)
      BY OthersLike
    <3>7. QED
      BY <3>1, <3>2, <3>3, <3>4, <3>5, <3>6, <1>4, HsetStays
  <2>3. QED
    BY <2>1, <2>2, <1>11, <1>16 DEF IsHset
<1>17. HsetsOK'
  BY <1>16, HsetsAll
<1>18. HsetsApart'
  <2>1. ASSUME NEW i, NEW j, IsHset(calls', i), IsHset(calls', j), i # j
        PROVE  /\ calls'[i].entry = 0 \/ calls'[i].entry # calls'[j].entry
               /\ \A k \in 1 .. Len(calls'[j].list) : calls'[j].list[k] # calls'[i].entry
    <3>1. CASE i = Len(calls) + 1
      <4>1. j \in 1 .. Len(calls)
        BY <3>1, <2>1, <1>11 DEF IsHset
      <4>2. calls'[j].list \in Seq(1 .. Len(entries))
        BY <4>1, <2>1, <1>15 DEF HsetOK
      <4>3. \A k \in 1 .. Len(calls'[j].list) : calls'[j].list[k] \in 1 .. Len(entries)
        BY <4>2
      <4>4. \A k \in 1 .. Len(calls'[j].list) : calls'[j].list[k] # 0
        BY <4>3
      <4>5. QED
        BY <3>1, <4>4, <1>5, <1>6, <1>7
    <3>2. CASE j = Len(calls) + 1
      <4>1. i \in 1 .. Len(calls)
        BY <3>2, <2>1, <1>11 DEF IsHset
      <4>2. \A k \in 1 .. Len(table[href_index(key)]) :
              table[href_index(key)][k] # calls'[i].entry
        BY <4>1, <2>1, <1>4, <1>15 DEF HsetOK
      <4>3. calls'[j].entry = 0 /\ calls'[j].list = table[href_index(key)]
        BY <3>2, <1>5, <1>6, <1>7
      <4>4. QED
        BY <4>2, <4>3
    <3>3. CASE i \in 1 .. Len(calls) /\ j \in 1 .. Len(calls)
      BY <3>3, <2>1, <1>1, <1>15 DEF HsetsApart
    <3>4. QED
      BY <3>1, <3>2, <3>3, <2>1, <1>11 DEF IsHset
  <2>2. QED
    BY <2>1 DEF HsetsApart, IsHset
<1>19. hrefs' = hrefs
  BY <1>1, <1>2, HrefsSame
<1>20. QED
  BY <1>7, <1>9, <1>12, <1>17, <1>18, <1>19

(* The entry is made. *)
LEMMA HsetCellStep ==
  ASSUME TablesInv, HsetCell
  PROVE  Framed /\ SameInterns /\ HashTableTypeOK' /\ HsetsOK' /\ HsetsApart' /\ hrefs' = hrefs
<1> DEFINE L == Len(calls)
           e == Len(entries) + 1
<1>1. /\ TypeOK /\ CallsOK /\ HsetsOK /\ HsetsApart /\ HashTableTypeOK /\ Alternate(calls)
  BY AlternateIs DEF TablesInv, TypeOK
<1>2. ~EvaluatesLisp /\ Top.fn = "hset" /\ Top.phase = "cell" /\ Len(entries) < MaxEntries
  BY DEF HsetCell, Running
<1>3. PICK a : a = Top
  OBVIOUS
<1>4. /\ L \in Nat \ {0} /\ a = calls[L] /\ a \in HsetActs /\ IsHset(calls, L)
      /\ a.fn = "hset" /\ a.phase = "cell"
  BY <1>1, <1>2, <1>3, TopFacts
<1>5. /\ Popped \in Seq(Acts) /\ Alternate(Popped) /\ Len(Popped) = L - 1
      /\ \A i \in 1 .. L - 1 : Popped[i] = calls[i]
  BY <1>1, <1>2, TopFacts
<1>6. /\ entries' = Append(entries, [key |-> a.key, value |-> a.value])
      /\ content' = content /\ table' = table
  BY <1>3 DEF HsetCell
<1>7. HsetOK(a) /\ a.key \in Keys /\ a.value \in Values /\ a.list \in Seq(Nat)
  BY <1>1, <1>4 DEF HsetsOK, HsetActs
<1>8. Len(entries) \in Nat /\ entries \in Seq([key : Keys, value : Values])
  BY <1>1 DEF HashTableTypeOK
<1>9. PICK x : x = [a EXCEPT !.phase = "bucket", !.entry = e]
  OBVIOUS
<1>10. calls' = Append(Popped, x)
  BY <1>3, <1>9 DEF HsetCell
<1>11. /\ x.fn = "hset" /\ x.key = a.key /\ x.value = a.value /\ x.phase = "bucket"
       /\ x.index = a.index /\ x.list = a.list /\ x.entry = e /\ x.late = a.late
       /\ x \in HsetActs
  <2>1. x = [fn |-> "hset", key |-> a.key, value |-> a.value, phase |-> "bucket",
             index |-> a.index, list |-> a.list, entry |-> e, late |-> a.late]
    BY <1>4, <1>9 DEF HsetActs
  <2>2. e \in Nat /\ a.index \in Buckets /\ a.late \in BOOLEAN
    BY <1>4, <1>8 DEF HsetActs
  <2>3. x \in HsetActs
    <3> HIDE DEF e
    <3>1. QED
      BY <2>1, <2>2, <1>7 DEF HsetActs
  <2>4. QED
    BY <2>1, <2>3
<1>12. /\ Framed
       /\ Len(calls') = L /\ calls'[L] = x
       /\ \A i \in 1 .. L - 1 : calls'[i] = calls[i]
  <2>1. x \in Acts /\ x.fn # "hook"
    BY <1>11 DEF Acts
  <2>2. QED
    BY <2>1, <1>1, <1>2, <1>5, <1>10, TopReplaced
<1> HIDE DEF L
<1>13. \A i : i \in 1 .. Len(calls') => i \in 1 .. L - 1 \/ i = L
  BY <1>4, <1>12
<1>14. \A i : i \in 1 .. L - 1 => i \in 1 .. Len(calls) /\ calls'[i] = calls[i]
  BY <1>4, <1>12 DEF L
<1>15. SameInterns
  BY <1>11, <1>12, <1>13, <1>14, OthersLike DEF SameInterns, IsIntern
<1>16. /\ entries' \in Seq([key : Keys, value : Values]) /\ Len(entries') = e
       /\ entries'[e] = [key |-> a.key, value |-> a.value]
       /\ \A i \in 1 .. Len(entries) : entries'[i] = entries[i]
  <2>1. [key |-> a.key, value |-> a.value] \in [key : Keys, value : Values]
    BY <1>7
  <2>2. PICK r : r = [key |-> a.key, value |-> a.value]
    OBVIOUS
  <2>3. QED
    BY <2>1, <2>2, <1>6, <1>8
<1>17. \A list : list \in Seq(1 .. Len(entries)) => list \in Seq(1 .. Len(entries'))
  <2>1. 1 .. Len(entries) \subseteq 1 .. Len(entries')
    BY <1>8, <1>16
  <2>2. QED
    BY <2>1, SeqWiden
<1>18. HashTableTypeOK'
  <2>1. Len(entries') <= MaxEntries
    BY <1>2, <1>8, <1>16, MaxEntriesAssumption
  <2>2. QED
    BY <2>1, <1>1, <1>6, <1>16, <1>17 DEF HashTableTypeOK
<1>19. ASSUME NEW c \in Contents PROVE href(c)' = href(c)
  <2>1. PICK list : list = table[Sxhash[c]]
    OBVIOUS
  <2>2. /\ list \in Seq(1 .. Len(entries)) /\ list \in Seq(Nat)
        /\ \A i \in 1 .. Len(list) : list[i] \in 1 .. Len(entries)
        /\ href(c) = ValueIn(c, content, entries, list)
    BY <2>1, <1>1, TableFacts
  <2>3. href(c)' = ValueIn(c, content, entries', list)
    BY <2>1, <2>2, <1>6, <1>17, HrefIsNext
  <2>4. \A i \in 1 .. Len(list) :
          KeysOf(content, entries')[list[i]] = KeysOf(content, entries)[list[i]]
    BY <2>2, <1>8, <1>16 DEF KeysOf
  <2>5. First(c, KeysOf(content, entries'), list) = First(c, KeysOf(content, entries), list)
    BY <2>2, <2>4, FirstSame
  <2>6. CASE First(c, KeysOf(content, entries), list) = 0
    BY <2>2, <2>3, <2>5, <2>6 DEF ValueIn
  <2>7. CASE First(c, KeysOf(content, entries), list) # 0
    <3>1. First(c, KeysOf(content, entries), list) \in 1 .. Len(entries)
      BY <2>2, <2>7, FirstFinds
    <3>2. QED
      BY <3>1, <2>2, <2>3, <2>5, <1>16 DEF ValueIn
  <2>8. QED
    BY <2>6, <2>7
<1>20. hrefs' = hrefs
  BY <1>19 DEF hrefs
<1>21. HsetOK(x)'
  <2>1. x.entry <= Len(entries') /\ x.entry # 0
        /\ entries'[x.entry] = [key |-> x.key, value |-> x.value]
    BY <1>8, <1>11, <1>16
  <2>2. x.list \in Seq(1 .. Len(entries'))
    BY <1>7, <1>11, <1>17 DEF HsetOK
  <2>3. ~x.late => x.index = href_index(x.key)' /\ x.list = table'[x.index]
    <3>1. href_index(a.key)' = href_index(a.key)
      BY <1>6 DEF href_index
    <3>2. QED
      BY <3>1, <1>6, <1>7, <1>11 DEF HsetOK
  <2>4. ASSUME NEW i \in Buckets, NEW k \in 1 .. Len(table'[i]) PROVE table'[i][k] # x.entry
    <3>1. table[i] \in Seq(1 .. Len(entries)) /\ table'[i] = table[i]
      BY <1>1, <1>6 DEF HashTableTypeOK
    <3>2. table'[i][k] \in 1 .. Len(entries)
      BY <3>1
    <3>3. QED
      BY <3>2, <1>8, <1>11
  <2>5. QED
    BY <2>1, <2>2, <2>3, <2>4 DEF HsetOK
<1>22. ASSUME NEW i \in 1 .. L - 1, IsHset(calls', i)
       PROVE  /\ IsHset(calls, i) /\ calls'[i] = calls[i] /\ calls[i] \in HsetActs
              /\ HsetOK(calls[i])
              /\ calls[i].entry \in Nat /\ calls[i].entry <= Len(entries)
              /\ \A k \in 1 .. Len(calls[i].list) : calls[i].list[k] \in 1 .. Len(entries)
  <2>1. IsHset(calls, i) /\ calls'[i] = calls[i]
    BY <1>14, <1>22 DEF IsHset
  <2>2. calls[i] \in HsetActs /\ HsetOK(calls[i])
    BY <2>1, <1>1, HsetActAt DEF HsetsOK
  <2>3. calls[i].entry \in Nat /\ calls[i].entry <= Len(entries)
        /\ calls[i].list \in Seq(1 .. Len(entries))
    BY <2>2 DEF HsetActs, HsetOK
  <2>4. QED
    BY <2>1, <2>2, <2>3
<1>23. ASSUME NEW i, NEW c, IsHset(calls', i) /\ c = calls'[i] PROVE HsetOK(c)'
  <2>1. CASE i = L
    BY <2>1, <1>12, <1>21, <1>23
  <2>2. CASE i \in 1 .. L - 1
    <3>1. c \in HsetActs /\ HsetOK(c) /\ c.entry \in Nat /\ c.entry <= Len(entries)
      BY <2>2, <1>22, <1>23
    <3>2. href_index(c.key)' = href_index(c.key) /\ table'[c.index] = table[c.index]
      BY <1>6 DEF href_index
    <3>3. \A j \in Buckets : \A k \in 1 .. Len(table'[j]) : table'[j][k] # c.entry
      BY <3>1, <1>6 DEF HsetOK
    <3>4. Len(entries') \in Nat /\ Len(entries) <= Len(entries')
      BY <1>8, <1>16
    <3>5. c.phase = "bucket" => entries'[c.entry] = entries[c.entry]
      <4>1. c.phase = "bucket" => c.entry \in 1 .. Len(entries)
        BY <3>1, <1>8 DEF HsetOK
      <4>2. QED
        BY <4>1, <1>16
    <3>6. Like(c, c)
      BY OthersLike
    <3>7. QED
      BY <3>1, <3>2, <3>3, <3>4, <3>5, <3>6, <1>8, HsetStays
  <2>3. QED
    BY <2>1, <2>2, <1>13, <1>23 DEF IsHset
<1>24. HsetsOK'
  BY <1>23, HsetsAll
<1>25. HsetsApart'
  <2>1. ASSUME NEW i, NEW j, IsHset(calls', i), IsHset(calls', j), i # j
        PROVE  /\ calls'[i].entry = 0 \/ calls'[i].entry # calls'[j].entry
               /\ \A k \in 1 .. Len(calls'[j].list) : calls'[j].list[k] # calls'[i].entry
    <3>1. CASE i = L
      <4>1. j \in 1 .. L - 1
        BY <3>1, <2>1, <1>13 DEF IsHset
      <4>2. /\ calls'[j].entry \in Nat /\ calls'[j].entry <= Len(entries)
            /\ \A k \in 1 .. Len(calls'[j].list) : calls'[j].list[k] \in 1 .. Len(entries)
        BY <4>1, <2>1, <1>22
      <4>3. calls'[i].entry = Len(entries) + 1
        BY <3>1, <1>11, <1>12
      <4>4. QED
        BY <4>2, <4>3, <1>8
    <3>2. CASE j = L
      <4>1. i \in 1 .. L - 1
        BY <3>2, <2>1, <1>13 DEF IsHset
      <4>2. /\ IsHset(calls, i) /\ calls'[i] = calls[i]
            /\ calls'[i].entry \in Nat /\ calls'[i].entry <= Len(entries)
        BY <4>1, <2>1, <1>22
      <4>3. \A k \in 1 .. Len(a.list) : a.list[k] # calls[i].entry
        BY <3>2, <4>2, <2>1, <1>1, <1>4 DEF HsetsApart
      <4>4. calls'[j].entry = Len(entries) + 1 /\ calls'[j].list = a.list
        BY <3>2, <1>11, <1>12
      <4>5. calls'[i].entry # calls'[j].entry
        BY <4>2, <4>4, <1>8
      <4>6. QED
        BY <4>2, <4>3, <4>4, <4>5
    <3>3. CASE i \in 1 .. L - 1 /\ j \in 1 .. L - 1
      BY <3>3, <2>1, <1>1, <1>22 DEF HsetsApart
    <3>4. QED
      BY <3>1, <3>2, <3>3, <2>1, <1>13 DEF IsHset
  <2>2. QED
    BY <2>1 DEF HsetsApart, IsHset
<1>26. QED
  BY <1>12, <1>15, <1>18, <1>20, <1>24, <1>25

(* hset of a key that has an entry. *)
LEMMA HsetOldStep ==
  ASSUME TablesInv, NEW key \in Keys, NEW v \in Values, HsetOld(key, v)
  PROVE  /\ Framed /\ SameInterns /\ HashTableTypeOK' /\ HsetsOK' /\ HsetsApart'
         /\ hrefs' = [hrefs EXCEPT ![content[key]] = v]
<1>1. /\ TypeOK /\ CallsOK /\ HsetsOK /\ HsetsApart /\ HashTableTypeOK /\ Alternate(calls)
  BY AlternateIs DEF TablesInv, TypeOK
<1>2. PICK k : k = content[key]
  OBVIOUS
<1>3. PICK list : list = table[Sxhash[k]]
  OBVIOUS
<1>4. k \in Contents
  BY <1>1, <1>2 DEF HashTableTypeOK
<1>5. /\ Len(entries) \in Nat /\ Sxhash[k] \in Buckets
      /\ list \in Seq(1 .. Len(entries)) /\ list \in Seq(Nat)
      /\ \A i \in 1 .. Len(list) : list[i] \in 1 .. Len(entries)
  BY <1>1, <1>3, <1>4, TableFacts
<1>6. PICK e : e = assoc(k, list)
  OBVIOUS
<1>7. /\ e # 0 /\ entries' = [entries EXCEPT ![e].value = v]
      /\ calls' = calls /\ content' = content /\ table' = table
  BY <1>2, <1>3, <1>6 DEF HsetOld, href_index
<1>8. e = First(k, KeysOf(content, entries), list)
  BY <1>5, <1>6, AssocIs
<1>9. KeysOf(content, entries)[e] = k /\ \E i \in 1 .. Len(list) : list[i] = e
  BY <1>5, <1>7, <1>8, FirstFinds
<1>10. e \in 1 .. Len(entries)
  BY <1>5, <1>9
<1>11. entries \in Seq([key : Keys, value : Values])
  BY <1>1 DEF HashTableTypeOK
<1>12. /\ entries' \in Seq([key : Keys, value : Values]) /\ Len(entries') = Len(entries)
       /\ \A i \in 1 .. Len(entries) :
            /\ entries'[i].key = entries[i].key
            /\ i # e => entries'[i] = entries[i]
       /\ entries'[e].value = v
  <2>1. entries[e] \in [key : Keys, value : Values]
    BY <1>10, <1>11, ElementIn
  <2>2. PICK r : r = [entries[e] EXCEPT !.value = v]
    OBVIOUS
  <2>3. r \in [key : Keys, value : Values] /\ r.key = entries[e].key /\ r.value = v
    BY <2>1, <2>2
  <2>4. entries' = [entries EXCEPT ![e] = r]
    BY <2>2, <1>7
  <2>5. /\ entries' \in Seq([key : Keys, value : Values]) /\ Len(entries') = Len(entries)
        /\ \A i \in 1 .. Len(entries) : entries'[i] = IF i = e THEN r ELSE entries[i]
    BY <2>3, <2>4, <1>10, <1>11, PutFacts
  <2>6. QED
    BY <2>3, <2>5, <1>10
<1>13. HashTableTypeOK'
  BY <1>1, <1>7, <1>12 DEF HashTableTypeOK
<1>14. Framed
  BY <1>1, <1>7 DEF Framed, CallsOK
<1>15. SameInterns /\ SameHsets
  BY <1>7, OthersLike DEF SameInterns, SameHsets
<1>16. KeysOf(content', entries') = KeysOf(content, entries)
  BY <1>7, <1>12 DEF KeysOf
<1>17. ASSUME NEW c \in Contents PROVE href(c)' = IF c = k THEN v ELSE href(c)
  <2>1. PICK l : l = table[Sxhash[c]]
    OBVIOUS
  <2>2. /\ l \in Seq(1 .. Len(entries)) /\ l \in Seq(Nat)
        /\ \A i \in 1 .. Len(l) : l[i] \in 1 .. Len(entries)
        /\ href(c) = ValueIn(c, content, entries, l)
    BY <2>1, <1>1, TableFacts
  <2>3. href(c)' = ValueIn(c, content', entries', l)
    BY <2>1, <2>2, <1>7, <1>12, HrefIsNext
  <2>4. PICK f : f = First(c, KeysOf(content, entries), l)
    OBVIOUS
  <2>5. /\ href(c) = IF f = 0 THEN None ELSE entries[f].value
        /\ href(c)' = IF f = 0 THEN None ELSE entries'[f].value
    BY <2>2, <2>3, <2>4, <1>16 DEF ValueIn
  <2>6. CASE c = k
    BY <2>1, <2>4, <2>5, <2>6, <1>3, <1>7, <1>8, <1>12
  <2>7. CASE c # k /\ f = 0
    BY <2>5, <2>7
  <2>8. CASE c # k /\ f # 0
    <3>1. KeysOf(content, entries)[f] = c /\ f \in 1 .. Len(entries)
      BY <2>2, <2>4, <2>8, FirstFinds
    <3>2. f # e
      BY <3>1, <2>8, <1>9
    <3>3. QED
      BY <3>1, <3>2, <2>5, <2>8, <1>12
  <2>9. QED
    BY <2>6, <2>7, <2>8
<1>18. hrefs' = [hrefs EXCEPT ![content[key]] = v]
  BY <1>2, <1>4, <1>17 DEF hrefs
<1>19. ASSUME NEW i, NEW b, IsHset(calls', i) /\ b = calls'[i] PROVE HsetOK(b)'
  <2>1. b \in HsetActs /\ HsetOK(b)
    BY <1>1, <1>7, <1>19, HsetActAt DEF HsetsOK
  <2>2. href_index(b.key)' = href_index(b.key) /\ table'[b.index] = table[b.index]
    BY <1>7 DEF href_index
  <2>3. \A j \in Buckets : \A n \in 1 .. Len(table'[j]) : table'[j][n] # b.entry
    BY <2>1, <1>7 DEF HsetOK
  <2>4. b.entry # e
    <3>1. \A n \in 1 .. Len(list) : list[n] # b.entry
      BY <2>1, <1>3, <1>5 DEF HsetOK
    <3>2. QED
      BY <3>1, <1>9
  <2>5. b.phase = "bucket" => entries'[b.entry] = entries[b.entry]
    <3>1. b.phase = "bucket" => b.entry \in 1 .. Len(entries)
      BY <2>1, <1>5 DEF HsetOK, HsetActs
    <3>2. QED
      BY <3>1, <2>4, <1>12
  <2>6. Len(entries') \in Nat /\ Len(entries) <= Len(entries')
    BY <1>5, <1>12
  <2>7. Like(b, b)
    BY OthersLike
  <2>8. QED
    BY <2>1, <2>2, <2>3, <2>5, <2>6, <2>7, <1>5, HsetStays
<1>20. HsetsOK'
  BY <1>19, HsetsAll
<1>21. HsetsApart'
  BY <1>1, <1>15, HsetsLike, HsetsStayApart
<1>22. QED
  BY <1>13, <1>14, <1>15, <1>18, <1>20, <1>21

(* The program changes the contents of a key. *)
LEMMA AsetStep ==
  ASSUME TablesInv, NEW key \in Keys, NEW c \in Contents, siod_aset(key, c)
  PROVE  /\ Framed /\ SameInterns /\ HashTableTypeOK' /\ HsetsOK' /\ HsetsApart'
         /\ hrefs' = hrefs \/ content' # content
<1>1. /\ TypeOK /\ CallsOK /\ HsetsOK /\ HsetsApart /\ HashTableTypeOK /\ Alternate(calls)
  BY AlternateIs DEF TablesInv, TypeOK
<1>2. /\ content' = [content EXCEPT ![key] = c] /\ entries' = entries /\ table' = table
      /\ calls' = OvertakeHsets({}, {key}, calls)
  BY DEF siod_aset
<1>3. calls \in Seq(Acts)
  BY <1>1 DEF CallsOK
<1>4. /\ calls' \in Seq(Acts) /\ Len(calls') = Len(calls) /\ Alternate(calls')
      /\ \A i \in 1 .. Len(calls) : Like(calls[i], calls'[i])
  BY <1>1, <1>2, <1>3, MarkedHsets
<1>5. ASSUME NEW i \in 1 .. Len(calls')
      PROVE  i \in 1 .. Len(calls) /\ Like(calls[i], calls'[i]) /\ calls'[i].fn = calls[i].fn
  <2>1. i \in 1 .. Len(calls) /\ Like(calls[i], calls'[i]) /\ calls[i] \in Acts
    BY <1>3, <1>4
  <2>2. QED
    BY <2>1, LikeActs
<1>6. SameInterns /\ SameHsets
  BY <1>5 DEF SameInterns, SameHsets, IsIntern, IsHset
<1>7. Framed
  BY <1>4 DEF Framed
<1>8. HashTableTypeOK'
  BY <1>1, <1>2 DEF HashTableTypeOK
<1>9. Len(entries) \in Nat
  BY <1>1 DEF HashTableTypeOK
<1>10. ASSUME NEW i, NEW b, IsHset(calls', i) /\ b = calls'[i] PROVE HsetOK(b)'
  <2>1. PICK a : a = calls[i]
    OBVIOUS
  <2>2. IsHset(calls, i) /\ i \in 1 .. Len(calls) /\ Like(a, b)
    BY <2>1, <1>5, <1>10 DEF IsHset
  <2>3. a \in HsetActs /\ HsetOK(a) /\ a.fn = "hset" /\ a.key \in Keys
    BY <2>1, <2>2, <1>1, HsetActAt DEF HsetsOK, HsetActs
  <2>4. ~b.late => a.key # key
    <3>1. ASSUME a.key = key PROVE b.late
      <4>1. b = [a EXCEPT !.late = TRUE]
        BY <3>1, <2>1, <2>2, <2>3, <1>1, <1>2, <1>3, <1>10, MarkedHsets
      <4>2. QED
        BY <4>1, <2>3 DEF HsetActs
    <3>2. QED
      BY <3>1
  <2>5. ~b.late => href_index(a.key)' = href_index(a.key) /\ table'[a.index] = table[a.index]
    <3>1. content \in [Keys -> Contents]
      BY <1>1 DEF HashTableTypeOK
    <3>2. a.key # key => content'[a.key] = content[a.key]
      BY <3>1, <2>3, <1>2
    <3>3. QED
      BY <3>2, <2>4, <1>2 DEF href_index
  <2>6. \A j \in Buckets : \A k \in 1 .. Len(table'[j]) : table'[j][k] # a.entry
    BY <2>3, <1>2 DEF HsetOK
  <2>7. Len(entries') \in Nat /\ Len(entries) <= Len(entries')
    BY <1>2, <1>9
  <2>8. a.phase = "bucket" => entries'[a.entry] = entries[a.entry]
    BY <1>2
  <2>9. QED
    BY <2>2, <2>3, <2>5, <2>6, <2>7, <2>8, <1>9, HsetStays
<1>11. HsetsOK'
  BY <1>10, HsetsAll
<1>12. HsetsApart'
  BY <1>1, <1>6, HsetsLike, HsetsStayApart
<1>13. content' = content => hrefs' = hrefs
  BY <1>1, <1>2, HrefsSame DEF tableVars
<1>14. QED
  BY <1>6, <1>7, <1>8, <1>11, <1>12, <1>13

(* The list with the entry in front is stored, and hset returns. *)
LEMMA HsetBucketStep ==
  ASSUME TablesInv, HsetBucket
  PROVE  /\ Framed /\ SameInterns /\ HashTableTypeOK' /\ HsetsOK' /\ HsetsApart'
         /\ ~Top.late => hrefs' = [hrefs EXCEPT ![content[Top.key]] = Top.value]
<1> DEFINE L == Len(calls)
<1>1. /\ TypeOK /\ CallsOK /\ HsetsOK /\ HsetsApart /\ HashTableTypeOK /\ Alternate(calls)
  BY AlternateIs DEF TablesInv, TypeOK
<1>2. ~EvaluatesLisp /\ Top.fn = "hset" /\ Top.phase = "bucket"
  BY DEF HsetBucket, Running
<1>3. PICK a : a = Top
  OBVIOUS
<1>4. /\ L \in Nat \ {0} /\ a = calls[L] /\ a \in HsetActs /\ IsHset(calls, L)
      /\ a.fn = "hset" /\ a.phase = "bucket"
  BY <1>1, <1>2, <1>3, TopFacts
<1>5. /\ Popped \in Seq(Acts) /\ Alternate(Popped) /\ Len(Popped) = L - 1
      /\ \A i \in 1 .. L - 1 : Popped[i] = calls[i]
  BY <1>1, <1>2, TopFacts
<1>6. /\ table' = [table EXCEPT ![a.index] = <<a.entry>> \o a.list]
      /\ content' = content /\ entries' = entries
  BY <1>3 DEF HsetBucket
<1>7. /\ HsetOK(a) /\ a.key \in Keys /\ a.value \in Values /\ a.index \in Buckets
      /\ a.entry \in Nat
  BY <1>1, <1>4 DEF HsetsOK, HsetActs
<1>8. Len(entries) \in Nat /\ DOMAIN table = Buckets /\ content \in [Keys -> Contents]
  BY <1>1 DEF HashTableTypeOK
<1>9. /\ a.entry \in 1 .. Len(entries) /\ a.list \in Seq(1 .. Len(entries))
      /\ entries[a.entry] = [key |-> a.key, value |-> a.value]
      /\ ~a.late => a.index = href_index(a.key) /\ a.list = table[a.index]
  BY <1>4, <1>7, <1>8 DEF HsetOK
<1>10. /\ Framed /\ Len(calls') = L - 1
       /\ \A i \in 1 .. L - 1 :
            /\ Like(calls[i], calls'[i])
            /\ calls[i].fn = "hset" /\ calls[i].index \in {a.index} =>
                 calls'[i] = [calls[i] EXCEPT !.late = TRUE]
  <2>1. calls' = OvertakeHsets({a.index}, {}, Popped)
    BY <1>3 DEF HsetBucket
  <2>2. /\ calls' \in Seq(Acts) /\ Len(calls') = Len(Popped) /\ Alternate(calls')
        /\ \A i \in 1 .. Len(Popped) :
             /\ Like(Popped[i], calls'[i])
             /\ Popped[i].fn = "hset" /\ Popped[i].index \in {a.index} =>
                  calls'[i] = [Popped[i] EXCEPT !.late = TRUE]
    BY <2>1, <1>5, MarkedHsets
  <2>3. QED
    BY <2>2, <1>5 DEF Framed
<1> HIDE DEF L
<1>11. ASSUME NEW i \in 1 .. Len(calls')
       PROVE  /\ i \in 1 .. L - 1 /\ i # L
              /\ i \in 1 .. Len(calls) /\ Like(calls[i], calls'[i])
              /\ calls'[i].fn = calls[i].fn
  <2>1. i \in 1 .. L - 1 /\ i # L /\ i \in 1 .. Len(calls)
    BY <1>4, <1>10 DEF L
  <2>2. calls[i] \in Acts /\ Like(calls[i], calls'[i])
    BY <2>1, <1>1, <1>10 DEF CallsOK
  <2>3. QED
    BY <2>1, <2>2, LikeActs
<1>12. SameInterns /\ SameHsets
  BY <1>11 DEF SameInterns, SameHsets, IsIntern, IsHset
<1>13. PICK l : l = <<a.entry>> \o a.list
  OBVIOUS
<1>14. /\ l \in Seq(1 .. Len(entries)) /\ Len(l) = Len(a.list) + 1 /\ l[1] = a.entry
       /\ \A k \in 1 .. Len(a.list) : l[k + 1] = a.list[k]
  BY <1>9, <1>13, ConsFacts
<1>15. /\ DOMAIN table' = Buckets
       /\ \A b \in Buckets : table'[b] = IF b = a.index THEN l ELSE table[b]
  BY <1>6, <1>7, <1>8, <1>13
<1>16. HashTableTypeOK'
  BY <1>1, <1>6, <1>14, <1>15 DEF HashTableTypeOK
<1>17. ASSUME NEW i, IsHset(calls', i), NEW c, c = calls[i], c.entry # 0
       PROVE  \A k \in 1 .. Len(l) : l[k] # c.entry
  <2>1. IsHset(calls, i) /\ i # L
    BY <1>11, <1>12, <1>17 DEF IsHset, SameHsets
  <2>2. c.entry # a.entry /\ \A k \in 1 .. Len(a.list) : a.list[k] # c.entry
    BY <2>1, <1>1, <1>4, <1>17 DEF HsetsApart
  <2>3. Len(a.list) \in Nat
    BY <1>9
  <2>4. ASSUME NEW k \in 1 .. Len(l) PROVE l[k] # c.entry
    <3>1. CASE k = 1
      BY <3>1, <2>2, <1>14
    <3>2. CASE k # 1
      <4>1. k - 1 \in 1 .. Len(a.list) /\ (k - 1) + 1 = k
        BY <3>2, <2>3, <1>14
      <4>2. l[k] = a.list[k - 1]
        BY <4>1, <1>14
      <4>3. QED
        BY <4>1, <4>2, <2>2
    <3>3. QED
      BY <3>1, <3>2
  <2>5. QED
    BY <2>4
<1>18. \A k \in 1 .. Len(l) : l[k] # 0
  <2>1. \A k \in 1 .. Len(l) : l[k] \in 1 .. Len(entries)
    BY <1>14
  <2>2. QED
    BY <2>1
<1>19. ASSUME NEW i, NEW b, IsHset(calls', i) /\ b = calls'[i] PROVE HsetOK(b)'
  <2>1. PICK c : c = calls[i]
    OBVIOUS
  <2>2. IsHset(calls, i) /\ i \in 1 .. L - 1 /\ Like(c, b)
    BY <2>1, <1>11, <1>12, <1>19 DEF IsHset, SameHsets
  <2>3. c \in HsetActs /\ HsetOK(c) /\ c.fn = "hset" /\ c.index \in Buckets
    BY <2>1, <2>2, <1>1, HsetActAt DEF HsetsOK, HsetActs
  <2>4. ~b.late => c.index # a.index
    <3>1. ASSUME c.index = a.index PROVE b.late
      <4>1. b = [c EXCEPT !.late = TRUE]
        BY <3>1, <2>1, <2>2, <2>3, <1>10, <1>19
      <4>2. QED
        BY <4>1, <2>3 DEF HsetActs
    <3>2. QED
      BY <3>1
  <2>5. ~b.late => href_index(c.key)' = href_index(c.key) /\ table'[c.index] = table[c.index]
    BY <2>3, <2>4, <1>6, <1>15 DEF href_index
  <2>6. ASSUME NEW j \in Buckets, NEW k \in 1 .. Len(table'[j]) PROVE table'[j][k] # c.entry
    <3>1. CASE j # a.index
      BY <3>1, <2>3, <2>6, <1>15 DEF HsetOK
    <3>2. CASE j = a.index /\ c.entry # 0
      BY <3>2, <2>1, <2>6, <1>15, <1>17, <1>19
    <3>3. CASE j = a.index /\ c.entry = 0
      BY <3>3, <2>6, <1>15, <1>18
    <3>4. QED
      BY <3>1, <3>2, <3>3
  <2>7. Len(entries') \in Nat /\ Len(entries) <= Len(entries')
    BY <1>6, <1>8
  <2>8. c.phase = "bucket" => entries'[c.entry] = entries[c.entry]
    BY <1>6
  <2>9. QED
    BY <2>2, <2>3, <2>5, <2>6, <2>7, <2>8, <1>8, HsetStays
<1>20. HsetsOK'
  BY <1>19, HsetsAll
<1>21. HsetsApart'
  BY <1>1, <1>12, HsetsLike, HsetsStayApart
<1>22. ASSUME ~a.late, NEW c \in Contents
       PROVE  href(c)' = IF c = content[a.key] THEN a.value ELSE href(c)
  <2>1. PICK m : m = table[Sxhash[c]]
    OBVIOUS
  <2>2. /\ Sxhash[c] \in Buckets /\ m \in Seq(1 .. Len(entries)) /\ m \in Seq(Nat)
        /\ href(c) = ValueIn(c, content, entries, m)
    BY <2>1, <1>1, TableFacts
  <2>3. table'[Sxhash[c]] \in Seq(1 .. Len(entries'))
    BY <2>1, <2>2, <1>6, <1>14, <1>15
  <2>4. href(c)' = ValueIn(c, content, entries, table'[Sxhash[c]])
    BY <2>3, <1>6, HrefIsNext
  <2>5. CASE Sxhash[c] # a.index
    <3>1. table'[Sxhash[c]] = m
      BY <2>1, <2>2, <2>5, <1>15
    <3>2. c # content[a.key]
      BY <2>5, <1>9, <1>22 DEF href_index
    <3>3. QED
      BY <3>1, <3>2, <2>2, <2>4
  <2>6. CASE Sxhash[c] = a.index
    <3>1. table'[Sxhash[c]] = <<a.entry>> \o m
      BY <2>1, <2>2, <2>6, <1>9, <1>13, <1>15, <1>22
    <3>2. First(c, KeysOf(content, entries), <<a.entry>> \o m)
            = IF KeysOf(content, entries)[a.entry] = c THEN a.entry
              ELSE First(c, KeysOf(content, entries), m)
      BY <2>2, <1>7, FirstCons
    <3>3. KeysOf(content, entries)[a.entry] = content[a.key] /\ a.entry # 0
          /\ entries[a.entry].value = a.value
      BY <1>9 DEF KeysOf
    <3>4. QED
      BY <3>1, <3>2, <3>3, <2>2, <2>4 DEF ValueIn
  <2>7. QED
    BY <2>5, <2>6
<1>23. ~a.late => hrefs' = [hrefs EXCEPT ![content[a.key]] = a.value]
  <2>1. content[a.key] \in Contents
    BY <1>7, <1>8
  <2>2. QED
    BY <2>1, <1>22 DEF hrefs
<1>24. QED
  BY <1>3, <1>10, <1>12, <1>16, <1>20, <1>21, <1>23

-----------------------------------------------------------------------------
(* The hook starts, returns, or is left by an error or a throw. *)
LEMMA CallStep ==
  ASSUME TablesInv, RunHook \/ HookReturns \/ Unwind
  PROVE  Framed /\ SameInterns /\ SameHsets
<1>1. CallsOK /\ calls \in Seq(Acts) /\ Alternate(calls) /\ Len(calls) \in Nat
  BY AlternateIs DEF TablesInv, TypeOK, CallsOK
<1>2. CASE RunHook
  <2>1. ~EvaluatesLisp /\ calls' = Append(calls, Hook)
    BY <1>2 DEF RunHook
  <2>2. (Len(calls) + 1) % 2 = 0
    <3>1. Len(calls) % 2 = 1
      BY <1>1, <2>1, TopFacts
    <3>2. QED
      BY <3>1, <1>1
  <2>3. Hook \in Acts /\ Hook.fn = "hook"
    BY DEF Acts, Hook
  <2>4. /\ calls' \in Seq(Acts) /\ Alternate(calls') /\ Len(calls') = Len(calls) + 1
        /\ calls'[Len(calls) + 1] = Hook
        /\ \A i \in 1 .. Len(calls) : calls'[i] = calls[i]
    <3>1. /\ Append(calls, Hook) \in Seq(Acts)
          /\ Len(Append(calls, Hook)) = Len(calls) + 1
          /\ Append(calls, Hook)[Len(calls) + 1] = Hook
          /\ \A i \in 1 .. Len(calls) : Append(calls, Hook)[i] = calls[i]
          /\ Alternate(Append(calls, Hook))
      BY <1>1, <2>2, <2>3, Pushed
    <3>2. QED
      BY <3>1, <2>1
  <2>5. \A i : i \in 1 .. Len(calls') /\ calls'[i].fn # "hook" =>
                 i \in 1 .. Len(calls) /\ calls'[i] = calls[i]
    <3>1. \A i : i \in 1 .. Len(calls') => i \in 1 .. Len(calls) \/ i = Len(calls) + 1
      BY <1>1, <2>4
    <3>2. QED
      BY <3>1, <2>3, <2>4
  <2>6. QED
    BY <2>4, <2>5, OthersLike DEF Framed, SameInterns, SameHsets, IsIntern, IsHset
<1>3. CASE HookReturns \/ Unwind
  <2>1. PICK n \in 0 .. Len(calls) : calls' = SubSeq(calls, 1, n)
    <3>1. CASE HookReturns
      <4>1. calls # <<>> /\ calls' = SubSeq(calls, 1, Len(calls) - 1)
        BY <3>1 DEF HookReturns, Popped, Below
      <4>2. Len(calls) # 0
        BY <4>1, <1>1
      <4>3. Len(calls) - 1 \in 0 .. Len(calls)
        BY <4>2, <1>1
      <4>4. QED
        BY <4>1, <4>3
    <3>2. CASE Unwind
      <4>1. PICK m \in 0 .. Len(calls) - 1 : calls' = SubSeq(calls, 1, m)
        BY <3>2 DEF Unwind, Below
      <4>2. m \in 0 .. Len(calls)
        BY <1>1
      <4>3. QED
        BY <4>1, <4>2
    <3>3. QED
      BY <3>1, <3>2, <1>3
  <2>2. /\ calls' \in Seq(Acts) /\ Alternate(calls') /\ Len(calls') = n
        /\ \A i \in 1 .. n : calls'[i] = calls[i]
    BY <2>1, <1>1, Cut
  <2>3. \A i : i \in 1 .. Len(calls') => i \in 1 .. Len(calls) /\ calls'[i] = calls[i]
    BY <2>2, <1>1
  <2>4. QED
    BY <2>2, <2>3, OthersLike DEF Framed, SameInterns, SameHsets, IsIntern, IsHset
<1>4. QED
  BY <1>2, <1>3

LEMMA SymbolsKept ==
  ASSUME TablesInv, SameInterns, UNCHANGED symbolVars
  PROVE  SymbolsTypeOK' /\ InternsOK' /\ InternsApart' /\ OblistFound'
<1>1. /\ TypeOK /\ SymbolsTypeOK /\ CallsOK /\ InternsOK /\ InternsApart /\ OblistFound
  BY DEF TablesInv, TypeOK
<1>2. InternsOK' /\ InternsApart'
  BY <1>1, InternsKept
<1>3. /\ obarray_dim' = obarray_dim /\ pname' = pname /\ obarray' = obarray
      /\ oblist' = oblist /\ dropped' = dropped
  BY DEF symbolVars
<1>4. SymbolsTypeOK'
  BY <1>1, <1>3 DEF SymbolsTypeOK
<1>5. OblistFound'
  <2>1. \A n : Found(n)' = Found(n)
    BY SymbolsSame
  <2>2. QED
    BY <2>1, <1>1, <1>3 DEF OblistFound, IsInjective
<1>6. QED
  BY <1>2, <1>4, <1>5

LEMMA TablesInit == Init => TablesInv
<1>1. SUFFICES ASSUME Init PROVE TablesInv
  OBVIOUS
<1>2. /\ calls = <<>> /\ obarray_dim \in Dims /\ pname = <<>> /\ oblist = <<>> /\ dropped = FALSE
      /\ obarray = [b \in 0 .. obarray_dim - 1 |-> <<>>]
      /\ content \in [Keys -> Contents] /\ entries = <<>> /\ table = [b \in Buckets |-> <<>>]
  BY <1>1 DEF Init, SymbolsInit, HashTableInit
<1>3. \A S : <<>> \in Seq(S)
  OBVIOUS
<1>4. Len(pname) = 0 /\ Len(entries) = 0 /\ Len(calls) = 0
  BY <1>2
<1>5. SymbolsTypeOK
  <2>1. pname \in Seq(Names) /\ oblist \in Seq(1 .. Len(pname))
    BY <1>2, <1>3, Zenon
  <2>2. DOMAIN obarray = 0 .. obarray_dim - 1
    BY <1>2
  <2>3. \A b \in DOMAIN obarray : obarray[b] = <<>>
    BY <1>2
  <2>4. \A b \in DOMAIN obarray : obarray[b] \in Seq(1 .. Len(pname))
    BY <2>3, <1>3, Zenon
  <2>5. Len(pname) <= MaxSymbols
    BY <1>4, MaxSymbolsAssumption
  <2>6. QED
    BY <1>2, <2>1, <2>2, <2>4, <2>5 DEF SymbolsTypeOK
<1>6. HashTableTypeOK
  <2>1. entries \in Seq([key : Keys, value : Values])
    BY <1>2, <1>3, Zenon
  <2>2. DOMAIN table = Buckets /\ \A b \in Buckets : table[b] = <<>>
    BY <1>2
  <2>3. \A b \in Buckets : table[b] \in Seq(1 .. Len(entries))
    BY <2>2, <1>3, Zenon
  <2>4. Len(entries) <= MaxEntries
    BY <1>4, MaxEntriesAssumption
  <2>5. QED
    BY <1>2, <2>1, <2>2, <2>3, <2>4 DEF HashTableTypeOK
<1>7. CallsOK
  BY <1>2, <1>3, Zenon DEF CallsOK
<1>8. \A i : i \notin 1 .. Len(calls)
  BY <1>4
<1>9. InternsOK /\ InternsApart /\ HsetsOK /\ HsetsApart
  BY <1>8 DEF InternsOK, InternsApart, HsetsOK, HsetsApart, IsIntern, IsHset
<1>10. DOMAIN calls = {} /\ DOMAIN oblist = {}
  BY <1>2
<1>11. OblistFound
  BY <1>10 DEF OblistFound, IsInjective
<1>12. TypeOK
  BY <1>5, <1>6, <1>10 DEF TypeOK
<1>13. QED
  BY <1>7, <1>9, <1>11, <1>12 DEF TablesInv

LEMMA InvFrom ==
  ASSUME Framed, SymbolsTypeOK', HashTableTypeOK', OblistFound', InternsOK', InternsApart',
         HsetsOK', HsetsApart'
  PROVE  TablesInv'
<1>1. CallsOK' /\ \A i \in DOMAIN calls' : calls'[i].fn = "hook" <=> i % 2 = 0
  BY FramedFacts
<1>2. TypeOK'
  BY <1>1 DEF TypeOK
<1>3. QED
  BY <1>1, <1>2 DEF TablesInv

(* What a step of intern leaves, and what a step of hset. *)
LEMMA SymbolsStep ==
  ASSUME TablesInv, SymbolsNext
  PROVE  Framed /\ SameHsets /\ SymbolsTypeOK' /\ InternsOK' /\ InternsApart' /\ OblistFound'
<1>1. CASE \E n \in Names : siod_intern(n)
  BY <1>1, InternEnters
<1>2. CASE Symcons
  BY <1>2, SymconsStep
<1>3. CASE StoreObarray
  BY <1>3, StoreObarrayStep
<1>4. CASE StoreOblist
  BY <1>4, StoreOblistStep
<1>5. QED
  BY <1>1, <1>2, <1>3, <1>4 DEF SymbolsNext

LEMMA HashTableStep ==
  ASSUME TablesInv, HashTableNext
  PROVE  Framed /\ SameInterns /\ HashTableTypeOK' /\ HsetsOK' /\ HsetsApart'
<1>1. CASE \E key \in Keys, v \in Values : siod_hset(key, v)
  <2>1. PICK key \in Keys, v \in Values : HsetOld(key, v) \/ HsetNew(key, v)
    BY <1>1 DEF siod_hset
  <2>2. QED
    BY <2>1, HsetOldStep, HsetEnters
<1>2. CASE HsetCell
  BY <1>2, HsetCellStep
<1>3. CASE HsetBucket
  BY <1>3, HsetBucketStep
<1>4. CASE \E key \in Keys, c \in Contents : siod_aset(key, c)
  BY <1>4, AsetStep
<1>5. QED
  BY <1>1, <1>2, <1>3, <1>4 DEF HashTableNext

(* TablesInv is an invariant. *)
THEOREM TablesInvInductive == Spec => []TablesInv
<1>1. ASSUME TablesInv, [Next]_vars PROVE TablesInv'
  <2>1. CallsOK /\ HashTableTypeOK /\ HsetsOK /\ HsetsApart
    BY <1>1 DEF TablesInv, TypeOK
  <2>2. CASE SymbolsNext /\ UNCHANGED tableVars
    <3>1. Framed /\ SameHsets /\ SymbolsTypeOK' /\ InternsOK' /\ InternsApart' /\ OblistFound'
      BY <1>1, <2>2, SymbolsStep
    <3>2. HsetsOK' /\ HsetsApart' /\ HashTableTypeOK'
      BY <2>1, <2>2, <3>1, HsetsKept
    <3>3. QED
      BY <3>1, <3>2, InvFrom
  <2>3. CASE HashTableNext /\ UNCHANGED symbolVars
    <3>1. Framed /\ SameInterns /\ HashTableTypeOK' /\ HsetsOK' /\ HsetsApart'
      BY <1>1, <2>3, HashTableStep
    <3>2. SymbolsTypeOK' /\ InternsOK' /\ InternsApart' /\ OblistFound'
      BY <1>1, <2>3, <3>1, SymbolsKept
    <3>3. QED
      BY <3>1, <3>2, InvFrom
  <2>4. CASE (RunHook \/ HookReturns \/ Unwind) /\ UNCHANGED <<symbolVars, tableVars>>
    <3>1. Framed /\ SameInterns /\ SameHsets
      BY <1>1, <2>4, CallStep
    <3>2. SymbolsTypeOK' /\ InternsOK' /\ InternsApart' /\ OblistFound'
      BY <1>1, <2>4, <3>1, SymbolsKept
    <3>3. HsetsOK' /\ HsetsApart' /\ HashTableTypeOK'
      BY <2>1, <2>4, <3>1, HsetsKept
    <3>4. QED
      BY <3>1, <3>2, <3>3, InvFrom
  <2>5. CASE UNCHANGED vars
    <3>1. calls' = calls /\ UNCHANGED symbolVars /\ UNCHANGED tableVars
      BY <2>5 DEF vars
    <3>2. Alternate(calls)
      BY <1>1, <2>1, AlternateIs DEF TablesInv, TypeOK
    <3>3. Framed /\ SameInterns /\ SameHsets
      BY <2>1, <3>1, <3>2, OthersLike DEF Framed, CallsOK, SameInterns, SameHsets
    <3>4. SymbolsTypeOK' /\ InternsOK' /\ InternsApart' /\ OblistFound'
      BY <1>1, <3>1, <3>3, SymbolsKept
    <3>5. HsetsOK' /\ HsetsApart' /\ HashTableTypeOK'
      BY <2>1, <3>1, <3>3, HsetsKept
    <3>6. QED
      BY <3>3, <3>4, <3>5, InvFrom
  <2>6. QED
    BY <1>1, <2>2, <2>3, <2>4, <2>5 DEF Next
<1>2. QED
  BY <1>1, TablesInit, PTL DEF Spec

-----------------------------------------------------------------------------
(* The lists hold what has been made, and hooks and activations of intern   *)
(* and hset alternate on the C stack.                                       *)
THEOREM TablesTypesStay == Spec => []TypeOK
<1>1. TablesInv => TypeOK
  BY DEF TablesInv
<1>2. QED
  BY <1>1, TablesInvInductive, PTL

(* As long as no call has stored a list that was out of date, oblistvar has *)
(* no symbol twice and intern finds each symbol in it by its name.          *)
THEOREM OblistStaysFound == Spec => []OblistFound
<1>1. TablesInv => OblistFound
  BY DEF TablesInv
<1>2. QED
  BY <1>1, TablesInvInductive, PTL

(* A call of intern that no intern of a hook has overtaken makes the symbol *)
(* of its name and changes that of no other; nothing else changes any.      *)
THEOREM SymbolsStayEq == Spec => SymbolsStay
<1> DEFINE A ==
      \/ ~EvaluatesLisp /\ Top.fn = "intern" /\ Top.late
      \/ \A n \in Names : \/ Found(n)' = Found(n)
                          \/ Found(n) = 0 /\ ~EvaluatesLisp /\ Top.fn = "intern" /\ n = Top.name
<1>1. ASSUME TablesInv, [Next]_vars PROVE [A]_<<symbolVars, calls>>
  <2>1. CASE \E n \in Names : siod_intern(n)
    <3>1. UNCHANGED symbolVars
      BY <2>1 DEF siod_intern
    <3>2. QED
      BY <3>1, SymbolsSame
  <2>2. CASE Symcons
    BY <1>1, <2>2, SymconsStep
  <2>3. CASE StoreObarray
    <3>1. ~EvaluatesLisp /\ Top.fn = "intern"
      BY <2>3 DEF StoreObarray, Running
    <3>2. QED
      BY <3>1, <1>1, <2>3, StoreObarrayStep
  <2>4. CASE StoreOblist
    <3>1. ~EvaluatesLisp /\ Top.fn = "intern"
      BY <2>4 DEF StoreOblist, Running
    <3>2. QED
      BY <3>1, <1>1, <2>4, StoreOblistStep
  <2>5. CASE UNCHANGED symbolVars
    BY <2>5, SymbolsSame
  <2>6. CASE UNCHANGED vars
    BY <2>6, SymbolsSame DEF vars
  <2>7. QED
    BY <1>1, <2>1, <2>2, <2>3, <2>4, <2>5, <2>6 DEF Next, SymbolsNext
<1>2. QED
  BY <1>1, TablesInvInductive, PTL DEF Spec, SymbolsStay

(* A table stays a map by the contents of keys: an hset that has not been   *)
(* overtaken sets the href of its key, and no other step changes any, but   *)
(* that of a program that changes a key.                                    *)
THEOREM HsetAlwaysPuts == Spec => HsetPuts
<1> DEFINE A ==
      \/ hrefs' = hrefs
      \/ content' # content
      \/ Running("hset", "bucket") /\ Top.late
      \/ Running("hset", "bucket") /\ hrefs' = [hrefs EXCEPT ![content[Top.key]] = Top.value]
      \/ /\ EvaluatesLisp
         /\ \E k \in Keys, v \in Values : HsetOld(k, v)
         /\ \A k \in Keys, v \in Values :
              HsetOld(k, v) => hrefs' = [hrefs EXCEPT ![content[k]] = v]
<1>1. ASSUME TablesInv, [Next]_vars PROVE [A]_<<tableVars, calls>>
  <2>1. HashTableTypeOK
    BY <1>1 DEF TablesInv, TypeOK
  <2>2. CASE \E key \in Keys, v \in Values : siod_hset(key, v)
    <3>1. PICK key \in Keys, v \in Values : HsetOld(key, v) \/ HsetNew(key, v)
      BY <2>2 DEF siod_hset
    <3>2. CASE HsetNew(key, v)
      BY <3>2, <1>1, HsetEnters
    <3>3. CASE HsetOld(key, v)
      <4>1. EvaluatesLisp
        BY <3>3 DEF HsetOld
      <4>2. \A k \in Keys, w \in Values :
              HsetOld(k, w) => hrefs' = [hrefs EXCEPT ![content[k]] = w]
        BY <1>1, HsetOldStep
      <4>3. QED
        BY <3>3, <4>1, <4>2
    <3>4. QED
      BY <3>1, <3>2, <3>3
  <2>3. CASE HsetCell
    BY <1>1, <2>3, HsetCellStep
  <2>4. CASE HsetBucket
    <3>1. Running("hset", "bucket")
      BY <2>4 DEF HsetBucket
    <3>2. QED
      BY <3>1, <1>1, <2>4, HsetBucketStep
  <2>5. CASE \E key \in Keys, c \in Contents : siod_aset(key, c)
    BY <1>1, <2>5, AsetStep
  <2>6. CASE UNCHANGED tableVars
    BY <2>1, <2>6, HrefsSame
  <2>7. CASE UNCHANGED vars
    BY <2>1, <2>7, HrefsSame DEF vars
  <2>8. QED
    BY <1>1, <2>2, <2>3, <2>4, <2>5, <2>6, <2>7 DEF Next, HashTableNext
<1>2. QED
  BY <1>1, TablesInvInductive, PTL DEF Spec, HsetPuts
=============================================================================
