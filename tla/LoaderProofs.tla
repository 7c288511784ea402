---------------------------- MODULE LoaderProofs ----------------------------
(***************************************************************************)
(* Proofs about Loader, for every set of files that load one another in any *)
(* way, every number of descriptors and every depth of the stack.           *)
(***************************************************************************)
EXTENDS Loader, TLAPS, WellFoundedInduction, SequenceTheorems

RequireCalls == [fn : {"require"}, name : Names, phase : {"test", "set"}]
LoadCalls ==
  [fn : {"load"}, name : Names, cflag : BOOLEAN, phase : {"probe", "open", "forms"},
   dir : {"cwd", "lib"}, cell : Cells \union {None}, pos : Nat \ {0}]
LoadSoCalls == [fn : {"load_so"}, name : Names, phase : {"open"}]
SaveCalls ==
  [fn : {"save_forms"}, name : Names, phase : {"open", "forms"}, cell : Cells \union {None}]
CatchCalls == [fn : {"catch"}]
Activations == RequireCalls \union LoadCalls \union LoadSoCalls \union SaveCalls \union CatchCalls

(* An activation that will open a file has none, one that has opened it has.*)
WellFormed(a) ==
  /\ a \in Activations
  /\ a.fn \in HasFile => (a.cell = None <=> a.phase # "forms")
  /\ a.fn = "load" => a.pos <= Len(Contents[a.name]) + 1 /\ (a.phase # "forms" => a.pos = 1)

FormBefore(a) == Contents[a.name][a.pos - 1]

(* What may be next above an activation: what it has called.                *)
Above(a, b) ==
  \/ a.fn = "require" /\ a.phase = "set" /\ b.fn \in {"load", "load_so"} /\ b.name = a.name
  \/ /\ a.fn = "load" /\ a.phase = "forms" /\ a.pos = 1
     /\ b.fn = "require" /\ b.name = Parser[a.name]
  \/ /\ a.fn = "load" /\ a.phase = "forms" /\ a.pos - 1 \in DOMAIN Contents[a.name]
     /\ \/ FormBefore(a).op = "require" /\ b.fn = "require" /\ b.name = FormBefore(a).name
        \/ FormBefore(a).op = "try" /\ b.fn = "catch"
        \/ FormBefore(a).op = "load" /\ b.fn = "load" /\ b.name = FormBefore(a).name
  \/ a.fn = "catch" /\ b.fn = "require"

(* Whatever is above a require of n is n, being loaded, or belongs to any   *)
(* set that has what n uses and what its members use.                       *)
Closed(n, used) ==
  /\ used \subseteq Names
  /\ Uses(n) \subseteq used
  /\ \A m \in used : Uses(m) \subseteq used
Confined(n, b) ==
  \/ b.fn = "catch"
  \/ b.name = n /\ b.fn \in {"load", "load_so"}
  \/ \A used \in SUBSET Names : Closed(n, used) => b.name \in used

StackInv ==
  /\ calls \in Seq(Activations)
  /\ \A i \in DOMAIN calls : WellFormed(calls[i])
  /\ \A i \in DOMAIN calls : i + 1 \in DOMAIN calls => Above(calls[i], calls[i + 1])
  /\ \A i, j \in DOMAIN calls : i < j /\ calls[i].fn = "require" => Confined(calls[i].name, calls[j])

(* The cells of a stack. *)
CellsOf(s) == {s[i].cell : i \in {j \in DOMAIN s : s[j].fn \in HasFile}}

FileInv ==
  /\ cells \subseteq Cells
  /\ held \subseteq Cells
  /\ FilesOwned
  /\ LoadCloses

(* The flags of require tell what has been loaded.                          *)
LoadedInv ==
  /\ loaded \subseteq Names
  /\ completed \in [Names -> 0 .. 2]
  /\ \A n \in Names : n \in loaded <=> completed[n] > 0
  /\ \A i \in DOMAIN calls :
       calls[i].fn = "require" /\ calls[i].phase = "set" /\ calls[i].name \in loaded => Cyclic(calls[i].name)
  /\ DependenciesFirst
  /\ LoadedOnce

LoaderInv == StackInv /\ FileInv /\ LoadedInv

(* What may take the place of the innermost activation a.                   *)
Replaces(a, t) ==
  /\ t \in Seq(Activations)
  /\ \A k \in DOMAIN t : WellFormed(t[k])
  /\ \A k \in DOMAIN t : k + 1 \in DOMAIN t => Above(t[k], t[k + 1])
  /\ \A k, l \in DOMAIN t : k < l /\ t[k].fn = "require" => Confined(t[k].name, t[l])
  /\ t # <<>> => a.fn # "catch" /\ t[1].fn = a.fn /\ t[1].name = a.name
  /\ \A k \in DOMAIN t : k > 1 =>
       \/ t[k].fn = "catch"
       \/ a.fn = "load" /\ t[k].name \in Uses(a.name)
       \/ a.fn = "require" /\ t[k].name = a.name

-----------------------------------------------------------------------------

LEMMA ElementType ==
  ASSUME NEW S, NEW s \in Seq(S)
  PROVE  /\ Len(s) \in Nat
         /\ DOMAIN s = 1 .. Len(s)
         /\ \A i \in DOMAIN s : s[i] \in S
  OBVIOUS

LEMMA LessDiffers == ASSUME NEW x \in Nat, NEW y \in Nat, x < y PROVE x # y
  OBVIOUS

LEMMA PrefixFacts ==
  ASSUME NEW S, NEW s \in Seq(S), NEW n \in 0 .. Len(s)
  PROVE  /\ SubSeq(s, 1, n) \in Seq(S)
         /\ Len(SubSeq(s, 1, n)) = n
         /\ \A i \in 1 .. n : SubSeq(s, 1, n)[i] = s[i]
  OBVIOUS

LEMMA ConcatFacts ==
  ASSUME NEW S, NEW s \in Seq(S)
  PROVE  /\ s \o <<>> = s
         /\ \A a \in S : Append(s, a) = s \o <<a>>
  OBVIOUS

LEMMA ShortConcat ==
  ASSUME NEW a, NEW x, NEW y
  PROVE  <<a>> \o <<x>> = <<a, x>> /\ <<a>> \o <<x, y>> = <<a, x, y>>
<1> DEFINE S == {a, x, y}
<1>1. <<a>> \in Seq(S) /\ <<x>> \in Seq(S) /\ <<x, y>> \in Seq(S) /\ <<a, x>> \in Seq(S) /\ <<a, x, y>> \in Seq(S)
  OBVIOUS
<1>2. Len(<<a>>) = 1 /\ Len(<<x>>) = 1 /\ Len(<<x, y>>) = 2 /\ Len(<<a, x>>) = 2 /\ Len(<<a, x, y>>) = 3
  OBVIOUS
<1>3. <<a>> \o <<x>> = <<a, x>>
  <2> DEFINE t == <<a>> \o <<x>>
  <2>1. t \in Seq(S) /\ Len(t) = 2 /\ t[1] = a /\ t[2] = x
    BY <1>1, <1>2, ConcatProperties
  <2>2. \A i \in 1 .. Len(t) : t[i] = <<a, x>>[i]
    BY <2>1
  <2>3. QED
    BY <1>1, <1>2, <2>1, <2>2, SeqEqual
<1>4. <<a>> \o <<x, y>> = <<a, x, y>>
  <2> DEFINE t == <<a>> \o <<x, y>>
  <2>1. t \in Seq(S) /\ Len(t) = 3 /\ t[1] = a /\ t[2] = x /\ t[3] = y
    BY <1>1, <1>2, ConcatProperties
  <2>2. \A i \in 1 .. Len(t) : t[i] = <<a, x, y>>[i]
    BY <2>1
  <2>3. QED
    BY <1>1, <1>2, <2>1, <2>2, SeqEqual
<1>5. QED
  BY <1>3, <1>4

LEMMA Kinds ==
  ASSUME NEW a \in Activations
  PROVE  /\ a.fn \in {"require", "load", "load_so", "save_forms", "catch"}
         /\ a.fn = "require" => a \in RequireCalls
         /\ a.fn = "load" => a \in LoadCalls
         /\ a.fn = "load_so" => a \in LoadSoCalls
         /\ a.fn = "save_forms" => a \in SaveCalls
         /\ a.fn = "catch" => a \in CatchCalls
  BY DEF Activations, RequireCalls, LoadCalls, LoadSoCalls, SaveCalls, CatchCalls

(* What a form and a header name is used. *)
LEMMA FormFacts ==
  ASSUME NEW n \in Names
  PROVE  /\ Uses(n) \subseteq Names
         /\ Len(Contents[n]) \in Nat
         /\ DOMAIN Contents[n] = 1 .. Len(Contents[n])
         /\ Parser[n] \in Names \union {None}
         /\ Parser[n] # None => Parser[n] \in Uses(n)
         /\ \A i \in DOMAIN Contents[n] :
              /\ Contents[n][i].op \in {"eval", "require", "try", "load"}
              /\ Contents[n][i].name \in Names
              /\ Contents[n][i].op # "eval" => Contents[n][i].name \in Uses(n)
<1>1. Contents[n] \in Seq([op : {"eval", "require", "try", "load"}, name : Names])
  BY ContentsAssumption
<1>2. Parser[n] \in Names \union {None}
  BY ParserAssumption
<1>3. \A i \in DOMAIN Contents[n] : Contents[n][i] \in [op : {"eval", "require", "try", "load"}, name : Names]
  BY <1>1, ElementType
<1>4. None \notin Names
  BY NoneAssumption
<1>5. QED
  BY <1>1, <1>2, <1>3, <1>4 DEF Uses

(* The innermost activation and those below it. *)
LEMMA TopFacts ==
  ASSUME calls \in Seq(Activations), calls # <<>>
  PROVE  /\ Len(calls) \in Nat \ {0}
         /\ DOMAIN calls = 1 .. Len(calls)
         /\ Len(calls) \in DOMAIN calls
         /\ Top = calls[Len(calls)]
         /\ Top \in Activations
         /\ Below \in Seq(Activations)
         /\ Len(Below) = Len(calls) - 1
         /\ \A i \in 1 .. Len(calls) - 1 : Below[i] = calls[i]
<1>1. Len(calls) \in Nat /\ DOMAIN calls = 1 .. Len(calls) /\ Len(calls) # 0
  BY ElementType
<1>2. Len(calls) - 1 \in 0 .. Len(calls)
  BY <1>1
<1>3. Below \in Seq(Activations) /\ Len(Below) = Len(calls) - 1
      /\ \A i \in 1 .. Len(calls) - 1 : Below[i] = calls[i]
  BY <1>2, PrefixFacts DEF Below
<1>4. QED
  BY <1>1, <1>3, ElementType DEF Top

LEMMA ReplacedStack ==
  ASSUME calls \in Seq(Activations), calls # <<>>,
         NEW t \in Seq(Activations), calls' = Below \o t
  PROVE  /\ calls' \in Seq(Activations)
         /\ Len(t) \in Nat
         /\ DOMAIN t = 1 .. Len(t)
         /\ Len(calls') = Len(calls) - 1 + Len(t)
         /\ DOMAIN calls' = 1 .. Len(calls')
         /\ \A i \in 1 .. Len(calls) - 1 : calls'[i] = calls[i]
         /\ \A i \in DOMAIN calls' : i >= Len(calls) =>
              i - (Len(calls) - 1) \in DOMAIN t /\ calls'[i] = t[i - (Len(calls) - 1)]
  BY TopFacts

LEMMA StackReplace ==
  ASSUME StackInv, calls # <<>>, NEW t, Replaces(Top, t), calls' = Below \o t
  PROVE  StackInv'
<1> DEFINE m == Len(calls) - 1
<1>1. t \in Seq(Activations) /\ calls \in Seq(Activations)
  BY DEF Replaces, StackInv
<1>2. /\ m \in Nat /\ DOMAIN calls = 1 .. m + 1 /\ Top = calls[m + 1]
      /\ calls' \in Seq(Activations)
      /\ DOMAIN t = 1 .. Len(t) /\ Len(t) \in Nat
      /\ DOMAIN calls' = 1 .. m + Len(t)
  BY <1>1, TopFacts, ReplacedStack
<1>3. /\ \A i \in 1 .. m : i \in DOMAIN calls /\ calls'[i] = calls[i]
      /\ \A i \in DOMAIN calls' : i > m => i - m \in DOMAIN t /\ calls'[i] = t[i - m]
  BY <1>1, <1>2, TopFacts, ReplacedStack
<1>4. \A i \in DOMAIN calls' : i \in Nat /\ (i \in 1 .. m \/ i > m)
  BY <1>2
<1> HIDE DEF m
<1>5. /\ \A i \in DOMAIN calls : WellFormed(calls[i])
      /\ \A i \in DOMAIN calls : i + 1 \in DOMAIN calls => Above(calls[i], calls[i + 1])
      /\ \A i, j \in DOMAIN calls : i < j /\ calls[i].fn = "require" => Confined(calls[i].name, calls[j])
  BY DEF StackInv
<1>6. /\ \A k \in DOMAIN t : WellFormed(t[k])
      /\ \A k \in DOMAIN t : k + 1 \in DOMAIN t => Above(t[k], t[k + 1])
      /\ \A k, l \in DOMAIN t : k < l /\ t[k].fn = "require" => Confined(t[k].name, t[l])
  BY DEF Replaces
<1>7. t # <<>> => Top.fn # "catch" /\ t[1].fn = Top.fn /\ t[1].name = Top.name
  BY DEF Replaces
<1>8. \A i \in DOMAIN calls' : i > m => t # <<>>
  BY <1>1, <1>3
<1>9. ASSUME NEW i \in DOMAIN calls' PROVE WellFormed(calls'[i])
  <2>1. CASE i \in 1 .. m
    BY <1>3, <1>5, <2>1
  <2>2. CASE i > m
    BY <1>3, <1>6, <2>2
  <2>3. QED
    BY <1>4, <2>1, <2>2
<1>10. ASSUME NEW i \in DOMAIN calls', i + 1 \in DOMAIN calls' PROVE Above(calls'[i], calls'[i + 1])
  <2>1. CASE i \in 1 .. m /\ i + 1 \in 1 .. m
    BY <1>3, <1>5, <2>1
  <2>2. CASE i \in 1 .. m /\ i + 1 > m
    <3>1. i = m /\ (i + 1) - m = 1 /\ m + 1 \in DOMAIN calls
      BY <1>2, <2>2
    <3>2. calls'[i] = calls[i] /\ calls'[i + 1] = t[1] /\ t # <<>> /\ i \in DOMAIN calls
      BY <1>3, <1>8, <1>10, <2>2, <3>1
    <3>3. Above(calls[i], Top)
      BY <1>2, <1>5, <3>1, <3>2
    <3>4. t[1].fn = Top.fn /\ t[1].name = Top.name /\ Top.fn # "catch"
      BY <1>7, <3>2
    <3>5. QED
      BY <3>2, <3>3, <3>4 DEF Above
  <2>3. CASE i > m
    <3>1. i + 1 > m /\ (i + 1) - m = (i - m) + 1
      BY <1>2, <1>4, <2>3
    <3>2. i - m \in DOMAIN t /\ (i - m) + 1 \in DOMAIN t
          /\ calls'[i] = t[i - m] /\ calls'[i + 1] = t[(i - m) + 1]
      BY <1>3, <1>10, <2>3, <3>1
    <3>3. QED
      BY <1>6, <3>2
  <2>4. QED
    BY <1>4, <1>10, <2>1, <2>2, <2>3
<1>11. ASSUME NEW i \in DOMAIN calls', NEW j \in DOMAIN calls', i < j, calls'[i].fn = "require"
       PROVE  Confined(calls'[i].name, calls'[j])
  <2>1. CASE i \in 1 .. m /\ j \in 1 .. m
    BY <1>3, <1>5, <1>11, <2>1
  <2>2. CASE i > m /\ j > m
    <3>1. i - m < j - m
      BY <1>2, <1>4, <1>11
    <3>2. QED
      BY <1>3, <1>6, <1>11, <2>2, <3>1
  <2>3. CASE i \in 1 .. m /\ j > m
    <3> DEFINE k == j - m
               n == calls[i].name
    <3>1. k \in DOMAIN t /\ calls'[j] = t[k] /\ calls'[i] = calls[i] /\ t # <<>> /\ i \in DOMAIN calls
      BY <1>3, <1>8, <2>3
    <3>2. m + 1 \in DOMAIN calls /\ i < m + 1 /\ Top = calls[m + 1]
      BY <1>2, <2>3
    <3>3. Confined(n, Top)
      BY <1>5, <1>11, <3>1, <3>2
    <3>4. t[1].fn = Top.fn /\ t[1].name = Top.name /\ Top.fn # "catch"
      BY <1>7, <3>1
    <3>5. CASE k = 1
      BY <3>1, <3>3, <3>4, <3>5 DEF Confined
    <3>6. CASE k # 1
      <4>1. k > 1
        BY <1>2, <3>1, <3>6
      <4>2. \/ t[k].fn = "catch"
            \/ Top.fn = "load" /\ t[k].name \in Uses(Top.name)
            \/ Top.fn = "require" /\ t[k].name = Top.name
        BY <3>1, <4>1 DEF Replaces
      <4>3. ASSUME t[k].fn # "catch", NEW used \in SUBSET Names, Closed(n, used)
            PROVE  t[k].name \in used
        <5>1. (Top.name = n /\ Top.fn \in {"load", "load_so"}) \/ Top.name \in used
          BY <3>3, <3>4, <4>3 DEF Confined
        <5>2. QED
          BY <4>2, <4>3, <5>1 DEF Closed
      <4>4. QED
        BY <3>1, <4>3 DEF Confined
    <3>7. QED
      BY <3>5, <3>6
  <2>4. QED
    BY <1>2, <1>4, <1>11, <2>1, <2>2, <2>3
<1>12. QED
  BY <1>2, <1>9, <1>10, <1>11 DEF StackInv

(* Control goes back to some activation below, or to the top level.         *)
LEMMA StackCut ==
  ASSUME StackInv, NEW n \in 0 .. Len(calls), calls' = SubSeq(calls, 1, n)
  PROVE  StackInv'
<1>1. /\ Len(calls) \in Nat /\ DOMAIN calls = 1 .. Len(calls)
      /\ calls' \in Seq(Activations) /\ Len(calls') = n
      /\ \A i \in 1 .. n : calls'[i] = calls[i]
  BY PrefixFacts, ElementType DEF StackInv
<1>2. DOMAIN calls' = 1 .. n
  BY <1>1, ElementType
<1>3. \A i \in DOMAIN calls' : i \in DOMAIN calls /\ calls'[i] = calls[i]
  BY <1>1, <1>2
<1>4. QED
  BY <1>1, <1>3 DEF StackInv

LEMMA StackStart ==
  ASSUME NEW a, WellFormed(a), calls' = <<a>>
  PROVE  StackInv'
<1>1. calls' \in Seq(Activations) /\ DOMAIN calls' = {1} /\ calls'[1] = a
  BY DEF WellFormed
<1>2. QED
  BY <1>1 DEF StackInv

LEMMA ReplacesNone == ASSUME NEW a PROVE Replaces(a, <<>>)
  BY DEF Replaces

LEMMA ReplacesOne ==
  ASSUME NEW a, NEW b, WellFormed(b), a.fn # "catch", b.fn = a.fn, b.name = a.name
  PROVE  Replaces(a, <<b>>)
<1>1. <<b>> \in Seq(Activations) /\ DOMAIN <<b>> = {1} /\ <<b>>[1] = b
  BY DEF WellFormed
<1>2. QED
  BY <1>1 DEF Replaces

LEMMA ReplacesTwo ==
  ASSUME NEW a, NEW b, NEW c, WellFormed(b), WellFormed(c),
         a.fn # "catch", b.fn = a.fn, b.name = a.name,
         Above(b, c), b.fn = "require" => Confined(b.name, c),
         \/ c.fn = "catch"
         \/ a.fn = "load" /\ c.name \in Uses(a.name)
         \/ a.fn = "require" /\ c.name = a.name
  PROVE  Replaces(a, <<b, c>>)
<1> DEFINE t == <<b, c>>
<1>1. t \in Seq(Activations) /\ DOMAIN t = {1, 2} /\ t[1] = b /\ t[2] = c
  BY DEF WellFormed
<1> HIDE DEF t
<1>2. /\ \A k \in DOMAIN t : WellFormed(t[k])
      /\ \A k \in DOMAIN t : k + 1 \in DOMAIN t => Above(t[k], t[k + 1])
      /\ \A k, l \in DOMAIN t : k < l /\ t[k].fn = "require" => Confined(t[k].name, t[l])
  BY <1>1
<1>3. QED
  BY <1>1, <1>2 DEF Replaces, t

LEMMA ReplacesThree ==
  ASSUME NEW a, NEW b, NEW c, NEW d, WellFormed(b), WellFormed(c), WellFormed(d),
         a.fn = "load", b.fn = a.fn, b.name = a.name, c.fn = "catch",
         Above(b, c), Above(c, d), d.name \in Uses(a.name)
  PROVE  Replaces(a, <<b, c, d>>)
<1> DEFINE t == <<b, c, d>>
<1>1. t \in Seq(Activations) /\ DOMAIN t = {1, 2, 3} /\ t[1] = b /\ t[2] = c /\ t[3] = d
  BY DEF WellFormed
<1> HIDE DEF t
<1>2. /\ \A k \in DOMAIN t : WellFormed(t[k])
      /\ \A k \in DOMAIN t : k + 1 \in DOMAIN t => Above(t[k], t[k + 1])
      /\ \A k, l \in DOMAIN t : k < l /\ t[k].fn = "require" => Confined(t[k].name, t[l])
  BY <1>1
<1>3. QED
  BY <1>1, <1>2 DEF Replaces, t

-----------------------------------------------------------------------------
(* The innermost catch. *)

LEMMA MaxInSet ==
  ASSUME NEW n \in Nat, NEW S \in SUBSET (0 .. n), S # {}
  PROVE  Max(S) \in S
<1> DEFINE T == {n - x : x \in S}
           R == OpToRel(<, Nat)
<1>1. T \subseteq Nat /\ T # {}
  OBVIOUS
<1>2. PICK y \in T : \A z \in T : ~(<<z, y>> \in R)
  BY <1>1, NatLessThanWellFounded, WFMin
<1>3. \A z \in T : ~(z < y)
  BY <1>1, <1>2 DEF OpToRel
<1>4. PICK x \in S : y = n - x
  OBVIOUS
<1>5. ASSUME NEW z \in S PROVE x >= z
  <2>1. n - z \in T /\ x \in Nat /\ z \in Nat
    OBVIOUS
  <2>2. ~(n - z < n - x)
    BY <1>3, <1>4, <2>1
  <2>3. QED
    BY <2>1, <2>2
<1>6. QED
  BY <1>5 DEF Max

LEMMA CatchFacts ==
  ASSUME calls \in Seq(Activations), calls # <<>>
  PROVE  /\ LastCatch \in 0 .. Len(calls)
         /\ LastCatch # 0 => calls[LastCatch].fn = "catch"
         /\ LastCatch = 0 => SubSeq(calls, 1, LastCatch - 1) = SubSeq(calls, 1, 0)
<1> DEFINE S == {0} \union {i \in DOMAIN calls : calls[i].fn = "catch"}
<1>1. Len(calls) \in Nat /\ DOMAIN calls = 1 .. Len(calls)
  BY ElementType
<1>2. S \in SUBSET (0 .. Len(calls)) /\ S # {}
  BY <1>1
<1>3. LastCatch \in S
  BY <1>1, <1>2, MaxInSet DEF LastCatch
<1>4. LastCatch = 0 => SubSeq(calls, 1, LastCatch - 1) = SubSeq(calls, 1, 0)
  BY <1>1
<1>5. QED
  BY <1>2, <1>3, <1>4

-----------------------------------------------------------------------------
(* The cells of the activations. *)

OwnCell(a) == IF a.fn \in HasFile THEN {a.cell} ELSE {}

LEMMA CellsOfOne == ASSUME NEW a PROVE CellsOf(<<a>>) = OwnCell(a)
  BY DEF CellsOf, OwnCell

LEMMA CellsOfTwo ==
  ASSUME NEW a, NEW b
  PROVE  CellsOf(<<a, b>>) = OwnCell(a) \union OwnCell(b)
<1> DEFINE t == <<a, b>>
<1>1. DOMAIN t = {1, 2} /\ t[1] = a /\ t[2] = b
  OBVIOUS
<1> HIDE DEF t
<1>2. CellsOf(t) = OwnCell(a) \union OwnCell(b)
  BY <1>1 DEF CellsOf, OwnCell
<1>3. QED
  BY <1>2 DEF t

LEMMA CellsOfThree ==
  ASSUME NEW a, NEW b, NEW c
  PROVE  CellsOf(<<a, b, c>>) = OwnCell(a) \union OwnCell(b) \union OwnCell(c)
<1> DEFINE t == <<a, b, c>>
<1>1. DOMAIN t = {1, 2, 3} /\ t[1] = a /\ t[2] = b /\ t[3] = c
  OBVIOUS
<1> HIDE DEF t
<1>2. CellsOf(t) = OwnCell(a) \union OwnCell(b) \union OwnCell(c)
  BY <1>1 DEF CellsOf, OwnCell
<1>3. QED
  BY <1>2 DEF t

LEMMA CellsOfTop ==
  ASSUME calls \in Seq(Activations), calls # <<>>
  PROVE  CellsOf(calls) = CellsOf(Below) \union OwnCell(Top)
<1> DEFINE m == Len(calls) - 1
<1>1. /\ m \in Nat /\ DOMAIN calls = 1 .. m + 1 /\ Top = calls[m + 1]
      /\ \A i \in 1 .. m : Below[i] = calls[i]
  BY TopFacts
<1>2. DOMAIN Below = 1 .. m
  BY TopFacts, ElementType
<1> HIDE DEF m
<1>3. DOMAIN calls = DOMAIN Below \union {m + 1} /\ \A i \in DOMAIN Below : Below[i] = calls[i]
  BY <1>1, <1>2
<1>4. QED
  BY <1>1, <1>3 DEF CellsOf, OwnCell

LEMMA CellsOfReplaced ==
  ASSUME calls \in Seq(Activations), calls # <<>>,
         NEW t \in Seq(Activations), calls' = Below \o t
  PROVE  CellsOf(calls') = CellsOf(Below) \union CellsOf(t)
<1> DEFINE m == Len(calls) - 1
<1>1. /\ m \in Nat /\ DOMAIN t = 1 .. Len(t) /\ Len(t) \in Nat
      /\ DOMAIN calls' = 1 .. m + Len(t)
      /\ \A i \in 1 .. m : calls'[i] = calls[i] /\ Below[i] = calls[i]
      /\ \A i \in DOMAIN calls' : i >= m + 1 => i - m \in DOMAIN t /\ calls'[i] = t[i - m]
  BY TopFacts, ReplacedStack
<1>2. DOMAIN Below = 1 .. m
  BY TopFacts, ElementType
<1> HIDE DEF m
<1>3. /\ \A i \in DOMAIN Below : i \in DOMAIN calls' /\ calls'[i] = Below[i]
      /\ \A k \in DOMAIN t : m + k \in DOMAIN calls' /\ calls'[m + k] = t[k]
      /\ \A i \in DOMAIN calls' : i \in DOMAIN Below \/ \E k \in DOMAIN t : i = m + k
  <2>1. ASSUME NEW k \in DOMAIN t PROVE m + k \in DOMAIN calls' /\ calls'[m + k] = t[k]
    <3>1. m + k \in DOMAIN calls' /\ m + k >= m + 1 /\ (m + k) - m = k
      BY <1>1
    <3>2. QED
      BY <1>1, <3>1
  <2>2. ASSUME NEW i \in DOMAIN calls' PROVE i \in DOMAIN Below \/ \E k \in DOMAIN t : i = m + k
    <3>1. i \in 1 .. m \/ (i >= m + 1 /\ i = m + (i - m))
      BY <1>1
    <3>2. QED
      BY <1>1, <1>2, <3>1
  <2>3. QED
    BY <1>1, <1>2, <2>1, <2>2
<1>4. CellsOf(Below) \subseteq CellsOf(calls') /\ CellsOf(t) \subseteq CellsOf(calls')
  <2>1. ASSUME NEW i \in DOMAIN Below, Below[i].fn \in HasFile PROVE Below[i].cell \in CellsOf(calls')
    BY <1>3, <2>1 DEF CellsOf
  <2>2. ASSUME NEW k \in DOMAIN t, t[k].fn \in HasFile PROVE t[k].cell \in CellsOf(calls')
    BY <1>3, <2>2 DEF CellsOf
  <2>3. CellsOf(Below) \subseteq CellsOf(calls')
    BY <2>1 DEF CellsOf
  <2>4. CellsOf(t) \subseteq CellsOf(calls')
    BY <2>2 DEF CellsOf
  <2>5. QED
    BY <2>3, <2>4
<1>5. ASSUME NEW i \in DOMAIN calls', calls'[i].fn \in HasFile
      PROVE  calls'[i].cell \in CellsOf(Below) \union CellsOf(t)
  <2>1. CASE i \in DOMAIN Below
    BY <1>3, <1>5, <2>1 DEF CellsOf
  <2>2. CASE \E k \in DOMAIN t : i = m + k
    BY <1>3, <1>5, <2>2 DEF CellsOf
  <2>3. QED
    BY <1>3, <2>1, <2>2
<1>6. CellsOf(calls') \subseteq CellsOf(Below) \union CellsOf(t)
  BY <1>5 DEF CellsOf
<1>7. QED
  BY <1>4, <1>6

(* A step that leaves the cells that the stack holds as they are.           *)
SameCells == CellsOf(calls') \ {None} = CellsOf(calls) \ {None}

LEMMA SameCellsReplaced ==
  ASSUME StackInv, calls # <<>>, NEW t \in Seq(Activations), calls' = Below \o t,
         CellsOf(t) \ {None} = OwnCell(Top) \ {None}
  PROVE  SameCells
<1>1. calls \in Seq(Activations)
  BY DEF StackInv
<1>2. CellsOf(calls) = CellsOf(Below) \union OwnCell(Top) /\ CellsOf(calls') = CellsOf(Below) \union CellsOf(t)
  BY <1>1, CellsOfTop, CellsOfReplaced
<1>3. QED
  BY <1>2 DEF SameCells

-----------------------------------------------------------------------------
(* The new activations. *)

LEMMA NewCalls ==
  ASSUME NEW n \in Names
  PROVE  /\ \A phase \in {"test", "set"} :
              /\ WellFormed(Require(n, phase))
              /\ Require(n, phase).fn = "require" /\ Require(n, phase).name = n
              /\ Require(n, phase).phase = phase
         /\ \A cflag, rflag \in BOOLEAN :
              /\ WellFormed(Load(n, cflag, rflag))
              /\ Load(n, cflag, rflag).fn = "load" /\ Load(n, cflag, rflag).name = n
              /\ Load(n, cflag, rflag).cell = None
         /\ WellFormed(LoadRequired(n)) /\ LoadRequired(n).fn \in {"load", "load_so"}
         /\ LoadRequired(n).name = n
         /\ LoadRequired(n).fn \in HasFile => LoadRequired(n).cell = None
         /\ WellFormed(SaveForms(n)) /\ SaveForms(n).fn = "save_forms" /\ SaveForms(n).cell = None
         /\ WellFormed(Catch) /\ Catch.fn = "catch"
<1>1. \A phase \in {"test", "set"} : WellFormed(Require(n, phase))
  BY DEF Require, RequireCalls, Activations, WellFormed, HasFile
<1>2. ASSUME NEW cflag \in BOOLEAN, NEW rflag \in BOOLEAN PROVE WellFormed(Load(n, cflag, rflag))
  <2>1. Load(n, cflag, rflag) \in LoadCalls
    BY DEF Load, LoadCalls
  <2>2. Load(n, cflag, rflag).cell = None /\ Load(n, cflag, rflag).phase # "forms"
        /\ Load(n, cflag, rflag).pos = 1 /\ Load(n, cflag, rflag).name = n
        /\ Len(Contents[n]) \in Nat
    BY FormFacts DEF Load
  <2>3. QED
    BY <2>1, <2>2 DEF WellFormed, Activations
<1>3. WellFormed(LoadSo(n)) /\ LoadSo(n).fn = "load_so" /\ LoadSo(n).name = n
  BY DEF LoadSo, LoadSoCalls, Activations, WellFormed, HasFile
<1>4. WellFormed(SaveForms(n)) /\ SaveForms(n).fn = "save_forms" /\ SaveForms(n).cell = None
  BY DEF SaveForms, SaveCalls, Activations, WellFormed
<1>5. WellFormed(Catch) /\ Catch.fn = "catch"
  BY DEF Catch, CatchCalls, Activations, WellFormed, HasFile
<1>6. \A cflag, rflag \in BOOLEAN :
        Load(n, cflag, rflag).fn = "load" /\ Load(n, cflag, rflag).name = n /\ Load(n, cflag, rflag).cell = None
  BY DEF Load
<1>7. QED
  BY <1>1, <1>2, <1>3, <1>4, <1>5, <1>6 DEF Require, LoadRequired, HasFile

LEMMA StackPop ==
  ASSUME StackInv, calls # <<>>, calls' = Below
  PROVE  StackInv' /\ CellsOf(calls') \union OwnCell(Top) = CellsOf(calls)
<1>1. Below \in Seq(Activations)
  BY TopFacts DEF StackInv
<1>2. calls' = Below \o <<>>
  BY <1>1, ConcatFacts
<1>3. StackInv'
  BY <1>2, ReplacesNone, StackReplace
<1>4. QED
  BY <1>3, CellsOfTop DEF StackInv

LEMMA StackBecome ==
  ASSUME StackInv, calls # <<>>, NEW b, WellFormed(b), Become(b),
         Top.fn # "catch", b.fn = Top.fn, b.name = Top.name
  PROVE  StackInv' /\ CellsOf(calls') = CellsOf(Below) \union OwnCell(b)
<1>1. Below \in Seq(Activations) /\ b \in Activations
  BY TopFacts DEF StackInv, WellFormed
<1>2. calls' = Below \o <<b>> /\ <<b>> \in Seq(Activations)
  BY <1>1, ConcatFacts DEF Become
<1>3. StackInv'
  BY <1>2, ReplacesOne, StackReplace
<1>4. CellsOf(calls') = CellsOf(Below) \union CellsOf(<<b>>)
  BY <1>2, CellsOfReplaced DEF StackInv
<1>5. QED
  BY <1>3, <1>4, CellsOfOne

LEMMA LoadTop ==
  ASSUME StackInv, calls # <<>>, Top.fn = "load"
  PROVE  /\ Top \in LoadCalls
         /\ Top.name \in Names /\ Top.pos \in Nat \ {0} /\ Top.cell \in Cells \union {None}
         /\ Top.cell = None <=> Top.phase # "forms"
         /\ Top.phase # "forms" => Top.pos = 1
         /\ Len(Contents[Top.name]) \in Nat
         /\ WellFormed(Top)
         /\ OwnCell(Top) = {Top.cell}
<1>1. WellFormed(Top)
  BY TopFacts DEF StackInv
<1>2. Top \in LoadCalls
  BY <1>1, Kinds DEF WellFormed
<1>3. Len(Contents[Top.name]) \in Nat
  BY <1>2, FormFacts DEF LoadCalls
<1>4. QED
  BY <1>1, <1>2, <1>3 DEF WellFormed, HasFile, LoadCalls, OwnCell

LEMMA StackRequireTests == ASSUME StackInv, RequireTests PROVE StackInv' /\ SameCells
<1>1. calls # <<>> /\ Top.fn = "require" /\ Top.phase = "test"
  BY DEF RequireTests, Running
<1>2. OwnCell(Top) = {}
  BY <1>1 DEF OwnCell, HasFile
<1>3. Top.name \in Names
  BY <1>1, TopFacts, Kinds DEF RequireCalls, StackInv
<1>4. CASE Top.name \in loaded
  <2>1. calls' = Below
    BY <1>4 DEF RequireTests
  <2>2. QED
    BY <1>1, <1>2, <2>1, StackPop DEF SameCells
<1>5. CASE Top.name \notin loaded
  <2> DEFINE b == Require(Top.name, "set")
             c == LoadRequired(Top.name)
  <2>1. calls' = Below \o <<b, c>>
    BY <1>5 DEF RequireTests, Push
  <2>2. /\ WellFormed(b) /\ b.fn = "require" /\ b.name = Top.name /\ b.phase = "set"
        /\ WellFormed(c) /\ c.fn \in {"load", "load_so"} /\ c.name = Top.name
        /\ c.fn \in HasFile => c.cell = None
    BY <1>3, NewCalls
  <2> HIDE DEF b, c
  <2>3. Above(b, c) /\ Confined(b.name, c)
    BY <2>2 DEF Above, Confined
  <2>4. Replaces(Top, <<b, c>>)
    BY <1>1, <2>2, <2>3, ReplacesTwo
  <2>5. CellsOf(<<b, c>>) \ {None} = OwnCell(Top) \ {None}
    <3>1. CellsOf(<<b, c>>) = OwnCell(b) \union OwnCell(c)
      BY CellsOfTwo
    <3>2. OwnCell(b) = {} /\ OwnCell(c) \subseteq {None}
      BY <2>2 DEF OwnCell, HasFile
    <3>3. QED
      BY <1>2, <3>1, <3>2
  <2>6. QED
    BY <1>1, <2>1, <2>4, <2>5, StackReplace, SameCellsReplaced DEF Replaces
<1>6. QED
  BY <1>4, <1>5

LEMMA StackRequireSets == ASSUME StackInv, RequireSets PROVE StackInv' /\ SameCells
<1>1. calls # <<>> /\ Top.fn = "require" /\ calls' = Below
  BY DEF RequireSets, Running
<1>2. QED
  BY <1>1, StackPop DEF SameCells, OwnCell, HasFile

LEMMA StackLoadSo == ASSUME StackInv, siod_load_so PROVE StackInv' /\ SameCells
<1>1. calls # <<>> /\ Top.fn = "load_so" /\ calls' = Below
  BY DEF siod_load_so, Running
<1>2. QED
  BY <1>1, StackPop DEF SameCells, OwnCell, HasFile

LEMMA StackCatchReturns == ASSUME StackInv, CatchReturns PROVE StackInv' /\ SameCells
<1>1. calls # <<>> /\ Top.fn = "catch" /\ calls' = Below
  BY DEF CatchReturns
<1>2. QED
  BY <1>1, StackPop DEF SameCells, OwnCell, HasFile

LEMMA StackProbe == ASSUME StackInv, Probe PROVE StackInv' /\ SameCells
<1>1. calls # <<>> /\ Top.fn = "load" /\ Top.phase = "probe"
  BY DEF Probe, Running
<1>2. PICK dir \in {"cwd", "lib"} : Become([Top EXCEPT !.phase = "open", !.dir = dir])
  BY DEF Probe
<1> DEFINE b == [Top EXCEPT !.phase = "open", !.dir = dir]
<1>3. b \in LoadCalls /\ b.fn = "load" /\ b.name = Top.name /\ b.cell = None /\ b.phase = "open" /\ b.pos = 1
  BY <1>1, LoadTop DEF LoadCalls
<1>4. WellFormed(b)
  BY <1>1, <1>3, LoadTop DEF WellFormed, Activations
<1> HIDE DEF b
<1>5. StackInv' /\ CellsOf(calls') = CellsOf(Below) \union {None}
  BY <1>1, <1>2, <1>3, <1>4, StackBecome DEF b, OwnCell, HasFile
<1>6. CellsOf(calls) = CellsOf(Below) \union {None}
  BY <1>1, CellsOfTop, LoadTop DEF StackInv
<1>7. QED
  BY <1>5, <1>6 DEF SameCells

(* The next form is read.                                                   *)
NextForm == Contents[Top.name][Top.pos]
Advanced == [Top EXCEPT !.pos = @ + 1]

LEMMA FormCalls ==
  ASSUME StackInv, Form
  PROVE  /\ calls # <<>> /\ Top.fn = "load" /\ Top.phase = "forms"
         /\ Top.name \in Names /\ Top.pos \in Nat \ {0}
         /\ Top.pos \in DOMAIN Contents[Top.name]
         /\ NextForm.op \in {"eval", "require", "try", "load"} /\ NextForm.name \in Names
         /\ NextForm.op # "eval" => NextForm.name \in Uses(Top.name)
         /\ WellFormed(Advanced) /\ OwnCell(Advanced) = OwnCell(Top)
         /\ Advanced.fn = "load" /\ Advanced.name = Top.name /\ Advanced.phase = "forms"
         /\ Advanced.cflag = Top.cflag
         /\ Advanced.pos = Top.pos + 1 /\ Advanced.pos - 1 = Top.pos
         /\ \/ Become(Advanced) /\ (Top.cflag \/ NextForm.op = "eval")
            \/ NextForm.op = "require" /\ calls' = Below \o <<Advanced, Require(NextForm.name, "test")>>
            \/ NextForm.op = "try" /\ calls' = Below \o <<Advanced, Catch, Require(NextForm.name, "test")>>
            \/ NextForm.op = "load" /\ calls' = Below \o <<Advanced, Load(NextForm.name, FALSE, FALSE)>>
<1>1. calls # <<>> /\ Top.fn = "load" /\ Top.phase = "forms" /\ Top.pos <= Len(Contents[Top.name])
  BY DEF Form, Running
<1>2. /\ Top \in LoadCalls /\ Top.name \in Names /\ Top.pos \in Nat \ {0} /\ WellFormed(Top)
      /\ OwnCell(Top) = {Top.cell} /\ Len(Contents[Top.name]) \in Nat
  BY <1>1, LoadTop
<1>3. /\ Top.pos \in DOMAIN Contents[Top.name]
      /\ NextForm.op \in {"eval", "require", "try", "load"} /\ NextForm.name \in Names
      /\ NextForm.op # "eval" => NextForm.name \in Uses(Top.name)
  BY <1>1, <1>2, FormFacts DEF NextForm
<1>4. /\ Advanced \in LoadCalls /\ Advanced.fn = "load" /\ Advanced.name = Top.name
      /\ Advanced.cell = Top.cell /\ Advanced.phase = "forms" /\ Advanced.cflag = Top.cflag
      /\ Advanced.pos = Top.pos + 1 /\ Advanced.pos - 1 = Top.pos
  BY <1>1, <1>2 DEF LoadCalls, Advanced
<1>5. WellFormed(Advanced) /\ OwnCell(Advanced) = OwnCell(Top)
  BY <1>1, <1>2, <1>4 DEF WellFormed, Activations, OwnCell, HasFile
<1>6. CASE Top.cflag \/ NextForm.op = "eval"
  BY <1>1, <1>2, <1>3, <1>4, <1>5, <1>6 DEF Form, NextForm, Advanced
<1>7. CASE ~(Top.cflag \/ NextForm.op = "eval")
  <2>1. calls' = Below \o (<<Advanced>> \o
              CASE NextForm.op = "require" -> <<Require(NextForm.name, "test")>>
                [] NextForm.op = "try" -> <<Catch, Require(NextForm.name, "test")>>
                [] NextForm.op = "load" -> <<Load(NextForm.name, FALSE, FALSE)>>)
    BY <1>7 DEF Form, Push, NextForm, Advanced
  <2>2. NextForm.op \in {"require", "try", "load"}
    BY <1>3, <1>7
  <2>3. \A x, y : <<Advanced>> \o <<x>> = <<Advanced, x>> /\ <<Advanced>> \o <<x, y>> = <<Advanced, x, y>>
    BY ShortConcat
  <2>4. \/ NextForm.op = "require" /\ calls' = Below \o <<Advanced, Require(NextForm.name, "test")>>
        \/ NextForm.op = "try" /\ calls' = Below \o <<Advanced, Catch, Require(NextForm.name, "test")>>
        \/ NextForm.op = "load" /\ calls' = Below \o <<Advanced, Load(NextForm.name, FALSE, FALSE)>>
    BY <2>1, <2>2, <2>3
  <2>5. QED
    BY <1>1, <1>2, <1>3, <1>4, <1>5, <2>4
<1>8. QED
  BY <1>6, <1>7

LEMMA StackForm == ASSUME StackInv, Form PROVE StackInv' /\ SameCells
<1>1. /\ calls # <<>> /\ Top.fn = "load" /\ Top.phase = "forms"
      /\ NextForm.op \in {"eval", "require", "try", "load"} /\ NextForm.name \in Names
      /\ NextForm.op # "eval" => NextForm.name \in Uses(Top.name)
      /\ WellFormed(Advanced) /\ OwnCell(Advanced) = OwnCell(Top)
      /\ Advanced.fn = "load" /\ Advanced.name = Top.name /\ Advanced.phase = "forms" /\ Advanced.pos - 1 = Top.pos
  BY FormCalls
<1>2. FormBefore(Advanced) = NextForm /\ Advanced.pos - 1 \in DOMAIN Contents[Advanced.name]
  BY FormCalls DEF FormBefore, NextForm
<1>3. \/ Become(Advanced)
      \/ NextForm.op = "require" /\ calls' = Below \o <<Advanced, Require(NextForm.name, "test")>>
      \/ NextForm.op = "try" /\ calls' = Below \o <<Advanced, Catch, Require(NextForm.name, "test")>>
      \/ NextForm.op = "load" /\ calls' = Below \o <<Advanced, Load(NextForm.name, FALSE, FALSE)>>
  BY FormCalls
<1>4. CASE Become(Advanced)
  <2>1. StackInv' /\ CellsOf(calls') = CellsOf(Below) \union OwnCell(Top)
    BY <1>1, <1>4, StackBecome
  <2>2. QED
    BY <1>1, <2>1, CellsOfTop DEF SameCells, StackInv
<1>5. CASE NextForm.op = "require" /\ calls' = Below \o <<Advanced, Require(NextForm.name, "test")>>
  <2> DEFINE b == Require(NextForm.name, "test")
  <2>1. WellFormed(b) /\ b.fn = "require" /\ b.name = NextForm.name
    BY <1>1, NewCalls
  <2> HIDE DEF b
  <2>2. Above(Advanced, b)
    BY <1>1, <1>2, <1>5, <2>1 DEF Above
  <2>3. Replaces(Top, <<Advanced, b>>)
    BY <1>1, <1>5, <2>1, <2>2, ReplacesTwo
  <2>4. CellsOf(<<Advanced, b>>) = OwnCell(Top)
    <3>1. CellsOf(<<Advanced, b>>) = OwnCell(Advanced) \union OwnCell(b)
      BY CellsOfTwo
    <3>2. OwnCell(b) = {}
      BY <2>1 DEF OwnCell, HasFile
    <3>3. QED
      BY <1>1, <3>1, <3>2
  <2>5. QED
    BY <1>1, <1>5, <2>3, <2>4, StackReplace, SameCellsReplaced DEF Replaces, b
<1>6. CASE NextForm.op = "try" /\ calls' = Below \o <<Advanced, Catch, Require(NextForm.name, "test")>>
  <2> DEFINE b == Require(NextForm.name, "test")
             c == Catch
  <2>1. WellFormed(b) /\ b.fn = "require" /\ b.name = NextForm.name /\ WellFormed(c) /\ c.fn = "catch"
    BY <1>1, NewCalls
  <2> HIDE DEF b, c
  <2>2. Above(Advanced, c) /\ Above(c, b)
    BY <1>1, <1>2, <1>6, <2>1 DEF Above
  <2>3. Replaces(Top, <<Advanced, c, b>>)
    BY <1>1, <1>6, <2>1, <2>2, ReplacesThree
  <2>4. CellsOf(<<Advanced, c, b>>) = OwnCell(Top)
    <3>1. CellsOf(<<Advanced, c, b>>) = OwnCell(Advanced) \union OwnCell(c) \union OwnCell(b)
      BY CellsOfThree
    <3>2. OwnCell(b) = {} /\ OwnCell(c) = {}
      BY <2>1 DEF OwnCell, HasFile
    <3>3. QED
      BY <1>1, <3>1, <3>2
  <2>5. QED
    BY <1>1, <1>6, <2>3, <2>4, StackReplace, SameCellsReplaced DEF Replaces, b, c
<1>7. CASE NextForm.op = "load" /\ calls' = Below \o <<Advanced, Load(NextForm.name, FALSE, FALSE)>>
  <2> DEFINE b == Load(NextForm.name, FALSE, FALSE)
  <2>1. WellFormed(b) /\ b.fn = "load" /\ b.name = NextForm.name /\ b.cell = None
    BY <1>1, NewCalls
  <2> HIDE DEF b
  <2>2. Above(Advanced, b)
    BY <1>1, <1>2, <1>7, <2>1 DEF Above
  <2>3. Replaces(Top, <<Advanced, b>>)
    BY <1>1, <1>7, <2>1, <2>2, ReplacesTwo
  <2>4. CellsOf(<<Advanced, b>>) \ {None} = OwnCell(Top) \ {None}
    <3>1. CellsOf(<<Advanced, b>>) = OwnCell(Advanced) \union OwnCell(b)
      BY CellsOfTwo
    <3>2. OwnCell(b) = {None}
      BY <2>1 DEF OwnCell, HasFile
    <3>3. QED
      BY <1>1, <3>1, <3>2
  <2>5. QED
    BY <1>1, <1>7, <2>3, <2>4, StackReplace, SameCellsReplaced DEF Replaces, b
<1>8. QED
  BY <1>3, <1>4, <1>5, <1>6, <1>7

(* A file is opened; that of a load may have a parser to require first.     *)
LEMMA StackOpen ==
  ASSUME StackInv, NEW c \in Cells, Open(c)
  PROVE  StackInv' /\ CellsOf(calls') \ {None} = (CellsOf(calls) \ {None}) \union {c}
<1> DEFINE a == [Top EXCEPT !.phase = "forms", !.cell = c]
<1>1. calls # <<>> /\ Top.fn = "load" /\ Top.phase = "open"
  BY DEF Open, Running
<1>2. /\ Top \in LoadCalls /\ Top.name \in Names /\ Top.pos = 1 /\ Top.cell = None
      /\ OwnCell(Top) = {None}
  BY <1>1, LoadTop
<1>3. /\ a \in LoadCalls /\ a.fn = "load" /\ a.name = Top.name /\ a.cell = c
      /\ a.phase = "forms" /\ a.pos = 1
  BY <1>1, <1>2 DEF LoadCalls
<1>4. c # None
  BY NoneAssumption
<1>5. WellFormed(a) /\ OwnCell(a) = {c}
  BY <1>3, <1>4 DEF WellFormed, Activations, OwnCell, HasFile
<1>6. calls' = Below \o (IF Parser[a.name] = None THEN <<a>> ELSE <<a, Require(Parser[a.name], "test")>>)
  BY DEF Open, Push
<1> HIDE DEF a
<1>7. CellsOf(calls) = CellsOf(Below) \union {None}
  BY <1>1, <1>2, CellsOfTop DEF StackInv
<1>8. CASE Parser[a.name] = None
  <2>1. calls' = Below \o <<a>> /\ Replaces(Top, <<a>>)
    BY <1>1, <1>3, <1>5, <1>6, <1>8, ReplacesOne
  <2>2. StackInv'
    BY <1>1, <2>1, StackReplace
  <2>3. CellsOf(calls') = CellsOf(Below) \union CellsOf(<<a>>)
    BY <1>1, <2>1, CellsOfReplaced DEF StackInv, Replaces
  <2>4. CellsOf(<<a>>) = {c}
    BY <1>5, CellsOfOne
  <2>5. QED
    BY <1>4, <1>7, <2>2, <2>3, <2>4
<1>9. CASE Parser[a.name] # None
  <2> DEFINE b == Require(Parser[a.name], "test")
  <2>1. Parser[a.name] \in Uses(a.name) /\ Parser[a.name] \in Names
    BY <1>2, <1>3, <1>9, FormFacts
  <2>2. WellFormed(b) /\ b.fn = "require" /\ b.name = Parser[a.name]
    BY <2>1, NewCalls
  <2>3. calls' = Below \o <<a, b>>
    BY <1>6, <1>9
  <2> HIDE DEF b
  <2>4. Above(a, b)
    BY <1>3, <2>2 DEF Above
  <2>5. Replaces(Top, <<a, b>>)
    BY <1>1, <1>3, <1>5, <2>1, <2>2, <2>4, ReplacesTwo
  <2>6. StackInv'
    BY <1>1, <2>3, <2>5, StackReplace
  <2>7. CellsOf(calls') = CellsOf(Below) \union CellsOf(<<a, b>>)
    BY <1>1, <2>3, <2>5, CellsOfReplaced DEF StackInv, Replaces
  <2>8. CellsOf(<<a, b>>) = OwnCell(a) \union OwnCell(b)
    BY CellsOfTwo
  <2>9. OwnCell(b) = {}
    BY <2>2 DEF OwnCell, HasFile
  <2>10. QED
    BY <1>4, <1>5, <1>7, <2>6, <2>7, <2>8, <2>9
<1>10. QED
  BY <1>8, <1>9

LEMMA SaveTop ==
  ASSUME StackInv, calls # <<>>, Top.fn = "save_forms"
  PROVE  /\ Top \in SaveCalls
         /\ Top.name \in Names /\ Top.cell \in Cells \union {None}
         /\ Top.cell = None <=> Top.phase # "forms"
         /\ OwnCell(Top) = {Top.cell}
<1>1. WellFormed(Top)
  BY TopFacts DEF StackInv
<1>2. Top \in SaveCalls
  BY <1>1, Kinds DEF WellFormed
<1>3. QED
  BY <1>1, <1>2 DEF WellFormed, HasFile, SaveCalls, OwnCell

LEMMA StackSaveOpens ==
  ASSUME StackInv, NEW c \in Cells, SaveOpens(c)
  PROVE  StackInv' /\ CellsOf(calls') \ {None} = (CellsOf(calls) \ {None}) \union {c}
<1> DEFINE a == [Top EXCEPT !.phase = "forms", !.cell = c]
<1>1. calls # <<>> /\ Top.fn = "save_forms" /\ Top.phase = "open" /\ Become(a)
  BY DEF SaveOpens, Running
<1>2. Top \in SaveCalls /\ Top.cell = None /\ OwnCell(Top) = {None}
  BY <1>1, SaveTop
<1>3. /\ a \in SaveCalls /\ a.fn = "save_forms" /\ a.name = Top.name /\ a.cell = c
      /\ a.phase = "forms"
  BY <1>1, <1>2 DEF SaveCalls
<1>4. c # None
  BY NoneAssumption
<1>5. WellFormed(a) /\ OwnCell(a) = {c}
  BY <1>3, <1>4 DEF WellFormed, Activations, OwnCell, HasFile
<1> HIDE DEF a
<1>6. StackInv' /\ CellsOf(calls') = CellsOf(Below) \union {c}
  BY <1>1, <1>3, <1>5, StackBecome
<1>7. CellsOf(calls) = CellsOf(Below) \union {None}
  BY <1>1, <1>2, CellsOfTop DEF StackInv
<1>8. QED
  BY <1>4, <1>6, <1>7

LEMMA StackEndOfFile ==
  ASSUME StackInv, EndOfFile \/ SaveCloses
  PROVE  /\ StackInv'
         /\ Top.cell \in Cells /\ Top.cell # None
         /\ CellsOf(calls') \union {Top.cell} = CellsOf(calls)
<1>1. calls # <<>> /\ Top.fn \in {"load", "save_forms"} /\ Top.phase = "forms" /\ calls' = Below
  BY DEF EndOfFile, SaveCloses, Running
<1>2. Top.cell \in Cells /\ Top.cell # None /\ OwnCell(Top) = {Top.cell}
  BY <1>1, LoadTop, SaveTop, NoneAssumption
<1>3. QED
  BY <1>1, <1>2, StackPop

LEMMA StackTopLevel ==
  ASSUME StackInv, NEW n \in Names, TopLevel(n)
  PROVE  StackInv' /\ SameCells
<1>1. calls = <<>>
  BY DEF TopLevel
<1>2. PICK a : /\ WellFormed(a) /\ OwnCell(a) \subseteq {None}
               /\ calls' = <<>> \o <<a>>
  <2>1. CASE calls' = <<>> \o <<Require(n, "test")>>
    BY <2>1, NewCalls DEF OwnCell, HasFile
  <2>2. CASE \E cflag, rflag \in BOOLEAN : calls' = <<>> \o <<Load(n, cflag, rflag)>>
    BY <2>2, NewCalls DEF OwnCell, HasFile
  <2>3. CASE calls' = <<>> \o <<SaveForms(n)>>
    BY <2>3, NewCalls DEF OwnCell, HasFile
  <2>4. QED
    BY <2>1, <2>2, <2>3 DEF TopLevel, Push
<1>3. <<a>> \in Seq(Activations)
  BY <1>2 DEF WellFormed
<1>4. calls' = <<a>>
  BY <1>2, <1>3, ConcatEmptySeq
<1>5. StackInv'
  BY <1>2, <1>4, StackStart
<1>6. CellsOf(calls') = OwnCell(a)
  BY <1>4, CellsOfOne
<1>7. CellsOf(calls) = {}
  BY <1>1 DEF CellsOf
<1>8. QED
  BY <1>2, <1>5, <1>6, <1>7 DEF SameCells

(* An error: the calls above the innermost catch are gone.                  *)
LEMMA StackJump ==
  ASSUME StackInv, calls # <<>>, Jump
  PROVE  /\ StackInv'
         /\ CellsOf(calls') \subseteq CellsOf(calls)
         /\ abandoned \subseteq abandoned'
         /\ CellsOf(calls) \ {None} \subseteq CellsOf(calls') \union abandoned'
         /\ \E n \in 0 .. Len(calls) - 1 :
              /\ calls' = SubSeq(calls, 1, n)
              /\ n + 1 \in DOMAIN calls
              /\ n > 0 => calls[n + 1].fn = "catch"
<1>1. Len(calls) \in Nat \ {0} /\ DOMAIN calls = 1 .. Len(calls)
  BY TopFacts DEF StackInv
<1>2. LastCatch \in 0 .. Len(calls) /\ (LastCatch # 0 => calls[LastCatch].fn = "catch")
  BY CatchFacts DEF StackInv
<1> DEFINE n == IF LastCatch = 0 THEN 0 ELSE LastCatch - 1
<1>3. n \in 0 .. Len(calls) - 1 /\ n \in 0 .. Len(calls) /\ n + 1 \in DOMAIN calls
      /\ (n > 0 => calls[n + 1].fn = "catch")
  BY <1>1, <1>2
<1>4. calls' = SubSeq(calls, 1, n)
  BY CatchFacts DEF Jump, StackInv
<1>5. StackInv'
  BY <1>3, <1>4, StackCut
<1>6. DOMAIN calls' = 1 .. n /\ \A i \in 1 .. n : calls'[i] = calls[i]
  BY <1>3, <1>4, PrefixFacts, ElementType DEF StackInv
<1>7. ASSUME NEW i \in DOMAIN calls', calls'[i].fn \in HasFile PROVE calls'[i].cell \in CellsOf(calls)
  BY <1>1, <1>3, <1>6, <1>7 DEF CellsOf
<1>8. CellsOf(calls') \subseteq CellsOf(calls)
  BY <1>7 DEF CellsOf
<1>9. ASSUME NEW i \in DOMAIN calls, calls[i].fn \in HasFile, calls[i].cell # None
      PROVE  calls[i].cell \in CellsOf(calls') \union abandoned'
  <2>1. CASE i \in 1 .. n
    <3>1. i \in DOMAIN calls' /\ calls'[i] = calls[i]
      BY <1>6, <2>1
    <3>2. QED
      BY <1>9, <3>1 DEF CellsOf
  <2>2. CASE i \in LastCatch + 1 .. Len(calls)
    BY <1>9, <2>2 DEF Jump
  <2>3. CASE i = LastCatch
    BY <1>1, <1>2, <1>9, <2>3 DEF HasFile
  <2>4. QED
    BY <1>1, <1>2, <2>1, <2>2, <2>3
<1>10. CellsOf(calls) \ {None} \subseteq CellsOf(calls') \union abandoned'
  BY <1>9 DEF CellsOf
<1>11. abandoned \subseteq abandoned'
  BY DEF Jump
<1>12. QED
  BY <1>3, <1>4, <1>5, <1>8, <1>10, <1>11

-----------------------------------------------------------------------------
(* Every step keeps the stack as it should be.                              *)

LEMMA StackKept ==
  ASSUME StackInv, calls' = calls
  PROVE  StackInv' /\ CellsOf(calls') = CellsOf(calls) /\ SameCells
  BY DEF StackInv, SameCells

LEMMA StackStep == ASSUME StackInv, [Next]_vars PROVE StackInv'
<1>1. CASE UNCHANGED vars
  BY <1>1, StackKept DEF vars
<1>2. CASE \E n \in Names, c \in Cells : fopen(n, c)
  BY <1>2, StackKept DEF fopen
<1>3. ASSUME NEW c \in Cells, siod_fclose_l(c) \/ siod_pclose_l(c) \/ Forget(c) \/ Collect(c)
      PROVE  StackInv'
  BY <1>3, StackKept DEF siod_fclose_l, siod_pclose_l, Forget, Collect
<1>4. ASSUME NEW c \in Cells, Open(c) \/ SaveOpens(c) PROVE StackInv'
  BY <1>4, StackOpen, StackSaveOpens
<1>5. ASSUME NEW c \in Cells, OpenFails(c) PROVE StackInv'
  BY <1>5, StackJump DEF OpenFails, Running
<1>6. CASE err
  BY <1>6, StackJump DEF err
<1>7. CASE \E n \in Names : TopLevel(n)
  BY <1>7, StackTopLevel
<1>8. CASE RequireTests \/ RequireSets \/ Probe \/ Form \/ EndOfFile \/ SaveCloses \/ siod_load_so \/ CatchReturns
  BY <1>8, StackRequireTests, StackRequireSets, StackProbe, StackForm, StackEndOfFile, StackLoadSo,
     StackCatchReturns
<1>9. CASE \E n \in Movable, dirs \in SUBSET {"cwd", "lib"} : FileMoves(n, dirs)
  BY <1>9, StackKept DEF FileMoves
<1>10. QED
  BY <1>1, <1>2, <1>3, <1>4, <1>5, <1>6, <1>7, <1>8, <1>9 DEF Next

-----------------------------------------------------------------------------
(* Files and cells.                                                         *)

LEMMA ReferencedIs == Referenced = held \union CellsOf(calls) /\ Referenced' = held' \union CellsOf(calls')
  BY DEF Referenced, CellsOf

(* FileInv with the cells of the stack named.                               *)
FilesWith(stack) ==
  /\ cells \subseteq Cells
  /\ held \subseteq Cells
  /\ open = inCell /\ inCell \subseteq cells
  /\ (held \union stack) \ {None} \subseteq cells
  /\ open \subseteq held \union stack \union abandoned

LEMMA FileInvIs == (FileInv <=> FilesWith(CellsOf(calls))) /\ (FileInv' <=> FilesWith(CellsOf(calls))')
  BY ReferencedIs DEF FileInv, FilesOwned, LoadCloses, FilesWith

LEMMA FilesUnchanged ==
  ASSUME FileInv, UNCHANGED fileVars, abandoned' = abandoned, SameCells
  PROVE  FileInv'
<1>1. None \notin Cells
  BY NoneAssumption
<1>2. QED
  BY <1>1, FileInvIs DEF FilesWith, fileVars, SameCells

LEMMA FilesStep == ASSUME StackInv, FileInv, [Next]_vars PROVE FileInv'
<1>0. None \notin Cells
  BY NoneAssumption
<1>1. CASE UNCHANGED vars
  BY <1>1, StackKept, FilesUnchanged DEF vars
<1>2. ASSUME NEW n \in Names, NEW c \in Cells, fopen(n, c) PROVE FileInv'
  <2>1. CellsOf(calls') = CellsOf(calls)
    BY <1>2 DEF fopen
  <2>2. QED
    BY <1>0, <1>2, <2>1, FileInvIs DEF FilesWith, fopen, siod_fopen_cg, Unchanged
<1>3. ASSUME NEW c \in Cells, siod_fclose_l(c) \/ siod_pclose_l(c) \/ Forget(c) PROVE FileInv'
  <2>1. CellsOf(calls') = CellsOf(calls)
    BY <1>3 DEF siod_fclose_l, siod_pclose_l, Forget
  <2>2. CASE siod_fclose_l(c)
    BY <2>1, <2>2, FileInvIs DEF FilesWith, siod_fclose_l, siod_file_gc_free, Unchanged
  <2>3. CASE siod_pclose_l(c)
    BY <2>1, <2>3, FileInvIs DEF FilesWith, siod_pclose_l, Unchanged
  <2>4. CASE Forget(c)
    BY <2>1, <2>4, FileInvIs DEF FilesWith, Forget
  <2>5. QED
    BY <1>3, <2>2, <2>3, <2>4
<1>4. ASSUME NEW c \in Cells, Collect(c) PROVE FileInv'
  <2>1. CellsOf(calls') = CellsOf(calls) /\ c \notin held \union CellsOf(calls)
    BY <1>4, ReferencedIs DEF Collect
  <2>2. QED
    BY <1>4, <2>1, FileInvIs DEF FilesWith, Collect, siod_file_gc_free
<1>5. ASSUME NEW c \in Cells, Open(c) \/ SaveOpens(c) PROVE FileInv'
  <2>1. CellsOf(calls') \ {None} = (CellsOf(calls) \ {None}) \union {c}
    BY <1>5, StackOpen, StackSaveOpens
  <2>2. cells' = cells \union {c} /\ inCell' = inCell \union {c} /\ open' = open \union {c}
        /\ held' = held /\ abandoned' = abandoned
    BY <1>5 DEF Open, SaveOpens, siod_fopen_cg, Unchanged
  <2>3. QED
    BY <1>0, <2>1, <2>2, FileInvIs DEF FilesWith
<1>6. ASSUME NEW c \in Cells, OpenFails(c) PROVE FileInv'
  <2>1. calls # <<>> /\ Jump
    BY <1>6 DEF OpenFails, Running
  <2>2. /\ CellsOf(calls') \subseteq CellsOf(calls) /\ abandoned \subseteq abandoned'
        /\ CellsOf(calls) \ {None} \subseteq CellsOf(calls') \union abandoned'
    BY <2>1, StackJump
  <2>3. QED
    BY <1>0, <1>6, <2>2, FileInvIs DEF FilesWith, OpenFails
<1>7. CASE err
  <2>1. calls # <<>> /\ Jump
    BY <1>7 DEF err
  <2>2. /\ CellsOf(calls') \subseteq CellsOf(calls) /\ abandoned \subseteq abandoned'
        /\ CellsOf(calls) \ {None} \subseteq CellsOf(calls') \union abandoned'
    BY <2>1, StackJump
  <2>3. QED
    BY <1>0, <1>7, <2>2, FileInvIs DEF FilesWith, err, fileVars
<1>8. CASE \E n \in Names : TopLevel(n)
  BY <1>8, StackTopLevel, FilesUnchanged DEF TopLevel, Unchanged
<1>9. CASE RequireTests \/ RequireSets \/ Probe \/ Form \/ siod_load_so \/ CatchReturns
  <2>1. SameCells
    BY <1>9, StackRequireTests, StackRequireSets, StackProbe, StackForm, StackLoadSo, StackCatchReturns
  <2>2. UNCHANGED <<fileVars, abandoned>>
    BY <1>9 DEF RequireTests, RequireSets, Probe, Form, siod_load_so, CatchReturns, Unchanged
  <2>3. QED
    BY <2>1, <2>2, FilesUnchanged
<1>10. CASE EndOfFile \/ SaveCloses
  <2>1. Top.cell # None /\ CellsOf(calls') \union {Top.cell} = CellsOf(calls)
    BY <1>10, StackEndOfFile
  <2>2. siod_file_gc_free(Top.cell) /\ UNCHANGED <<cells, held, abandoned>>
    BY <1>10 DEF EndOfFile, SaveCloses, Unchanged
  <2>3. QED
    BY <2>1, <2>2, FileInvIs DEF FilesWith, siod_file_gc_free
<1>11. CASE \E n \in Movable, dirs \in SUBSET {"cwd", "lib"} : FileMoves(n, dirs)
  BY <1>11, StackKept, FilesUnchanged DEF FileMoves
<1>12. QED
  BY <1>1, <1>2, <1>3, <1>4, <1>5, <1>6, <1>7, <1>8, <1>9, <1>10, <1>11 DEF Next

-----------------------------------------------------------------------------
(* What has been loaded: DependenciesFirst for one activation, given whether*)
(* what it last called has returned, and what require has completed.        *)
Depends(a, returned, done) ==
  (a.fn = "load" /\ a.phase = "forms" /\ ~a.cflag) =>
    /\ Parser[a.name] # None /\ (a.pos > 1 \/ returned) => done[Parser[a.name]] > 0
    /\ \A j \in 1 .. a.pos - 1 :
         Contents[a.name][j].op = "require" /\ (j < a.pos - 1 \/ returned) => done[Contents[a.name][j].name] > 0

LEMMA DependenciesFirstIs ==
  /\ DependenciesFirst <=> \A i \in DOMAIN calls : Depends(calls[i], i = Len(calls), completed)
  /\ DependenciesFirst' <=> \A i \in DOMAIN calls' : Depends(calls'[i], i = Len(calls'), completed')
  BY DEF DependenciesFirst, Depends

LEMMA DependsLess ==
  ASSUME NEW a, NEW r \in BOOLEAN, NEW done, Depends(a, r, done)
  PROVE  Depends(a, FALSE, done)
  BY DEF Depends

LEMMA DependsMore ==
  ASSUME NEW a, WellFormed(a), NEW r \in BOOLEAN, NEW done, NEW more,
         \A n \in Names : done[n] > 0 => more[n] > 0,
         Depends(a, r, done)
  PROVE  Depends(a, r, more)
<1> SUFFICES ASSUME a.fn = "load", a.phase = "forms", ~a.cflag
             PROVE  Depends(a, r, more)
  BY DEF Depends
<1>1. a.name \in Names /\ a.pos \in Nat \ {0} /\ a.pos <= Len(Contents[a.name]) + 1
  BY Kinds DEF WellFormed, LoadCalls
<1>2. /\ Parser[a.name] # None => Parser[a.name] \in Names
      /\ \A j \in 1 .. a.pos - 1 : Contents[a.name][j].name \in Names
  BY <1>1, FormFacts
<1>3. QED
  BY <1>2 DEF Depends

(* What it called last returns, a require only when it is complete; a catch *)
(* returns also after an error.                                             *)
LEMMA DependsReturned ==
  ASSUME NEW a, WellFormed(a), NEW b, Above(a, b), NEW done, Depends(a, FALSE, done),
         b.fn = "require" => done[b.name] > 0
  PROVE  Depends(a, TRUE, done)
<1> SUFFICES ASSUME a.fn = "load", a.phase = "forms", ~a.cflag
             PROVE  Depends(a, TRUE, done)
  BY DEF Depends
<1>1. a.name \in Names /\ a.pos \in Nat \ {0}
      /\ DOMAIN Contents[a.name] = 1 .. Len(Contents[a.name]) /\ Len(Contents[a.name]) \in Nat
  BY Kinds, FormFacts DEF WellFormed, LoadCalls
<1>2. CASE a.pos = 1
  <2>1. b.fn = "require" /\ b.name = Parser[a.name]
    BY <1>1, <1>2 DEF Above
  <2>2. QED
    BY <1>2, <2>1 DEF Depends
<1>3. CASE a.pos > 1
  <2>1. Parser[a.name] # None => done[Parser[a.name]] > 0
    BY <1>3 DEF Depends
  <2>2. FormBefore(a).op = "require" => b.fn = "require" /\ b.name = FormBefore(a).name
    BY <1>3 DEF Above
  <2>3. ASSUME NEW j \in 1 .. a.pos - 1, Contents[a.name][j].op = "require"
        PROVE  done[Contents[a.name][j].name] > 0
    <3>1. CASE j < a.pos - 1
      BY <2>3, <3>1 DEF Depends
    <3>2. CASE j = a.pos - 1
      BY <2>2, <2>3, <3>2 DEF FormBefore
    <3>3. QED
      BY <1>1, <3>1, <3>2
  <2>4. QED
    BY <2>1, <2>3 DEF Depends
<1>4. a.pos = 1 \/ a.pos > 1
  BY <1>1
<1>5. QED
  BY <1>2, <1>3, <1>4

(* The flags tell what is complete, and a file whose load is under way while*)
(* its flag is set is cyclic.                                               *)
FlagsInv ==
  /\ loaded \subseteq Names
  /\ completed \in [Names -> 0 .. 2]
  /\ \A n \in Names : n \in loaded <=> completed[n] > 0
  /\ \A i \in DOMAIN calls :
       calls[i].fn = "require" /\ calls[i].phase = "set" /\ calls[i].name \in loaded => Cyclic(calls[i].name)
  /\ LoadedOnce

LEMMA LoadedInvIs == (LoadedInv <=> FlagsInv /\ DependenciesFirst) /\ (LoadedInv' <=> FlagsInv' /\ DependenciesFirst')
  BY DEF LoadedInv, FlagsInv

(* A step that loads nothing to its end.                                    *)
LEMMA LoadedReplaced ==
  ASSUME StackInv, LoadedInv, calls # <<>>, NEW t, Replaces(Top, t), t # <<>>, calls' = Below \o t,
         UNCHANGED <<loaded, completed>>,
         Depends(t[1], Len(t) = 1, completed),
         \A k \in DOMAIN t : k > 1 => ~(t[k].fn = "load" /\ t[k].phase = "forms"),
         \A k \in DOMAIN t : k > 1 => ~(t[k].fn = "require" /\ t[k].phase = "set"),
         t[1].fn = "require" /\ t[1].phase = "set" => t[1].name \notin loaded
  PROVE  LoadedInv'
<1> DEFINE m == Len(calls) - 1
<1>0. t \in Seq(Activations) /\ calls \in Seq(Activations)
  BY DEF Replaces, StackInv
<1>1. t \in Seq(Activations) /\ calls \in Seq(Activations) /\ Len(t) # 0
  BY <1>0
<1>2. /\ m \in Nat /\ DOMAIN calls = 1 .. m + 1 /\ Len(calls) = m + 1
      /\ DOMAIN t = 1 .. Len(t) /\ Len(t) \in Nat \ {0}
      /\ DOMAIN calls' = 1 .. m + Len(t) /\ Len(calls') = m + Len(t)
  <2>1. Len(calls) \in Nat \ {0} /\ DOMAIN calls = 1 .. Len(calls)
    BY <1>1, TopFacts
  <2>2. /\ Len(t) \in Nat /\ DOMAIN t = 1 .. Len(t)
        /\ Len(calls') = Len(calls) - 1 + Len(t) /\ DOMAIN calls' = 1 .. Len(calls')
    BY <1>1, ReplacedStack
  <2>3. QED
    BY <1>1, <2>1, <2>2
<1>3. /\ \A i \in 1 .. m : i \in DOMAIN calls /\ calls'[i] = calls[i]
      /\ \A i \in DOMAIN calls' : i > m => i - m \in DOMAIN t /\ calls'[i] = t[i - m]
  BY <1>1, <1>2, TopFacts, ReplacedStack
<1> HIDE DEF m
<1>4. FlagsInv /\ DependenciesFirst
  BY LoadedInvIs
<1>5. ASSUME NEW i \in DOMAIN calls' PROVE Depends(calls'[i], i = Len(calls'), completed')
  <2>1. CASE i \in 1 .. m
    <3>1. i # Len(calls) /\ i # Len(calls')
      BY <1>2, <2>1
    <3>2. Depends(calls[i], FALSE, completed)
      BY <1>3, <1>4, <2>1, <3>1, DependenciesFirstIs
    <3>3. QED
      BY <1>3, <2>1, <3>1, <3>2
  <2>2. CASE i > m
    <3>1. i - m \in DOMAIN t /\ calls'[i] = t[i - m]
      BY <1>3, <2>2
    <3>2. CASE i - m = 1
      <4>1. (i = Len(calls')) <=> (Len(t) = 1)
        BY <1>2, <3>2
      <4>2. QED
        BY <3>1, <3>2, <4>1 DEF Depends
    <3>3. CASE i - m > 1
      BY <3>1, <3>3 DEF Depends
    <3>4. QED
      BY <1>2, <3>1, <3>2, <3>3
  <2>3. QED
    BY <1>2, <2>1, <2>2
<1>6. ASSUME NEW i \in DOMAIN calls', calls'[i].fn = "require", calls'[i].phase = "set", calls'[i].name \in loaded'
      PROVE  Cyclic(calls'[i].name)
  <2>1. CASE i \in 1 .. m
    BY <1>3, <1>4, <1>6, <2>1 DEF FlagsInv
  <2>2. CASE i > m
    <3>1. i - m \in DOMAIN t /\ calls'[i] = t[i - m]
      BY <1>3, <2>2
    <3>2. i - m = 1 \/ i - m > 1
      BY <1>2, <3>1
    <3>3. QED
      BY <1>6, <3>1, <3>2
  <2>3. QED
    BY <1>2, <2>1, <2>2
<1>7. FlagsInv'
  BY <1>4, <1>6 DEF FlagsInv, LoadedOnce
<1>8. QED
  BY <1>5, <1>7, DependenciesFirstIs, LoadedInvIs

(* A step that leaves some activations, by a return or an error.            *)
LEMMA LoadedCut ==
  ASSUME StackInv, DependenciesFirst, NEW n \in 0 .. Len(calls) - 1, n + 1 \in DOMAIN calls,
         calls' = SubSeq(calls, 1, n),
         \A name \in Names : completed[name] > 0 => completed'[name] > 0,
         n > 0 /\ calls[n + 1].fn = "require" => completed'[calls[n + 1].name] > 0
  PROVE  /\ DependenciesFirst'
         /\ \A i \in DOMAIN calls' : i \in 1 .. n /\ i \in DOMAIN calls /\ calls'[i] = calls[i]
<1>1. /\ Len(calls) \in Nat /\ DOMAIN calls = 1 .. Len(calls) /\ n \in 0 .. Len(calls) /\ n \in Nat
      /\ n <= Len(calls) - 1
  BY ElementType DEF StackInv
<1>2. Len(calls') = n /\ DOMAIN calls' = 1 .. n /\ \A i \in 1 .. n : calls'[i] = calls[i]
  BY <1>1, PrefixFacts, ElementType DEF StackInv
<1>3. \A i \in 1 .. n : i \in DOMAIN calls /\ i # Len(calls) /\ WellFormed(calls[i])
  <2>1. ASSUME NEW i \in 1 .. n PROVE i \in DOMAIN calls /\ i # Len(calls)
    <3>1. i \in Nat /\ 1 <= i /\ i < Len(calls)
      BY <1>1
    <3>2. i \in 1 .. Len(calls)
      BY <1>1, <3>1
    <3>3. i # Len(calls)
      BY <1>1, <3>1, LessDiffers
    <3>4. QED
      BY <1>1, <3>2, <3>3
  <2>2. QED
    BY <2>1 DEF StackInv
<1>4. ASSUME NEW i \in 1 .. n PROVE Depends(calls[i], i = n, completed')
  <2>1. Depends(calls[i], FALSE, completed)
    BY <1>3, DependenciesFirstIs
  <2>2. Depends(calls[i], FALSE, completed')
    BY <1>3, <2>1, DependsMore
  <2>3. CASE i = n
    <3>1. Above(calls[n], calls[n + 1]) /\ WellFormed(calls[n])
      BY <1>3, <2>3 DEF StackInv
    <3>0. n > 0
      BY <1>1
    <3>2. n > 0 /\ Depends(calls[n], FALSE, completed')
      BY <2>2, <2>3, <3>0
    <3>3. calls[n + 1].fn = "require" => completed'[calls[n + 1].name] > 0
      BY <3>2
    <3>4. Depends(calls[n], TRUE, completed')
      BY <3>1, <3>2, <3>3, DependsReturned
    <3>5. QED
      BY <2>3, <3>4
  <2>4. QED
    BY <2>2, <2>3
<1>5. \A i \in DOMAIN calls' : Depends(calls'[i], i = Len(calls'), completed')
  BY <1>2, <1>4
<1>6. QED
  BY <1>2, <1>3, <1>5, DependenciesFirstIs

LEMMA LoadedReturns ==
  ASSUME StackInv, LoadedInv, NEW n \in 0 .. Len(calls) - 1, n + 1 \in DOMAIN calls,
         calls' = SubSeq(calls, 1, n), UNCHANGED <<loaded, completed>>,
         n > 0 /\ calls[n + 1].fn = "require" => completed[calls[n + 1].name] > 0
  PROVE  LoadedInv'
<1>1. FlagsInv /\ DependenciesFirst
  BY LoadedInvIs
<1>2. /\ DependenciesFirst'
      /\ \A i \in DOMAIN calls' : i \in DOMAIN calls /\ calls'[i] = calls[i]
  BY <1>1, LoadedCut
<1>3. FlagsInv'
  BY <1>1, <1>2 DEF FlagsInv, LoadedOnce
<1>4. QED
  BY <1>2, <1>3, LoadedInvIs

LEMMA LoadedPop ==
  ASSUME StackInv, LoadedInv, calls # <<>>, calls' = Below, UNCHANGED <<loaded, completed>>,
         Top.fn = "require" => completed[Top.name] > 0
  PROVE  LoadedInv'
<1> DEFINE n == Len(calls) - 1
<1>1. n \in 0 .. Len(calls) - 1 /\ n + 1 \in DOMAIN calls /\ calls[n + 1] = Top /\ Below = SubSeq(calls, 1, n)
  BY TopFacts DEF StackInv, Below
<1>2. QED
  BY <1>1, LoadedReturns

(* The flag is set: whoever else is loading the same file belongs to what it*)
(* uses itself.                                                             *)
LEMMA LoadedSets == ASSUME StackInv, LoadedInv, RequireSets PROVE LoadedInv'
<1> DEFINE m == Len(calls) - 1
           n == Top.name
<1>1. /\ calls # <<>> /\ Top.fn = "require" /\ Top.phase = "set" /\ calls' = Below
      /\ loaded' = loaded \union {n}
      /\ completed' = [completed EXCEPT ![n] = IF @ < 2 THEN @ + 1 ELSE @]
  BY DEF RequireSets, Running
<1>2. /\ m \in 0 .. Len(calls) - 1 /\ m + 1 \in DOMAIN calls /\ calls[m + 1] = Top
      /\ calls' = SubSeq(calls, 1, m)
  BY <1>1, TopFacts DEF StackInv, Below
<1>3. n \in Names
  BY <1>1, TopFacts, Kinds DEF RequireCalls, StackInv
<1>4. FlagsInv /\ DependenciesFirst
  BY LoadedInvIs
<1>5. /\ completed' \in [Names -> 0 .. 2] /\ completed'[n] > 0
      /\ completed'[n] > 1 => completed[n] > 0
      /\ \A o \in Names : o # n => completed'[o] = completed[o]
  BY <1>1, <1>3, <1>4 DEF FlagsInv
<1>6. \A o \in Names : completed[o] > 0 => completed'[o] > 0
  BY <1>5
<1>7. /\ DependenciesFirst'
      /\ \A i \in DOMAIN calls' : i \in 1 .. m /\ i \in DOMAIN calls /\ calls'[i] = calls[i]
  BY <1>1, <1>2, <1>4, <1>5, <1>6, LoadedCut
<1>8. n \in loaded => Cyclic(n)
  BY <1>1, <1>2, <1>4 DEF FlagsInv
<1>9. ASSUME NEW i \in DOMAIN calls', calls'[i].fn = "require", calls'[i].phase = "set", calls'[i].name \in loaded'
      PROVE  Cyclic(calls'[i].name)
  <2>1. i \in 1 .. m /\ i \in DOMAIN calls /\ calls'[i] = calls[i]
    BY <1>7
  <2>2. CASE calls[i].name \in loaded
    BY <1>4, <1>9, <2>1, <2>2 DEF FlagsInv
  <2>3. CASE calls[i].name = n
    <3>1. i < m + 1
      BY <1>2, <2>1
    <3>2. Confined(n, Top)
      BY <1>2, <1>9, <2>1, <2>3, <3>1 DEF StackInv
    <3>3. \A used \in SUBSET Names : Closed(n, used) => n \in used
      BY <1>1, <3>2 DEF Confined
    <3>4. Cyclic(n)
      BY <3>3 DEF Closed, Cyclic
    <3>5. QED
      BY <2>1, <2>3, <3>4
  <2>4. QED
    BY <1>1, <1>9, <2>1, <2>2, <2>3
<1>10. LoadedOnce'
  <2>1. ASSUME NEW o \in Names, completed'[o] > 1 PROVE Cyclic(o)
    <3>1. CASE o = n
      BY <1>4, <1>5, <1>8, <2>1, <3>1 DEF FlagsInv
    <3>2. CASE o # n
      BY <1>4, <1>5, <2>1, <3>2 DEF FlagsInv, LoadedOnce
    <3>3. QED
      BY <3>1, <3>2
  <2>2. QED
    BY <2>1 DEF LoadedOnce
<1>11. \A o \in Names : o \in loaded' <=> completed'[o] > 0
  BY <1>1, <1>3, <1>4, <1>5 DEF FlagsInv
<1>12. FlagsInv'
  BY <1>1, <1>3, <1>4, <1>5, <1>9, <1>10, <1>11 DEF FlagsInv
<1>13. QED
  BY <1>7, <1>12, LoadedInvIs

LEMMA LoadedKept ==
  ASSUME LoadedInv, UNCHANGED <<calls, loaded, completed>>
  PROVE  LoadedInv'
  BY DEF LoadedInv, DependenciesFirst, LoadedOnce

LEMMA LoadedRequireTests == ASSUME StackInv, LoadedInv, RequireTests PROVE LoadedInv'
<1>1. /\ calls # <<>> /\ Top.fn = "require" /\ Top.phase = "test"
      /\ UNCHANGED <<loaded, completed>>
  BY DEF RequireTests, Running, Unchanged
<1>2. Top.name \in Names
  BY <1>1, TopFacts, Kinds DEF RequireCalls, StackInv
<1>3. CASE Top.name \in loaded
  <2>1. completed[Top.name] > 0
    BY <1>2, <1>3, LoadedInvIs DEF FlagsInv
  <2>2. calls' = Below
    BY <1>3 DEF RequireTests
  <2>3. QED
    BY <1>1, <2>1, <2>2, LoadedPop
<1>4. CASE Top.name \notin loaded
  <2> DEFINE b == Require(Top.name, "set")
             c == LoadRequired(Top.name)
             t == <<b, c>>
  <2>1. calls' = Below \o t
    BY <1>4 DEF RequireTests, Push
  <2>2. /\ WellFormed(b) /\ b.fn = "require" /\ b.name = Top.name /\ b.phase = "set"
        /\ WellFormed(c) /\ c.fn \in {"load", "load_so"} /\ c.name = Top.name
        /\ c.fn \in HasFile => c.cell = None
    BY <1>2, NewCalls
  <2>3. DOMAIN t = {1, 2} /\ t[1] = b /\ t[2] = c /\ t # <<>> /\ Len(t) = 2
    OBVIOUS
  <2> HIDE DEF b, c
  <2>4. Above(b, c) /\ Confined(b.name, c)
    BY <2>2 DEF Above, Confined
  <2>5. Replaces(Top, t)
    BY <1>1, <2>2, <2>4, ReplacesTwo
  <2>6. ~(c.fn = "load" /\ c.phase = "forms")
    BY <2>2 DEF HasFile, WellFormed
  <2> HIDE DEF t
  <2>7. Depends(t[1], Len(t) = 1, completed)
    BY <2>2, <2>3 DEF Depends
  <2>8. /\ \A k \in DOMAIN t : k > 1 => ~(t[k].fn = "load" /\ t[k].phase = "forms")
        /\ \A k \in DOMAIN t : k > 1 => ~(t[k].fn = "require" /\ t[k].phase = "set")
        /\ t[1].name \notin loaded
    BY <1>4, <2>2, <2>3, <2>6
  <2>9. QED
    BY <1>1, <2>1, <2>3, <2>5, <2>7, <2>8, LoadedReplaced
<1>5. QED
  BY <1>3, <1>4

(* One activation is changed, and perhaps calls another.                    *)
LEMMA LoadedBecomes ==
  ASSUME StackInv, LoadedInv, calls # <<>>, NEW a, WellFormed(a), Top.fn \in HasFile,
         a.fn = Top.fn, a.name = Top.name, calls' = Below \o <<a>>,
         UNCHANGED <<loaded, completed>>, Depends(a, TRUE, completed)
  PROVE  LoadedInv'
<1> DEFINE t == <<a>>
<1>1. DOMAIN t = {1} /\ t[1] = a /\ t # <<>> /\ Len(t) = 1
  OBVIOUS
<1>2. Replaces(Top, t)
  BY ReplacesOne DEF HasFile
<1> HIDE DEF t
<1>3. Depends(t[1], Len(t) = 1, completed)
  BY <1>1 DEF Depends
<1>4. /\ \A k \in DOMAIN t : k > 1 => FALSE
      /\ t[1].fn # "require"
  BY <1>1 DEF HasFile
<1>5. QED
  BY <1>1, <1>2, <1>3, <1>4, LoadedReplaced DEF t

LEMMA LoadedCalls ==
  ASSUME StackInv, LoadedInv, calls # <<>>, NEW a, NEW b, WellFormed(a), WellFormed(b),
         Top.fn = "load", a.fn = "load", a.name = Top.name, Above(a, b), b.name \in Uses(Top.name),
         (b.fn = "require" /\ b.phase = "test") \/ (b.fn = "load" /\ b.cell = None),
         calls' = Below \o <<a, b>>,
         UNCHANGED <<loaded, completed>>, Depends(a, FALSE, completed)
  PROVE  LoadedInv'
<1> DEFINE t == <<a, b>>
<1>1. DOMAIN t = {1, 2} /\ t[1] = a /\ t[2] = b /\ t # <<>> /\ Len(t) = 2
  OBVIOUS
<1>2. Replaces(Top, t)
  BY ReplacesTwo
<1>3. ~(b.fn = "load" /\ b.phase = "forms")
  BY DEF WellFormed, HasFile
<1> HIDE DEF t
<1>4. Depends(t[1], Len(t) = 1, completed)
  BY <1>1 DEF Depends
<1>5. /\ \A k \in DOMAIN t : k > 1 => ~(t[k].fn = "load" /\ t[k].phase = "forms")
      /\ \A k \in DOMAIN t : k > 1 => ~(t[k].fn = "require" /\ t[k].phase = "set")
      /\ t[1].fn # "require"
  BY <1>1, <1>3
<1>6. QED
  BY <1>1, <1>2, <1>4, <1>5, LoadedReplaced DEF t

LEMMA LoadedProbe == ASSUME StackInv, LoadedInv, Probe PROVE LoadedInv'
<1>1. calls # <<>> /\ Top.fn = "load" /\ Top.phase = "probe" /\ UNCHANGED <<loaded, completed>>
  BY DEF Probe, Running, Unchanged
<1>2. PICK dir \in {"cwd", "lib"} : Become([Top EXCEPT !.phase = "open", !.dir = dir])
  BY DEF Probe
<1> DEFINE b == [Top EXCEPT !.phase = "open", !.dir = dir]
<1>3. b \in LoadCalls /\ b.fn = "load" /\ b.name = Top.name /\ b.cell = None /\ b.phase = "open" /\ b.pos = 1
  BY <1>1, LoadTop DEF LoadCalls
<1>4. WellFormed(b)
  BY <1>1, <1>3, LoadTop DEF WellFormed, Activations
<1>5. calls' = Below \o <<b>>
  BY <1>1, <1>2, <1>4, TopFacts, ConcatFacts DEF Become, StackInv, WellFormed
<1> HIDE DEF b
<1>6. Depends(b, TRUE, completed)
  BY <1>3 DEF Depends
<1>7. QED
  BY <1>1, <1>3, <1>4, <1>5, <1>6, LoadedBecomes DEF HasFile

LEMMA LoadedForm == ASSUME StackInv, LoadedInv, Form PROVE LoadedInv'
<1>1. /\ calls # <<>> /\ Top.fn = "load" /\ Top.phase = "forms"
      /\ Top.name \in Names /\ Top.pos \in Nat \ {0}
      /\ NextForm.op \in {"eval", "require", "try", "load"} /\ NextForm.name \in Names
      /\ NextForm.op # "eval" => NextForm.name \in Uses(Top.name)
      /\ WellFormed(Advanced)
      /\ Advanced.fn = "load" /\ Advanced.name = Top.name /\ Advanced.phase = "forms"
      /\ Advanced.cflag = Top.cflag
      /\ Advanced.pos = Top.pos + 1 /\ Advanced.pos - 1 = Top.pos
  BY FormCalls
<1>2. FormBefore(Advanced) = NextForm /\ Advanced.pos - 1 \in DOMAIN Contents[Advanced.name]
  BY FormCalls DEF FormBefore, NextForm
<1>3. UNCHANGED <<loaded, completed>>
  BY DEF Form, Unchanged
<1>4. Depends(Top, TRUE, completed)
  <2>1. Len(calls) \in DOMAIN calls /\ Top = calls[Len(calls)]
    BY <1>1, TopFacts DEF StackInv
  <2>2. QED
    BY <2>1, LoadedInvIs, DependenciesFirstIs
<1>5. Depends(Advanced, FALSE, completed)
  BY <1>1, <1>4 DEF Depends
<1>6. CASE Become(Advanced) /\ (Top.cflag \/ NextForm.op = "eval")
  <2>1. Depends(Advanced, TRUE, completed)
    BY <1>1, <1>4, <1>6 DEF Depends, NextForm
  <2>2. calls' = Below \o <<Advanced>>
    BY <1>1, <1>6, TopFacts, ConcatFacts DEF Become, StackInv, WellFormed
  <2>3. QED
    BY <1>1, <1>3, <2>1, <2>2, LoadedBecomes DEF HasFile
<1>7. CASE NextForm.op = "require" /\ calls' = Below \o <<Advanced, Require(NextForm.name, "test")>>
  <2> DEFINE b == Require(NextForm.name, "test")
  <2>1. WellFormed(b) /\ b.fn = "require" /\ b.name = NextForm.name /\ b.phase = "test"
    BY <1>1, NewCalls
  <2> HIDE DEF b
  <2>2. Above(Advanced, b)
    BY <1>1, <1>2, <1>7, <2>1 DEF Above
  <2>3. calls' = Below \o <<Advanced, b>> /\ b.name \in Uses(Top.name)
    BY <1>1, <1>7, <2>1 DEF b
  <2>4. (b.fn = "require" /\ b.phase = "test") \/ (b.fn = "load" /\ b.cell = None)
    BY <2>1
  <2>5. WellFormed(Advanced) /\ WellFormed(b) /\ Advanced.fn = "load" /\ Advanced.name = Top.name
    BY <1>1, <2>1
  <2>6. QED
    BY <1>1, <1>3, <1>5, <2>2, <2>3, <2>4, <2>5, LoadedCalls
<1>8. CASE NextForm.op = "try" /\ calls' = Below \o <<Advanced, Catch, Require(NextForm.name, "test")>>
  <2> DEFINE b == Require(NextForm.name, "test")
             c == Catch
             t == <<Advanced, c, b>>
  <2>1. /\ WellFormed(b) /\ b.fn = "require" /\ b.name = NextForm.name /\ b.phase = "test"
        /\ WellFormed(c) /\ c.fn = "catch"
    BY <1>1, NewCalls DEF Require
  <2>2. DOMAIN t = {1, 2, 3} /\ t[1] = Advanced /\ t[2] = c /\ t[3] = b /\ t # <<>> /\ Len(t) = 3
    OBVIOUS
  <2>3. calls' = Below \o t
    BY <1>8
  <2> HIDE DEF b, c
  <2>4. Above(Advanced, c) /\ Above(c, b)
    BY <1>1, <1>2, <1>8, <2>1 DEF Above
  <2>5. Replaces(Top, t)
    BY <1>1, <1>8, <2>1, <2>4, ReplacesThree
  <2> HIDE DEF t
  <2>6. Depends(t[1], Len(t) = 1, completed)
    BY <1>5, <2>2 DEF Depends
  <2>7. /\ \A k \in DOMAIN t : k > 1 => ~(t[k].fn = "load" /\ t[k].phase = "forms")
        /\ \A k \in DOMAIN t : k > 1 => ~(t[k].fn = "require" /\ t[k].phase = "set")
        /\ t[1].fn # "require"
    BY <1>1, <2>1, <2>2
  <2>8. QED
    BY <1>1, <1>3, <2>2, <2>3, <2>5, <2>6, <2>7, LoadedReplaced
<1>9. CASE NextForm.op = "load" /\ calls' = Below \o <<Advanced, Load(NextForm.name, FALSE, FALSE)>>
  <2> DEFINE b == Load(NextForm.name, FALSE, FALSE)
  <2>1. WellFormed(b) /\ b.fn = "load" /\ b.name = NextForm.name /\ b.cell = None
    BY <1>1, NewCalls
  <2> HIDE DEF b
  <2>2. Above(Advanced, b)
    BY <1>1, <1>2, <1>9, <2>1 DEF Above
  <2>3. QED
    BY <1>1, <1>3, <1>5, <1>9, <2>1, <2>2, LoadedCalls DEF b
<1>10. QED
  BY <1>6, <1>7, <1>8, <1>9, FormCalls

LEMMA LoadedOpen == ASSUME StackInv, LoadedInv, NEW c \in Cells, Open(c) PROVE LoadedInv'
<1> DEFINE a == [Top EXCEPT !.phase = "forms", !.cell = c]
<1>1. calls # <<>> /\ Top.fn = "load" /\ Top.phase = "open" /\ UNCHANGED <<loaded, completed>>
  BY DEF Open, Running, Unchanged
<1>2. /\ Top \in LoadCalls /\ Top.name \in Names /\ Top.pos = 1 /\ Len(Contents[Top.name]) \in Nat
  BY <1>1, LoadTop
<1>3. /\ a \in LoadCalls /\ a.fn = "load" /\ a.name = Top.name /\ a.cell = c
      /\ a.phase = "forms" /\ a.pos = 1
  BY <1>1, <1>2 DEF LoadCalls
<1>4. WellFormed(a)
  BY <1>2, <1>3, NoneAssumption DEF WellFormed, Activations
<1>5. calls' = Below \o (IF Parser[a.name] = None THEN <<a>> ELSE <<a, Require(Parser[a.name], "test")>>)
  BY DEF Open, Push
<1> HIDE DEF a
<1>6. Depends(a, FALSE, completed)
  BY <1>3 DEF Depends
<1>7. CASE Parser[a.name] = None
  <2>1. Depends(a, TRUE, completed)
    BY <1>3, <1>7 DEF Depends
  <2>2. QED
    BY <1>1, <1>3, <1>4, <1>5, <1>7, <2>1, LoadedBecomes DEF HasFile
<1>8. CASE Parser[a.name] # None
  <2> DEFINE b == Require(Parser[a.name], "test")
  <2>1. Parser[a.name] \in Uses(a.name) /\ Parser[a.name] \in Names
    BY <1>2, <1>3, <1>8, FormFacts
  <2>2. WellFormed(b) /\ b.fn = "require" /\ b.name = Parser[a.name] /\ b.phase = "test"
    BY <2>1, NewCalls
  <2>3. calls' = Below \o <<a, b>>
    BY <1>5, <1>8
  <2> HIDE DEF b
  <2>4. Above(a, b)
    BY <1>3, <2>2 DEF Above
  <2>5. (b.fn = "require" /\ b.phase = "test") \/ (b.fn = "load" /\ b.cell = None)
    BY <2>2
  <2>6. WellFormed(b) /\ b.name \in Uses(Top.name)
    BY <1>3, <2>1, <2>2
  <2>7. QED
    BY <1>1, <1>3, <1>4, <1>6, <2>3, <2>4, <2>5, <2>6, LoadedCalls
<1>9. QED
  BY <1>7, <1>8

LEMMA LoadedSaveOpens == ASSUME StackInv, LoadedInv, NEW c \in Cells, SaveOpens(c) PROVE LoadedInv'
<1> DEFINE a == [Top EXCEPT !.phase = "forms", !.cell = c]
<1>1. /\ calls # <<>> /\ Top.fn = "save_forms" /\ Top.phase = "open" /\ Become(a)
      /\ UNCHANGED <<loaded, completed>>
  BY DEF SaveOpens, Running
<1>2. Top \in SaveCalls
  BY <1>1, SaveTop
<1>3. a \in SaveCalls /\ a.fn = "save_forms" /\ a.name = Top.name /\ a.cell = c /\ a.phase = "forms"
  BY <1>1, <1>2 DEF SaveCalls
<1>4. WellFormed(a)
  BY <1>3, NoneAssumption DEF WellFormed, Activations
<1>5. calls' = Below \o <<a>>
  BY <1>1, <1>4, TopFacts, ConcatFacts DEF Become, StackInv, WellFormed
<1> HIDE DEF a
<1>6. Depends(a, TRUE, completed)
  BY <1>3 DEF Depends
<1>7. QED
  BY <1>1, <1>3, <1>4, <1>5, <1>6, LoadedBecomes DEF HasFile

LEMMA LoadedTopLevel == ASSUME StackInv, LoadedInv, NEW n \in Names, TopLevel(n) PROVE LoadedInv'
<1>1. UNCHANGED <<loaded, completed>>
  BY DEF TopLevel, Unchanged
<1>2. PICK a : /\ a \in Activations
               /\ ~(a.fn = "load" /\ a.phase = "forms")
               /\ ~(a.fn = "require" /\ a.phase = "set")
               /\ calls' = <<>> \o <<a>>
  <2>1. CASE calls' = <<>> \o <<Require(n, "test")>>
    BY <2>1, NewCalls DEF WellFormed
  <2>2. CASE \E cflag, rflag \in BOOLEAN : calls' = <<>> \o <<Load(n, cflag, rflag)>>
    BY <2>2, NewCalls DEF WellFormed, HasFile
  <2>3. CASE calls' = <<>> \o <<SaveForms(n)>>
    BY <2>3, NewCalls DEF WellFormed
  <2>4. QED
    BY <2>1, <2>2, <2>3 DEF TopLevel, Push
<1>3. <<a>> \in Seq(Activations)
  BY <1>2
<1>4. calls' = <<a>>
  BY <1>2, <1>3, ConcatEmptySeq
<1>5. DOMAIN calls' = {1} /\ calls'[1] = a
  BY <1>4
<1>6. FlagsInv
  BY LoadedInvIs
<1>7. FlagsInv'
  BY <1>1, <1>2, <1>5, <1>6 DEF FlagsInv, LoadedOnce
<1>8. DependenciesFirst'
  BY <1>2, <1>5 DEF DependenciesFirst
<1>9. QED
  BY <1>7, <1>8, LoadedInvIs

LEMMA LoadedJump ==
  ASSUME StackInv, LoadedInv, calls # <<>>, Jump, UNCHANGED <<loaded, completed>>
  PROVE  LoadedInv'
<1>1. PICK n \in 0 .. Len(calls) - 1 :
        /\ calls' = SubSeq(calls, 1, n)
        /\ n + 1 \in DOMAIN calls
        /\ n > 0 => calls[n + 1].fn = "catch"
  BY StackJump
<1>2. n > 0 /\ calls[n + 1].fn = "require" => completed[calls[n + 1].name] > 0
  BY <1>1
<1>3. QED
  BY <1>1, <1>2, LoadedReturns

LEMMA LoadedStep == ASSUME StackInv, LoadedInv, [Next]_vars PROVE LoadedInv'
<1>1. CASE UNCHANGED vars
  BY <1>1, LoadedKept DEF vars
<1>2. CASE \E n \in Names, c \in Cells : fopen(n, c)
  BY <1>2, LoadedKept DEF fopen, Unchanged
<1>3. ASSUME NEW c \in Cells, Open(c) \/ SaveOpens(c) PROVE LoadedInv'
  BY <1>3, LoadedOpen, LoadedSaveOpens
<1>4. ASSUME NEW c \in Cells, OpenFails(c) PROVE LoadedInv'
  BY <1>4, LoadedJump DEF OpenFails, Running
<1>5. CASE err
  BY <1>5, LoadedJump DEF err
<1>6. CASE \E n \in Names : TopLevel(n)
  BY <1>6, LoadedTopLevel
<1>7. CASE RequireTests \/ RequireSets \/ Probe \/ Form
  BY <1>7, LoadedRequireTests, LoadedSets, LoadedProbe, LoadedForm
<1>8. CASE EndOfFile \/ SaveCloses \/ siod_load_so \/ CatchReturns
  <2>1. calls # <<>> /\ Top.fn # "require" /\ calls' = Below /\ UNCHANGED <<loaded, completed>>
    BY <1>8 DEF EndOfFile, SaveCloses, siod_load_so, CatchReturns, Running, Unchanged
  <2>2. QED
    BY <2>1, LoadedPop
<1>9. CASE \E n \in Movable, dirs \in SUBSET {"cwd", "lib"} : FileMoves(n, dirs)
  BY <1>9, LoadedKept DEF FileMoves
<1>10. CASE \E c \in Cells : siod_fclose_l(c) \/ siod_pclose_l(c) \/ Forget(c) \/ Collect(c)
  BY <1>10, LoadedKept DEF siod_fclose_l, siod_pclose_l, Forget, Collect, Unchanged
<1>11. QED
  BY <1>1, <1>2, <1>3, <1>4, <1>5, <1>6, <1>7, <1>8, <1>9, <1>10 DEF Next

-----------------------------------------------------------------------------
(* LoaderInv holds at first.                                                *)
LEMMA LoaderInit == ASSUME Init PROVE LoaderInv
<1>1. StackInv
  BY DEF Init, StackInv
<1>2. FileInv
  BY DEF Init, FileInv, FilesOwned, LoadCloses, Referenced
<1>3. LoadedInv
  BY DEF Init, LoadedInv, DependenciesFirst, LoadedOnce
<1>4. QED
  BY <1>1, <1>2, <1>3 DEF LoaderInv

(* LoaderInv is inductive, and so an invariant of load and require.         *)
THEOREM LoaderInvariant == Spec => []LoaderInv
<1>1. Init => LoaderInv
  BY LoaderInit
<1>2. LoaderInv /\ [Next]_vars => LoaderInv'
  BY StackStep, FilesStep, LoadedStep DEF LoaderInv
<1>3. QED
  BY <1>1, <1>2, PTL DEF Spec

(* The FILEs of the C library and the cells that own them stay in step,     *)
(* whoever opens, closes or collects them (siod_fopen_cg, siod_fclose_l,    *)
(* siod_file_gc_free).                                                      *)
THEOREM FilesAreOwned == Spec => []FilesOwned
<1>1. LoaderInv => FilesOwned
  BY DEF LoaderInv, FileInv
<1>2. QED
  BY <1>1, LoaderInvariant, PTL

(* A load that returns has closed its file (siod_vload): what is still open *)
(* is some cell's that the program can reach, or was left by an error.      *)
THEOREM LoadsClose == Spec => []LoadCloses
<1>1. LoaderInv => LoadCloses
  BY DEF LoaderInv, FileInv
<1>2. QED
  BY <1>1, LoaderInvariant, PTL

(* The forms after a require run only once it is complete, and the forms    *)
(* after the header only once its parser is (siod_require, siod_vload).     *)
THEOREM DependenciesComeFirst == Spec => []DependenciesFirst
<1>1. LoaderInv => DependenciesFirst
  BY DEF LoaderInv, LoadedInv
<1>2. QED
  BY <1>1, LoaderInvariant, PTL

(* require completes the load of a file twice only if the file requires     *)
(* itself by way of others (siod_require).                                  *)
THEOREM RequireLoadsOnce == Spec => []LoadedOnce
<1>1. LoaderInv => LoadedOnce
  BY DEF LoaderInv, LoadedInv
<1>2. QED
  BY <1>1, LoaderInvariant, PTL
=============================================================================
