---------------------------- MODULE ControlProofs ----------------------------
(***************************************************************************)
(* Proofs about Control, for every set of tags and every depth of the C     *)
(* stack, with the signals arriving between any two steps.                  *)
(***************************************************************************)
EXTENDS Control, TLAPS, FiniteSetTheorems, SequenceTheorems, WellFoundedInduction

(* A stack s, its activations by position.  hc and ht are the values of     *)
(* hookCaught and hookThrew.                                                *)
Is(s, i, fns) == s[i].fn \in fns

(* p is the innermost of the first n activations that is a catch frame. *)
Inner(s, p, n) ==
  /\ p = NULL \/ (p \in 1 .. n /\ Is(s, p, {"catch"}))
  /\ \A q \in 1 .. n : Is(s, q, {"catch"}) => q <= p

(* What may be directly below what: nothing is above a collection, and an   *)
(* err has a collection or a hook above it only while it conses.            *)
CallerOK(s, i) ==
  i > 1 =>
    /\ ~Is(s, i, {"driver"}) /\ ~Is(s, i - 1, {"gc"})
    /\ Is(s, i, {"catch"}) => Is(s, i - 1, {"driver", "catch", "hook"})
    /\ Is(s, i, {"section"}) => Is(s, i - 1, {"driver", "catch", "hook", "section"})
    /\ Is(s, i, {"gc", "hook"}) /\ Is(s, i - 1, {"err"}) => s[i - 1].phase = "cons"

(* A catch frame leads to the next one outwards, err to one below it.       *)
LinkOK(s, i) ==
  /\ Is(s, i, {"catch"}) => Inner(s, s[i].next, i - 1)
  /\ Is(s, i, {"err"}) => s[i].frame \in 1 .. i - 1 /\ Is(s, s[i].frame, {"catch"})

(* What nointerrupt was before a section or a collection.                   *)
FlagOK(s, hc, ht, i) ==
  Is(s, i, {"section", "gc"}) =>
    /\ s[i].flag = 0 => hc \/ \A j \in 1 .. i - 1 : ~Is(s, j, {"section"})
    /\ s[i].flag = 1 => ht \/ \E j \in 1 .. i - 1 : Is(s, j, {"section", "err"})

(* An err that is about to jump leaves no section half-way, and one that    *)
(* found inside_err set has interrupted another.                            *)
ErrOK(s, hc, ht, i) ==
  Is(s, i, {"err"}) =>
    /\ s[i].phase = "jump" => hc \/ \A j \in 1 .. s[i].frame - 1 : ~Is(s, j, {"section"})
    /\ s[i].was_inside = 1 => ht \/ \E j \in 1 .. i - 1 : Is(s, j, {"err"})

FrameOK(s, hc, ht, i) ==
  CallerOK(s, i) /\ LinkOK(s, i) /\ FlagOK(s, hc, ht, i) /\ ErrOK(s, hc, ht, i)
StackOK(s, hc, ht) == \A i \in 1 .. Len(s) : FrameOK(s, hc, ht, i)

(* Where the thread is, and what is on the stack then.                      *)
Idle == pc \in {"out", "start", "reset", "quit"}
PcOK ==
  /\ pc \in {"out", "crashed"} => stack = <<>>
  /\ pc \in {"start", "reset", "quit"} => Len(stack) = 1
  /\ pc \in {"start", "reset", "quit", "run", "caught"} => Len(stack) > 0 /\ Is(stack, 1, {"driver"})
  /\ pc \in {"run", "caught"} => Inner(stack, catch_framep, Len(stack))
  /\ pc = "caught" => Is(stack, Len(stack), {"catch"})

(* The flags: the frames of a form that failed are in the list only as long *)
(* as no signal is taken; err is off only in a collection; and nointerrupt  *)
(* is what the activations on the stack, or a hook, have made of it.        *)
InJump == pc = "run" /\ Is(stack, Len(stack), {"err"}) /\ stack[Len(stack)].phase = "jump"
FlagsOK ==
  /\ Idle /\ nointerrupt = 0 => catch_framep = NULL
  /\ errjmp_ok = 0 => nointerrupt = 1 /\ pc \notin {"quit", "caught", "crashed"}
  /\ errjmp_ok = 0 /\ pc = "run" =>
       Is(stack, Len(stack), {"gc"}) /\ stack[Len(stack)].phase = "mark"
  /\ pc = "run" /\ Is(stack, Len(stack), {"gc"}) => nointerrupt = 1
  /\ InJump => nointerrupt = 0 /\ inside_err = 0
  /\ pc \in {"run", "caught"} /\ nointerrupt = 0 /\ ~InJump =>
       hookCaught \/ \A j \in 1 .. Len(stack) : ~Is(stack, j, {"section"})
  /\ pc \in {"run", "caught"} /\ nointerrupt = 1 =>
       hookThrew \/ \E j \in 1 .. Len(stack) : Is(stack, j, {"section", "gc", "err"})
  /\ Alive /\ inside_err = 1 => hookThrew \/ \E j \in 1 .. Len(stack) : Is(stack, j, {"err"})

ControlInv == TypeOK /\ StackOK(stack, hookCaught, hookThrew) /\ PcOK /\ FlagsOK

-----------------------------------------------------------------------------
(* Stacks. *)

LEMMA DepthFacts ==
  /\ MaxDepth \in Nat /\ Positions = 0 .. MaxDepth + 1 /\ 0 \in Positions
  /\ \A n \in Nat : n <= MaxDepth + 1 => n \in Positions
BY DepthAssumption DEF Positions

LEMMA ActivationFacts ==
  ASSUME NEW a \in Activations
  PROVE  /\ a.fn \in {"driver", "catch", "section", "gc", "hook", "err"}
         /\ a.fn = "driver" => a \in [fn : {"driver"}, want_sigint : BOOLEAN]
         /\ a.fn = "catch" =>
              a \in [fn : {"catch"}, tag : Tags, next : Positions, retval : {"none", "nil", "error"}]
         /\ a.fn = "section" => a \in [fn : {"section"}, flag : Bits]
         /\ a.fn = "gc" => a \in [fn : {"gc"}, flag : Bits, phase : {"mark", "done"}]
         /\ a.fn = "err" =>
              a \in [fn : {"err"}, given : BOOLEAN, was_inside : Bits, frame : Positions,
                     phase : {"cons", "jump"}]
BY DEF Activations

LEMMA MakeActivations ==
  /\ \A w \in BOOLEAN : Driver(w) \in Activations /\ Driver(w).fn = "driver"
  /\ \A t \in Tags, n \in Positions :
       CatchFrame(t, n) \in Activations /\ CatchFrame(t, n).fn = "catch" /\ CatchFrame(t, n).next = n
  /\ \A f \in Bits : Section(f) \in Activations /\ Section(f).fn = "section" /\ Section(f).flag = f
  /\ \A f \in Bits : /\ Collection(f) \in Activations /\ Collection(f).fn = "gc"
                     /\ Collection(f).flag = f /\ Collection(f).phase = "mark"
  /\ Hook \in Activations /\ Hook.fn = "hook"
  /\ \A how \in {"error", "reraise", "quit"}, w \in Bits, l \in Positions :
       /\ ErrFrame(how, w, l) \in Activations /\ ErrFrame(how, w, l).fn = "err"
       /\ ErrFrame(how, w, l).was_inside = w /\ ErrFrame(how, w, l).frame = l
       /\ ErrFrame(how, w, l).phase = "cons"
BY DEF Driver, CatchFrame, Section, Collection, Hook, ErrFrame, Activations

(* Two stacks that agree, in what the invariant is about, up to position i. *)
Like(s, t, j) ==
  /\ t[j].fn = s[j].fn
  /\ s[j].fn = "catch" => t[j].next = s[j].next
  /\ s[j].fn \in {"section", "gc"} => t[j].flag = s[j].flag
  /\ s[j].fn = "err" => /\ t[j].frame = s[j].frame /\ t[j].was_inside = s[j].was_inside
                        /\ t[j].phase = s[j].phase

LEMMA InnerLike ==
  ASSUME NEW s, NEW t, NEW n \in Nat, NEW p, \A j \in 1 .. n : Like(s, t, j), Inner(s, p, n)
  PROVE  Inner(t, p, n)
BY DEF Inner, Like, Is

LEMMA FrameLike ==
  ASSUME NEW s, NEW t, NEW i \in Nat \ {0}, NEW hc, NEW ht, NEW hc2, NEW ht2, hc => hc2, ht => ht2,
         \A j \in 1 .. i : Like(s, t, j), FrameOK(s, hc, ht, i)
  PROVE  FrameOK(t, hc2, ht2, i)
<1>1. \A j \in 1 .. i - 1 : Like(s, t, j) /\ t[j].fn = s[j].fn
  BY DEF Like
<1>2. Like(s, t, i) /\ t[i].fn = s[i].fn
  BY DEF Like
<1>3. i > 1 => Like(s, t, i - 1) /\ t[i - 1].fn = s[i - 1].fn
  BY <1>1
<1>4. CallerOK(t, i)
  BY <1>2, <1>3 DEF FrameOK, CallerOK, Like, Is
<1>5. LinkOK(t, i)
  <2>1. CASE t[i].fn = "catch"
    <3>1. t[i].next = s[i].next /\ i - 1 \in Nat /\ Inner(s, s[i].next, i - 1)
      BY <1>2, <2>1 DEF FrameOK, LinkOK, Like, Is
    <3>2. Inner(t, s[i].next, i - 1)
      BY <1>1, <3>1, InnerLike
    <3>3. QED
      BY <2>1, <3>1, <3>2 DEF LinkOK, Is
  <2>2. CASE t[i].fn = "err"
    <3>1. t[i].frame = s[i].frame /\ s[i].frame \in 1 .. i - 1 /\ s[s[i].frame].fn = "catch"
      BY <1>2, <2>2 DEF FrameOK, LinkOK, Like, Is
    <3>2. t[s[i].frame].fn = "catch"
      BY <1>1, <3>1
    <3>3. QED
      BY <2>2, <3>1, <3>2 DEF LinkOK, Is
  <2>3. QED
    BY <2>1, <2>2 DEF LinkOK, Is
<1>6. FlagOK(t, hc2, ht2, i)
  BY <1>1, <1>2 DEF FrameOK, FlagOK, Like, Is
<1>7. ErrOK(t, hc2, ht2, i)
  <2>1. CASE t[i].fn = "err"
    <3>1. /\ t[i].frame = s[i].frame /\ t[i].was_inside = s[i].was_inside /\ t[i].phase = s[i].phase
          /\ s[i].frame \in 1 .. i - 1
          /\ s[i].phase = "jump" => hc \/ \A j \in 1 .. s[i].frame - 1 : ~Is(s, j, {"section"})
          /\ s[i].was_inside = 1 => ht \/ \E j \in 1 .. i - 1 : Is(s, j, {"err"})
      BY <1>2, <2>1 DEF FrameOK, LinkOK, ErrOK, Like, Is
    <3>2. \A j \in 1 .. s[i].frame - 1 : j \in 1 .. i - 1
      BY <3>1
    <3>3. QED
      BY <1>1, <3>1, <3>2 DEF ErrOK, Is
  <2>2. QED
    BY <2>1 DEF ErrOK, Is
<1>8. QED
  BY <1>4, <1>5, <1>6, <1>7 DEF FrameOK

LEMMA LikeSelf == \A s, j : Like(s, s, j)
BY DEF Like

(* Pushing an activation. *)
LEMMA PushOK ==
  ASSUME NEW s \in Seq(Activations), NEW a \in Activations, NEW hc, NEW ht, StackOK(s, hc, ht),
         FrameOK(Append(s, a), hc, ht, Len(s) + 1)
  PROVE  /\ StackOK(Append(s, a), hc, ht)
         /\ Append(s, a) \in Seq(Activations) /\ Len(Append(s, a)) = Len(s) + 1 /\ Len(s) \in Nat
         /\ \A i \in 1 .. Len(s) : Append(s, a)[i] = s[i]
         /\ Append(s, a)[Len(s) + 1] = a
<1> DEFINE t == Append(s, a)
<1>1. /\ t \in Seq(Activations) /\ Len(t) = Len(s) + 1 /\ Len(s) \in Nat
      /\ \A i \in 1 .. Len(s) : t[i] = s[i]
      /\ t[Len(s) + 1] = a
  BY AppendProperties, LenProperties
<1>2. FrameOK(t, hc, ht, Len(s) + 1)
  OBVIOUS
<1> HIDE DEF t
<1>3. ASSUME NEW i \in 1 .. Len(s) PROVE FrameOK(t, hc, ht, i)
  <2>1. \A j \in 1 .. i : Like(s, t, j)
    BY <1>1 DEF Like
  <2>2. FrameOK(s, hc, ht, i)
    BY DEF StackOK
  <2>3. i \in Nat \ {0}
    BY <1>1
  <2>4. QED
    BY <2>1, <2>2, <2>3, FrameLike
<1>4. StackOK(t, hc, ht)
  BY <1>1, <1>2, <1>3 DEF StackOK
<1>5. QED
  BY <1>1, <1>4 DEF t

(* Returning from activations, or jumping out of them.                      *)
LEMMA CutOK ==
  ASSUME NEW s \in Seq(Activations), NEW l \in 0 .. Len(s), NEW hc, NEW ht, StackOK(s, hc, ht)
  PROVE  /\ StackOK(SubSeq(s, 1, l), hc, ht)
         /\ SubSeq(s, 1, l) \in Seq(Activations) /\ Len(SubSeq(s, 1, l)) = l /\ Len(s) \in Nat
         /\ \A i \in 1 .. l : SubSeq(s, 1, l)[i] = s[i]
<1> DEFINE t == SubSeq(s, 1, l)
<1>1. Len(s) \in Nat /\ l \in Int /\ \A i \in 1 .. l : s[i] \in Activations
  BY LenProperties, ElementOfSeq
<1>2. /\ t \in Seq(Activations) /\ Len(t) = IF 1 <= l THEN l - 1 + 1 ELSE 0
      /\ \A i \in 1 .. l - 1 + 1 : t[i] = s[1 + i - 1]
  BY <1>1, SubSeqProperties
<1>3. Len(t) = l /\ \A i \in 1 .. l : t[i] = s[i]
  BY <1>1, <1>2
<1> HIDE DEF t
<1>4. ASSUME NEW i \in 1 .. l PROVE FrameOK(t, hc, ht, i)
  <2>1. \A j \in 1 .. i : Like(s, t, j)
    BY <1>1, <1>3 DEF Like
  <2>2. FrameOK(s, hc, ht, i)
    BY <1>1 DEF StackOK
  <2>3. i \in Nat \ {0}
    BY <1>1
  <2>4. QED
    BY <2>1, <2>2, <2>3, FrameLike
<1>5. StackOK(t, hc, ht)
  BY <1>3, <1>4 DEF StackOK
<1>6. QED
  BY <1>1, <1>2, <1>3, <1>5 DEF t

-----------------------------------------------------------------------------
LEMMA LeastOf ==
  ASSUME NEW S, S \subseteq Nat, S # {}
  PROVE  \E n \in S : \A m \in S : n <= m
<1> DEFINE R == OpToRel(<, Nat)
<1>1. PICK n \in S : \A m \in S : ~(<<m, n>> \in R)
  BY NatLessThanWellFounded, WFMin
<1>2. \A m \in S : ~(m < n)
  BY <1>1 DEF OpToRel
<1>3. QED
  BY <1>2

LEMMA GreatestOf ==
  ASSUME NEW S, NEW b \in Nat, \A n \in S : n \in Nat /\ n <= b, S # {}
  PROVE  \E n \in S : \A m \in S : m <= n
<1> DEFINE D == {b - n : n \in S}
<1>1. D \subseteq Nat /\ D # {}
  OBVIOUS
<1>2. PICK d \in D : \A e \in D : d <= e
  <2> HIDE DEF D
  <2>1. QED
    BY <1>1, LeastOf
<1>3. PICK n \in S : d = b - n
  OBVIOUS
<1>4. \A m \in S : b - n <= b - m
  BY <1>2, <1>3
<1>5. \A m \in S : m <= n
  BY <1>4
<1>6. QED
  BY <1>5

(* A catch frame inside a section or inside err is there because of a hook. *)
LEMMA HookBetween ==
  ASSUME NEW s \in Seq(Activations), NEW hc, NEW ht, StackOK(s, hc, ht),
         NEW j \in 1 .. Len(s), NEW k \in 1 .. Len(s), j < k,
         s[j].fn \in {"section", "err"}, s[k].fn = "catch"
  PROVE  \E h \in 1 .. Len(s) : j < h /\ h < k /\ s[h].fn = "hook"
<1> DEFINE S == {i \in j + 1 .. k : s[i].fn \notin {"section", "err"}}
<1>1. Len(s) \in Nat /\ j \in Nat /\ k \in Nat /\ k <= Len(s) /\ 1 <= j
  BY LenProperties
<1>2. S \subseteq Nat /\ k \in S
  BY <1>1
<1>3. PICK h \in S : \A m \in S : h <= m
  <2> HIDE DEF S
  <2>1. QED
    BY <1>2, LeastOf
<1>4. h \in j + 1 .. k /\ h \in 1 .. Len(s) /\ h \in Nat /\ h > 1 /\ s[h].fn \notin {"section", "err"}
  BY <1>1
<1>5. s[h - 1].fn \in {"section", "err"}
  <2>1. h - 1 = j \/ (h - 1 \in j + 1 .. k /\ ~(h <= h - 1))
    BY <1>1, <1>4
  <2>2. h - 1 = j \/ h - 1 \notin S
    BY <1>3, <2>1
  <2>3. QED
    BY <2>1, <2>2
<1>6. /\ s[h].fn # "driver"
      /\ s[h].fn = "catch" => s[h - 1].fn \in {"driver", "catch", "hook"}
  BY <1>4 DEF StackOK, FrameOK, CallerOK, Is
<1>7. s[h].fn = "gc" => FALSE
  <2>1. SUFFICES ASSUME s[h].fn = "gc" PROVE FALSE
    OBVIOUS
  <2>2. h # k
    BY <2>1
  <2>3. h + 1 \in 1 .. Len(s) /\ h + 1 > 1 /\ (h + 1) - 1 = h
    BY <1>1, <1>4, <2>2
  <2>4. ~Is(s, h, {"gc"})
    BY <2>3 DEF StackOK, FrameOK, CallerOK
  <2>5. QED
    BY <2>1, <2>4 DEF Is
<1>8. s[h] \in Activations
  BY <1>4, ElementOfSeq
<1>9. s[h].fn = "hook"
  BY <1>4, <1>5, <1>6, <1>7, <1>8, ActivationFacts
<1>10. h # k
  BY <1>9
<1>11. j < h /\ h < k
  BY <1>1, <1>4, <1>10
<1>12. QED
  BY <1>4, <1>9, <1>11

-----------------------------------------------------------------------------
(* The search of the list of frames.  Its result is given in closed form    *)
(* first, so that the recursive function is known to exist.                 *)

TakerAt(tags, q) == Is(stack, q, {"catch"}) /\ stack[q].tag \in tags
Takers(tags, p) == {q \in 1 .. p : TakerAt(tags, q)}
Best(tags, p) ==
  IF Takers(tags, p) = {} THEN NULL
  ELSE CHOOSE q \in Takers(tags, p) : \A m \in Takers(tags, p) : m <= q
Closed(tags, p) == IF p = NULL THEN NULL ELSE IF ~IsFrame(p) THEN Wild ELSE Best(tags, p)

LEMMA BestIs ==
  ASSUME NEW tags, NEW p \in Nat, NEW q \in Takers(tags, p), \A m \in Takers(tags, p) : m <= q
  PROVE  Best(tags, p) = q
<1> DEFINE T == Takers(tags, p)
<1>1. \A m \in T : m \in Nat
  BY DEF Takers
<1>2. (CHOOSE b \in T : \A m \in T : m <= b) \in T
      /\ \A m \in T : m <= (CHOOSE b \in T : \A n \in T : n <= b)
  OBVIOUS
<1> HIDE DEF T
<1>3. (CHOOSE b \in T : \A m \in T : m <= b) = q
  BY <1>1, <1>2 DEF T
<1>4. QED
  BY <1>3 DEF Best, T

LEMMA SearchFacts ==
  ASSUME stack \in Seq(Activations), StackOK(stack, hookCaught, hookThrew),
         Inner(stack, catch_framep, Len(stack)), NEW tags
  PROVE  \/ Search(tags) = NULL /\ \A q \in 1 .. Len(stack) : ~TakerAt(tags, q)
         \/ /\ Search(tags) \in 1 .. Len(stack) /\ Is(stack, Search(tags), {"catch"})
            /\ stack[Search(tags)].tag \in tags
            /\ \A q \in Search(tags) + 1 .. Len(stack) : ~TakerAt(tags, q)
<1> DEFINE Def(f) == [p \in 0 .. catch_framep |->
                        IF p = NULL THEN NULL
                        ELSE IF ~IsFrame(p) THEN Wild
                        ELSE IF stack[p].tag \in tags THEN p
                        ELSE f[stack[p].next]]
           found == CHOOSE f : f = Def(f)
           g == [p \in 0 .. catch_framep |-> Closed(tags, p)]
<1>1. Len(stack) \in Nat /\ catch_framep \in 0 .. Len(stack)
  BY LenProperties DEF Inner, NULL
<1>2. \A p \in 1 .. Len(stack) : IsFrame(p) <=> stack[p].fn = "catch"
  BY DEF IsFrame, At
<1>3. ASSUME NEW p \in 1 .. Len(stack), stack[p].fn = "catch"
      PROVE  /\ stack[p].next \in 0 .. p - 1
             /\ stack[p].next # NULL => stack[stack[p].next].fn = "catch"
             /\ \A q \in 1 .. p - 1 : stack[q].fn = "catch" => q <= stack[p].next
  BY <1>1, <1>3 DEF StackOK, FrameOK, LinkOK, Inner, Is, NULL
<1>4. ASSUME NEW p \in 0 .. catch_framep
      PROVE  g[p] = IF p = NULL THEN NULL
                    ELSE IF ~IsFrame(p) THEN Wild
                    ELSE IF stack[p].tag \in tags THEN p
                    ELSE g[stack[p].next]
  <2>1. CASE p = NULL \/ ~IsFrame(p)
    BY <2>1 DEF Closed
  <2>2. CASE p # NULL /\ IsFrame(p)
    <3>1. p \in 1 .. Len(stack) /\ stack[p].fn = "catch" /\ p \in Nat
      BY <1>1, <1>2, <2>2 DEF NULL
    <3>2. stack[p].next \in 0 .. catch_framep /\ stack[p].next \in Nat /\ stack[p].next < p
      BY <1>1, <1>3, <3>1
    <3>3. g[p] = Best(tags, p)
      BY <2>2 DEF Closed
    <3>4. CASE stack[p].tag \in tags
      <4>1. p \in Takers(tags, p) /\ \A m \in Takers(tags, p) : m <= p
        BY <3>1, <3>4 DEF Takers, TakerAt, Is
      <4>2. Best(tags, p) = p
        BY <3>1, <4>1, BestIs
      <4>3. QED
        BY <2>2, <3>3, <3>4, <4>2
    <3>5. CASE stack[p].tag \notin tags
      <4>1. Takers(tags, p) = Takers(tags, stack[p].next)
        BY <1>3, <3>1, <3>2, <3>5 DEF Takers, TakerAt, Is
      <4>2. Best(tags, p) = Best(tags, stack[p].next)
        BY <4>1 DEF Best
      <4>3. g[stack[p].next] = Closed(tags, stack[p].next)
        BY <3>2
      <4>4. CASE stack[p].next = NULL
        <5>1. Takers(tags, stack[p].next) = {}
          BY <4>4 DEF Takers, NULL
        <5>2. QED
          BY <2>2, <3>3, <3>5, <4>2, <4>3, <4>4, <5>1 DEF Best, Closed
      <4>5. CASE stack[p].next # NULL
        <5>1. IsFrame(stack[p].next)
          BY <1>1, <1>2, <1>3, <3>1, <3>2, <4>5 DEF NULL
        <5>2. QED
          BY <2>2, <3>3, <3>5, <4>2, <4>3, <4>5, <5>1 DEF Closed
      <4>6. QED
        BY <4>4, <4>5
    <3>6. QED
      BY <3>4, <3>5
  <2>3. QED
    BY <2>1, <2>2
<1>5. g = Def(g)
  <2>1. g = [p \in 0 .. catch_framep |-> g[p]]
    OBVIOUS
  <2> HIDE DEF g
  <2>2. QED
    BY <1>4, <2>1
<1>6. found = Def(found)
  <2> HIDE DEF g, Def
  <2>1. QED
    BY <1>5
<1>7. Search(tags) = found[catch_framep]
  BY DEF Search
<1>8. \A p \in 0 .. catch_framep :
        found[p] = IF p = NULL THEN NULL
                   ELSE IF ~IsFrame(p) THEN Wild
                   ELSE IF stack[p].tag \in tags THEN p
                   ELSE found[stack[p].next]
  <2> HIDE DEF found
  <2>1. QED
    BY <1>6
<1> HIDE DEF found, Def, g
<1> DEFINE Good(p) == \/ found[p] = NULL /\ \A q \in 1 .. p : ~TakerAt(tags, q)
                      \/ /\ found[p] \in 1 .. Len(stack) /\ Is(stack, found[p], {"catch"})
                         /\ stack[found[p]].tag \in tags
                         /\ \A q \in found[p] + 1 .. p : ~TakerAt(tags, q)
           Bad == {p \in 0 .. catch_framep : (p = NULL \/ IsFrame(p)) /\ ~Good(p)}
<1>9. Bad = {}
  <2>1. SUFFICES ASSUME Bad # {} PROVE FALSE
    OBVIOUS
  <2>2. Bad \subseteq Nat
    BY <1>1
  <2>3. PICK p \in Bad : \A m \in Bad : p <= m
    <3> HIDE DEF Bad
    <3>1. QED
      BY <2>1, <2>2, LeastOf
  <2>4. IsFrame(p) /\ p \in 0 .. catch_framep /\ ~Good(p)
    <3>1. found[NULL] = NULL /\ \A q \in 1 .. NULL : ~TakerAt(tags, q)
      BY <1>1, <1>8 DEF NULL
    <3>2. Good(NULL)
      BY <3>1
    <3>3. p \in 0 .. catch_framep /\ (p = NULL \/ IsFrame(p)) /\ ~Good(p)
      OBVIOUS
    <3>4. QED
      BY <3>2, <3>3
  <2>5. p \in 1 .. Len(stack) /\ stack[p].fn = "catch" /\ p # NULL
    BY <1>1, <1>2, <2>4 DEF IsFrame, At, NULL
  <2>6. stack[p].tag \notin tags
    <3>1. SUFFICES ASSUME stack[p].tag \in tags PROVE FALSE
      OBVIOUS
    <3>2. found[p] = p
      BY <1>8, <2>4, <2>5, <3>1
    <3>3. \A q \in p + 1 .. p : ~TakerAt(tags, q)
      BY <2>5
    <3>4. Good(p)
      BY <2>5, <3>1, <3>2, <3>3 DEF Is
    <3>5. QED
      BY <2>4, <3>4
  <2>7. found[p] = found[stack[p].next]
    BY <1>8, <2>4, <2>5, <2>6
  <2> DEFINE m == stack[p].next
  <2>8. /\ m \in 0 .. catch_framep /\ m < p /\ m \in 0 .. p - 1
        /\ m = NULL \/ IsFrame(m)
    BY <1>1, <1>2, <1>3, <2>4, <2>5 DEF NULL
  <2>9. \A q \in 1 .. p : q > m => ~TakerAt(tags, q)
    <3>1. ASSUME NEW q \in 1 .. p, q > m, stack[q].fn = "catch" PROVE q = p
      <4>1. SUFFICES ASSUME q # p PROVE FALSE
        OBVIOUS
      <4>2. q \in 1 .. p - 1
        BY <2>5, <4>1
      <4>3. q <= m
        BY <1>3, <2>5, <3>1, <4>2
      <4>4. QED
        BY <2>8, <3>1, <4>3
    <3>2. QED
      BY <2>6, <3>1 DEF TakerAt, Is
  <2>10. ~Good(m)
    <3>1. SUFFICES ASSUME Good(m) PROVE Good(p)
      BY <2>4
    <3> HIDE DEF m
    <3>2. CASE found[m] = NULL /\ \A q \in 1 .. m : ~TakerAt(tags, q)
      <4>1. \A q \in 1 .. p : q \in 1 .. m \/ q > m
        BY <2>5, <2>8
      <4>2. QED
        BY <2>7, <2>9, <3>2, <4>1 DEF m
    <3>3. CASE /\ found[m] \in 1 .. Len(stack) /\ Is(stack, found[m], {"catch"})
               /\ stack[found[m]].tag \in tags
               /\ \A q \in found[m] + 1 .. m : ~TakerAt(tags, q)
      <4>1. \A q \in found[m] + 1 .. p : q \in 1 .. p /\ (q \in found[m] + 1 .. m \/ q > m)
        BY <1>1, <2>5, <2>8, <3>3
      <4>2. \A q \in found[m] + 1 .. p : ~TakerAt(tags, q)
        BY <2>9, <3>3, <4>1
      <4>3. QED
        BY <2>7, <3>3, <4>2 DEF m
    <3>4. QED
      BY <3>1, <3>2, <3>3
  <2>11. m \in Bad
    BY <2>8, <2>10
  <2>12. QED
    BY <1>1, <2>3, <2>4, <2>8, <2>11
<1>10. catch_framep = NULL \/ IsFrame(catch_framep)
  BY <1>2 DEF Inner, Is
<1>11. Good(catch_framep)
  BY <1>1, <1>9, <1>10
<1>12. \A q \in 1 .. Len(stack) : q <= catch_framep \/ ~TakerAt(tags, q)
  BY DEF Inner, TakerAt
<1>13. \A q \in 1 .. Len(stack) : q \in 1 .. catch_framep \/ ~TakerAt(tags, q)
  BY <1>1, <1>12
<1>14. CASE found[catch_framep] = NULL /\ \A q \in 1 .. catch_framep : ~TakerAt(tags, q)
  BY <1>7, <1>13, <1>14
<1>15. CASE /\ found[catch_framep] \in 1 .. Len(stack) /\ Is(stack, found[catch_framep], {"catch"})
            /\ stack[found[catch_framep]].tag \in tags
            /\ \A q \in found[catch_framep] + 1 .. catch_framep : ~TakerAt(tags, q)
  <2>1. ASSUME NEW q \in found[catch_framep] + 1 .. Len(stack)
        PROVE  ~TakerAt(tags, q)
    <3>1. q \in 1 .. Len(stack)
      BY <1>1, <1>15
    <3>2. q \in found[catch_framep] + 1 .. catch_framep \/ ~TakerAt(tags, q)
      BY <1>1, <1>12, <1>15, <3>1
    <3>3. QED
      BY <1>15, <3>2
  <2>2. QED
    BY <1>7, <1>15, <2>1
<1>16. QED
  BY <1>11, <1>14, <1>15

-----------------------------------------------------------------------------
(* err. *)

LEMMA StackFacts ==
  ASSUME ControlInv, Len(stack) > 0
  PROVE  /\ stack \in Seq(Activations) /\ Len(stack) \in Nat \ {0} /\ Len(stack) \in 1 .. Len(stack)
         /\ Len(stack) <= MaxDepth + 1 /\ Len(stack) \in Positions
         /\ \A i \in 1 .. Len(stack) : stack[i] \in Activations /\ FrameOK(stack, hookCaught, hookThrew, i)
         /\ Top = stack[Len(stack)] /\ Top \in Activations
         /\ FrameOK(stack, hookCaught, hookThrew, Len(stack))
<1>1. stack \in Seq(Activations) /\ Len(stack) \in Positions /\ StackOK(stack, hookCaught, hookThrew)
  BY DEF ControlInv, TypeOK
<1>2. Len(stack) \in Nat /\ \A i \in 1 .. Len(stack) : stack[i] \in Activations
  BY <1>1, LenProperties, ElementOfSeq
<1>3. QED
  BY <1>1, <1>2, DepthFacts DEF StackOK, Top

(* The part of ControlInv that concerns an err called when s is what is     *)
(* left of the C stack.                                                     *)
ErrFrom(s) ==
  /\ s \in Seq(Activations) /\ StackOK(s, hookCaught, hookThrew)
  /\ Len(s) > 0 => Is(s, 1, {"driver"})
  /\ errjmp_ok = 1 =>
       /\ Inner(stack, catch_framep, Len(stack))
       /\ \A i \in 1 .. Len(stack) : Is(stack, i, {"catch"}) => i \in 1 .. Len(s) /\ Is(s, i, {"catch"})
       /\ Inner(s, catch_framep, Len(s))
       /\ Len(s) > 0 => ~Is(s, Len(s), {"gc"})
  /\ inside_err = 1 => hookThrew \/ \E j \in 1 .. Len(s) : Is(s, j, {"err"})

LEMMA FatalStep ==
  ASSUME ControlInv, NEW s, NEW how, err(s, how), Fatal,
         interrupt_differed' \in Bits, alarm' \in {"off", "weak", "sure"}
  PROVE  ControlInv'
<1>1. /\ nointerrupt' = 1 /\ errjmp_ok = 0 /\ pc' = "exit" /\ stack' = stack /\ inside_err' = inside_err
      /\ catch_framep' = catch_framep /\ errjmp_ok' = errjmp_ok /\ sigint' = sigint /\ osigint' = osigint
      /\ hookCaught' = hookCaught /\ hookThrew' = hookThrew
  BY DEF err, Fatal, history
<1>2. TypeOK'
  BY <1>1 DEF ControlInv, TypeOK, Bits
<1>3. StackOK(stack, hookCaught, hookThrew)'
  BY <1>1 DEF ControlInv
<1>4. PcOK'
  BY <1>1 DEF PcOK
<1>5. FlagsOK'
  BY <1>1 DEF FlagsOK, Idle, InJump, Alive
<1>6. QED
  BY <1>2, <1>3, <1>4, <1>5 DEF ControlInv

LEMMA ToDriverStep ==
  ASSUME ControlInv, NEW s, NEW how, err(s, how), ToDriver(how), Alive,
         interrupt_differed' \in Bits, alarm' \in {"off", "weak", "sure"}
  PROVE  ControlInv'
<1>1. /\ nointerrupt' = 1 /\ errjmp_ok = 1 /\ pc' \in {"quit", "start"} /\ inside_err' = 0
      /\ stack # <<>> /\ stack' = <<stack[1]>>
      /\ catch_framep' = catch_framep /\ errjmp_ok' = errjmp_ok /\ sigint' = sigint /\ osigint' = osigint
      /\ hookCaught' = hookCaught /\ hookThrew' = hookThrew
  BY DEF err, ToDriver, history
<1>2. stack \in Seq(Activations) /\ Len(stack) \in Positions /\ PcOK
  BY DEF ControlInv, TypeOK
<1>3. Len(stack) > 0 /\ stack[1] \in Activations /\ stack[1].fn = "driver"
  <2>1. Len(stack) \in Nat /\ Len(stack) # 0
    BY <1>1, <1>2, LenProperties, EmptySeq
  <2>2. stack[1] \in Activations
    BY <1>2, <2>1, ElementOfSeq
  <2>3. stack[1].fn = "driver"
    BY <1>1, <1>2, ControlInv DEF PcOK, Alive, Is, ControlInv, TypeOK
  <2>4. QED
    BY <2>1, <2>2, <2>3
<1>4. stack' \in Seq(Activations) /\ Len(stack') = 1 /\ stack'[1] = stack[1] /\ 1 \in Positions
  BY <1>1, <1>3, DepthFacts
<1>5. TypeOK'
  BY <1>1, <1>4 DEF ControlInv, TypeOK, Bits
<1>6. StackOK(stack, hookCaught, hookThrew)'
  BY <1>3, <1>4 DEF StackOK, FrameOK, CallerOK, LinkOK, FlagOK, ErrOK, Is
<1>7. PcOK'
  BY <1>1, <1>3, <1>4 DEF PcOK, Is
<1>8. FlagsOK'
  BY <1>1 DEF FlagsOK, Idle, InJump, Alive
<1>9. QED
  BY <1>5, <1>6, <1>7, <1>8 DEF ControlInv

LEMMA ToHandlerStep ==
  ASSUME ControlInv, NEW s, NEW how \in {"error", "reraise", "quit"}, err(s, how), ToHandler(s, how),
         ErrFrom(s), interrupt_differed' \in Bits, alarm' \in {"off", "weak", "sure"}
  PROVE  ControlInv'
<1> DEFINE l == Search(Errors)
           a == ErrFrame(how, inside_err, l)
<1>1. /\ nointerrupt' = 1 /\ errjmp_ok = 1 /\ pc' = "run" /\ inside_err' = 1
      /\ l \notin {NULL, Wild} /\ Len(s) <= MaxDepth /\ stack' = Append(s, a)
      /\ catch_framep' = catch_framep /\ errjmp_ok' = errjmp_ok /\ sigint' = sigint /\ osigint' = osigint
      /\ hookCaught' = hookCaught /\ hookThrew' = hookThrew
  BY DEF err, ToHandler, history
<1>2. /\ s \in Seq(Activations) /\ StackOK(s, hookCaught, hookThrew) /\ Len(s) \in Nat
      /\ Len(s) > 0 => Is(s, 1, {"driver"}) /\ ~Is(s, Len(s), {"gc"})
      /\ Inner(s, catch_framep, Len(s))
      /\ inside_err = 1 => hookThrew \/ \E j \in 1 .. Len(s) : Is(s, j, {"err"})
  BY <1>1, LenProperties DEF ErrFrom
<1>3. l \in 1 .. Len(stack) /\ Is(stack, l, {"catch"})
  BY <1>1, SearchFacts DEF ErrFrom, ControlInv, TypeOK
<1>4. l \in 1 .. Len(s) /\ Is(s, l, {"catch"}) /\ l \in Positions
  BY <1>1, <1>2, <1>3, DepthFacts DEF ErrFrom
<1>5. /\ a \in Activations /\ a.fn = "err" /\ a.was_inside = inside_err /\ a.frame = l /\ a.phase = "cons"
      /\ inside_err \in Bits
  BY <1>4, MakeActivations DEF ControlInv, TypeOK
<1> HIDE DEF a, l
<1>6. /\ Len(Append(s, a)) = Len(s) + 1 /\ Append(s, a)[Len(s) + 1] = a
      /\ \A i \in 1 .. Len(s) : Append(s, a)[i] = s[i]
  BY <1>2, <1>5, AppendProperties
<1>7. FrameOK(Append(s, a), hookCaught, hookThrew, Len(s) + 1)
  <2>1. CallerOK(Append(s, a), Len(s) + 1)
    BY <1>2, <1>5, <1>6 DEF CallerOK, Is
  <2>2. LinkOK(Append(s, a), Len(s) + 1)
    BY <1>2, <1>4, <1>5, <1>6 DEF LinkOK, Is
  <2>3. FlagOK(Append(s, a), hookCaught, hookThrew, Len(s) + 1)
    BY <1>5, <1>6 DEF FlagOK, Is
  <2>4. ErrOK(Append(s, a), hookCaught, hookThrew, Len(s) + 1)
    BY <1>2, <1>5, <1>6 DEF ErrOK, Is
  <2>5. QED
    BY <2>1, <2>2, <2>3, <2>4 DEF FrameOK
<1>8. /\ StackOK(Append(s, a), hookCaught, hookThrew) /\ Append(s, a) \in Seq(Activations)
  BY <1>2, <1>5, <1>7, PushOK
<1>9. Len(s) + 1 \in Positions
  BY <1>1, <1>2, DepthFacts
<1>10. TypeOK'
  BY <1>1, <1>6, <1>8, <1>9 DEF ControlInv, TypeOK, Bits
<1>11. StackOK(stack, hookCaught, hookThrew)'
  BY <1>1, <1>8
<1>12. Inner(stack', catch_framep', Len(stack'))
  BY <1>1, <1>2, <1>5, <1>6 DEF Inner, Is
<1>13. PcOK'
  BY <1>1, <1>2, <1>4, <1>6, <1>12 DEF PcOK, Is
<1>14. Len(stack') \in 1 .. Len(stack') /\ stack'[Len(stack')] = a
  BY <1>1, <1>2, <1>6
<1>15. FlagsOK'
  BY <1>1, <1>5, <1>14 DEF FlagsOK, Idle, InJump, Alive, Is
<1>16. QED
  BY <1>10, <1>11, <1>13, <1>15 DEF ControlInv

LEMMA ToNowhereStep ==
  ASSUME ControlInv, NEW s, NEW how, err(s, how), ToNowhere, ErrFrom(s),
         interrupt_differed' \in Bits, alarm' \in {"off", "weak", "sure"}
  PROVE  ControlInv'
<1>1. /\ nointerrupt' = 1 /\ errjmp_ok = 1 /\ pc' = "crashed" /\ stack' = stack /\ inside_err' = inside_err
      /\ Search(Errors) = Wild \/ stack = <<>>
      /\ catch_framep' = catch_framep /\ errjmp_ok' = errjmp_ok /\ sigint' = sigint /\ osigint' = osigint
      /\ hookCaught' = hookCaught /\ hookThrew' = hookThrew
  BY DEF err, ToNowhere, history
<1>2. Search(Errors) # Wild
  BY <1>1, SearchFacts DEF ErrFrom, ControlInv, TypeOK, NULL, Wild
<1>3. TypeOK'
  BY <1>1 DEF ControlInv, TypeOK, Bits
<1>4. StackOK(stack, hookCaught, hookThrew)'
  BY <1>1 DEF ControlInv
<1>5. PcOK'
  BY <1>1, <1>2 DEF PcOK
<1>6. FlagsOK'
  BY <1>1 DEF FlagsOK, Idle, InJump, Alive
<1>7. QED
  BY <1>3, <1>4, <1>5, <1>6 DEF ControlInv

LEMMA ErrStep ==
  ASSUME ControlInv, Alive, NEW s, NEW how \in {"error", "reraise", "quit"}, err(s, how),
         ErrFrom(s), interrupt_differed' \in Bits, alarm' \in {"off", "weak", "sure"}
  PROVE  ControlInv'
<1>1. Fatal \/ ToHandler(s, how) \/ ToDriver(how) \/ ToNowhere
  BY DEF err
<1>2. QED
  BY <1>1, FatalStep, ToHandlerStep, ToDriverStep, ToNowhereStep

(* From the C stack as it is. *)
LEMMA ErrFromStack ==
  ASSUME ControlInv, Alive,
         errjmp_ok = 1 => nointerrupt = 0 \/ (pc = "run" /\ Top.fn # "gc")
  PROVE  ErrFrom(stack)
<1>1. /\ stack \in Seq(Activations) /\ StackOK(stack, hookCaught, hookThrew) /\ Len(stack) \in Nat
      /\ TypeOK /\ PcOK /\ FlagsOK
  BY LenProperties DEF ControlInv, TypeOK
<1>2. Len(stack) > 0 => Is(stack, 1, {"driver"})
  <2>1. stack = <<>> => Len(stack) = 0
    BY <1>1
  <2>2. QED
    BY <1>1, <2>1 DEF PcOK, TypeOK, Alive
<1>3. ASSUME errjmp_ok = 1
      PROVE  /\ Inner(stack, catch_framep, Len(stack))
             /\ Len(stack) > 0 => ~Is(stack, Len(stack), {"gc"})
  <2>1. CASE pc \in {"run", "caught"}
    <3>1. Inner(stack, catch_framep, Len(stack)) /\ (pc = "caught" => Is(stack, Len(stack), {"catch"}))
      BY <1>1, <2>1 DEF PcOK
    <3>2. ~Is(stack, Len(stack), {"gc"})
      BY <1>1, <1>3, <2>1, <3>1 DEF FlagsOK, Top, Is
    <3>3. QED
      BY <3>1, <3>2
  <2>2. CASE pc \in {"out", "start", "reset", "quit"}
    <3>1. catch_framep = NULL
      BY <1>1, <1>3, <2>2 DEF FlagsOK, Idle
    <3>2. \A q \in 1 .. Len(stack) : Is(stack, q, {"driver"})
      <4>1. CASE pc = "out"
        <5>1. Len(stack) = 0
          BY <1>1, <4>1 DEF PcOK
        <5>2. QED
          BY <5>1
      <4>2. CASE pc # "out"
        <5>1. Len(stack) = 1 /\ Is(stack, 1, {"driver"})
          BY <1>1, <2>2, <4>2 DEF PcOK
        <5>2. \A q \in 1 .. 1 : q = 1
          OBVIOUS
        <5>3. QED
          BY <5>1, <5>2
      <4>3. QED
        BY <4>1, <4>2
    <3>3. QED
      BY <1>1, <3>1, <3>2 DEF Inner, Is
  <2>3. QED
    BY <1>1, <2>1, <2>2 DEF TypeOK, Alive
<1>4. inside_err = 1 => hookThrew \/ \E j \in 1 .. Len(stack) : Is(stack, j, {"err"})
  BY <1>1 DEF FlagsOK
<1>5. QED
  BY <1>1, <1>2, <1>3, <1>4 DEF ErrFrom

-----------------------------------------------------------------------------
(* Calls and returns. *)

LEMMA Calling ==
  ASSUME ControlInv, pc = "run", Top.fn # "gc", Top.fn = "err" => Top.phase = "cons"
  PROVE  /\ Len(stack) > 0 /\ errjmp_ok = 1 /\ ~InJump /\ Is(stack, 1, {"driver"})
         /\ Inner(stack, catch_framep, Len(stack)) /\ ~Is(stack, Len(stack), {"gc"})
         /\ nointerrupt = 0 => hookCaught \/ \A j \in 1 .. Len(stack) : ~Is(stack, j, {"section"})
         /\ nointerrupt = 1 => hookThrew \/ \E j \in 1 .. Len(stack) : Is(stack, j, {"section", "err"})
         /\ inside_err = 1 => hookThrew \/ \E j \in 1 .. Len(stack) : Is(stack, j, {"err"})
<1>1. PcOK /\ FlagsOK /\ TypeOK
  BY DEF ControlInv
<1>2. Len(stack) > 0 /\ Is(stack, 1, {"driver"}) /\ Inner(stack, catch_framep, Len(stack))
  BY <1>1 DEF PcOK
<1>3. ~Is(stack, Len(stack), {"gc"}) /\ ~InJump
  BY DEF Top, Is, InJump
<1>4. errjmp_ok = 1
  BY <1>1, <1>3 DEF FlagsOK, TypeOK, Bits
<1>5. ASSUME nointerrupt = 1
      PROVE  hookThrew \/ \E j \in 1 .. Len(stack) : Is(stack, j, {"section", "err"})
  <2>1. hookThrew \/ \E j \in 1 .. Len(stack) : Is(stack, j, {"section", "gc", "err"})
    BY <1>1, <1>5 DEF FlagsOK
  <2>2. ASSUME NEW j \in 1 .. Len(stack) PROVE ~Is(stack, j, {"gc"})
    <3>1. CASE j = Len(stack)
      BY <1>3, <3>1
    <3>2. CASE j # Len(stack)
      <4>1. Len(stack) \in Nat /\ j + 1 \in 1 .. Len(stack) /\ j + 1 > 1 /\ (j + 1) - 1 = j
        BY <1>2, <3>2, StackFacts
      <4>2. FrameOK(stack, hookCaught, hookThrew, j + 1)
        BY <1>2, <4>1, StackFacts
      <4>3. QED
        BY <4>1, <4>2 DEF FrameOK, CallerOK
    <3>3. QED
      BY <3>1, <3>2
  <2>3. QED
    BY <2>1, <2>2 DEF Is
<1>6. nointerrupt = 0 => hookCaught \/ \A j \in 1 .. Len(stack) : ~Is(stack, j, {"section"})
  BY <1>1, <1>3 DEF FlagsOK
<1>7. inside_err = 1 => hookThrew \/ \E j \in 1 .. Len(stack) : Is(stack, j, {"err"})
  BY <1>1 DEF FlagsOK, Alive
<1>8. QED
  BY <1>2, <1>3, <1>4, <1>5, <1>6, <1>7

LEMMA PushStep ==
  ASSUME ControlInv, pc = "run", Top.fn # "gc", Top.fn = "err" => Top.phase = "cons",
         NEW a \in Activations, Push(a), a.fn \in {"catch", "section", "gc"},
         FrameOK(Append(stack, a), hookCaught, hookThrew, Len(stack) + 1),
         catch_framep' = IF a.fn = "catch" THEN Len(stack) + 1 ELSE catch_framep,
         nointerrupt' = IF a.fn = "catch" THEN nointerrupt ELSE 1,
         errjmp_ok' = IF a.fn = "gc" THEN 0 ELSE errjmp_ok, a.fn = "gc" => a.phase = "mark",
         UNCHANGED <<interrupt_differed, inside_err, signals, pc, history>>
  PROVE  ControlInv'
<1>1. /\ Len(stack) > 0 /\ errjmp_ok = 1 /\ ~InJump /\ Is(stack, 1, {"driver"})
      /\ Inner(stack, catch_framep, Len(stack))
      /\ nointerrupt = 0 => hookCaught \/ \A j \in 1 .. Len(stack) : ~Is(stack, j, {"section"})
      /\ nointerrupt = 1 => hookThrew \/ \E j \in 1 .. Len(stack) : Is(stack, j, {"section", "err"})
      /\ inside_err = 1 => hookThrew \/ \E j \in 1 .. Len(stack) : Is(stack, j, {"err"})
  BY Calling
<1>2. stack' = Append(stack, a) /\ Len(stack) < MaxDepth
  BY DEF Push
<1>3. /\ stack' \in Seq(Activations) /\ Len(stack') = Len(stack) + 1 /\ Len(stack) \in Nat \ {0}
      /\ \A i \in 1 .. Len(stack) : stack'[i] = stack[i]
      /\ stack'[Len(stack) + 1] = a
      /\ StackOK(stack', hookCaught, hookThrew)
  BY <1>1, <1>2, PushOK, StackFacts DEF ControlInv
<1>4. Len(stack') \in Positions
  BY <1>2, <1>3, DepthFacts
<1>5. /\ interrupt_differed' = interrupt_differed /\ inside_err' = inside_err /\ sigint' = sigint
      /\ osigint' = osigint /\ alarm' = alarm /\ pc' = "run" /\ hookCaught' = hookCaught
      /\ hookThrew' = hookThrew
  BY DEF signals, history
<1>6. TypeOK'
  BY <1>3, <1>4, <1>5 DEF ControlInv, TypeOK, Bits
<1>7. StackOK(stack, hookCaught, hookThrew)'
  BY <1>3, <1>5
<1>8. Inner(stack', catch_framep', Len(stack'))
  BY <1>1, <1>3 DEF Inner, Is
<1>9. PcOK'
  BY <1>1, <1>3, <1>5, <1>8 DEF PcOK, Is
<1>10. /\ Len(stack') \in 1 .. Len(stack') /\ stack'[Len(stack')] = a
       /\ \A i \in 1 .. Len(stack') : i \in 1 .. Len(stack) \/ i = Len(stack')
       /\ \A i \in 1 .. Len(stack) : i \in 1 .. Len(stack')
  BY <1>3
<1>11. FlagsOK'
  <2>1. ~InJump'
    BY <1>10 DEF InJump, Is
  <2>2. (errjmp_ok = 0 => nointerrupt = 1 /\ pc \notin {"quit", "caught", "crashed"})'
    BY <1>1, <1>5
  <2>3. (errjmp_ok = 0 /\ pc = "run" =>
           Is(stack, Len(stack), {"gc"}) /\ stack[Len(stack)].phase = "mark")'
    BY <1>1, <1>10 DEF Is
  <2>4. (pc = "run" /\ Is(stack, Len(stack), {"gc"}) => nointerrupt = 1)'
    BY <1>10 DEF Is
  <2>5. ASSUME nointerrupt' = 0
        PROVE  hookCaught \/ \A j \in 1 .. Len(stack') : ~Is(stack', j, {"section"})
    BY <1>1, <1>3, <1>10, <2>5 DEF Is
  <2>6. ASSUME nointerrupt' = 1
        PROVE  hookThrew \/ \E j \in 1 .. Len(stack') : Is(stack', j, {"section", "gc", "err"})
    <3>1. CASE a.fn = "catch"
      BY <1>1, <1>3, <1>10, <2>6, <3>1 DEF Is
    <3>2. CASE a.fn \in {"section", "gc"}
      BY <1>10, <3>2 DEF Is
    <3>3. QED
      BY <3>1, <3>2
  <2>7. inside_err' = 1 => hookThrew \/ \E j \in 1 .. Len(stack') : Is(stack', j, {"err"})
    BY <1>1, <1>3, <1>5, <1>10 DEF Is
  <2>8. QED
    BY <1>5, <2>1, <2>2, <2>3, <2>4, <2>5, <2>6, <2>7 DEF FlagsOK, Idle
<1>12. QED
  BY <1>6, <1>7, <1>9, <1>11 DEF ControlInv

LEMMA LispCalls ==
  ASSUME ControlInv, EvaluatesLisp \/ Running({"section"}) \/ Consing
  PROVE  /\ pc = "run" /\ Top.fn # "gc" /\ (Top.fn = "err" => Top.phase = "cons") /\ Alive
         /\ Top.fn = "err" \/ Top.fn \in {"driver", "catch", "hook", "section"}
         /\ EvaluatesLisp => Top.fn \in {"driver", "catch", "hook"}
BY DEF EvaluatesLisp, Running, Consing, Alive

LEMMA CatchStep ==
  ASSUME ControlInv, NEW tag \in Tags, siod_leval_catch(tag)
  PROVE  ControlInv'
<1> DEFINE a == CatchFrame(tag, catch_framep)
<1>1. pc = "run" /\ Top.fn \in {"driver", "catch", "hook"}
  BY LispCalls DEF siod_leval_catch
<1>2. Inner(stack, catch_framep, Len(stack)) /\ Len(stack) > 0
  BY <1>1, Calling
<1>3. a \in Activations /\ a.fn = "catch" /\ a.next = catch_framep
  BY MakeActivations DEF ControlInv, TypeOK
<1>4. Push(a) /\ catch_framep' = Len(stack) + 1 /\ UNCHANGED <<flags, signals, pc, history>>
  BY DEF siod_leval_catch
<1> HIDE DEF a
<1>5. /\ Len(stack) \in Nat \ {0} /\ stack \in Seq(Activations) /\ Top = stack[Len(stack)]
      /\ Append(stack, a)[Len(stack) + 1] = a
      /\ \A i \in 1 .. Len(stack) : Append(stack, a)[i] = stack[i]
  BY <1>2, <1>3, StackFacts, AppendProperties
<1>6. Inner(Append(stack, a), catch_framep, Len(stack))
  BY <1>2, <1>5 DEF Inner, Is
<1>7. FrameOK(Append(stack, a), hookCaught, hookThrew, Len(stack) + 1)
  BY <1>1, <1>3, <1>5, <1>6 DEF FrameOK, CallerOK, LinkOK, FlagOK, ErrOK, Is
<1>8. /\ UNCHANGED <<interrupt_differed, inside_err, signals, pc, history>>
      /\ nointerrupt' = nointerrupt /\ errjmp_ok' = errjmp_ok
  BY <1>4 DEF flags
<1>9. QED
  BY <1>1, <1>3, <1>4, <1>7, <1>8, PushStep

LEMMA SectionStep ==
  ASSUME ControlInv, siod_no_interrupt_1
  PROVE  ControlInv'
<1> DEFINE a == Section(nointerrupt)
<1>1. pc = "run" /\ Top.fn \in {"driver", "catch", "hook", "section"}
  BY DEF siod_no_interrupt_1, EvaluatesLisp, Running
<1>2. /\ Len(stack) > 0
      /\ nointerrupt = 0 => hookCaught \/ \A j \in 1 .. Len(stack) : ~Is(stack, j, {"section"})
      /\ nointerrupt = 1 => hookThrew \/ \E j \in 1 .. Len(stack) : Is(stack, j, {"section", "err"})
  BY <1>1, Calling
<1>3. a \in Activations /\ a.fn = "section" /\ a.flag = nointerrupt
  BY MakeActivations DEF ControlInv, TypeOK
<1>4. /\ Push(a) /\ nointerrupt' = 1
      /\ UNCHANGED <<catch_framep, errjmp_ok, interrupt_differed, inside_err, signals, pc, history>>
  BY DEF siod_no_interrupt_1
<1> HIDE DEF a
<1>5. /\ Len(stack) \in Nat \ {0} /\ stack \in Seq(Activations) /\ Top = stack[Len(stack)]
      /\ Append(stack, a)[Len(stack) + 1] = a
      /\ \A i \in 1 .. Len(stack) : Append(stack, a)[i] = stack[i]
  BY <1>2, <1>3, StackFacts, AppendProperties
<1>6. FlagOK(Append(stack, a), hookCaught, hookThrew, Len(stack) + 1)
  BY <1>2, <1>3, <1>5 DEF FlagOK, Is
<1>7. FrameOK(Append(stack, a), hookCaught, hookThrew, Len(stack) + 1)
  BY <1>1, <1>3, <1>5, <1>6 DEF FrameOK, CallerOK, LinkOK, ErrOK, Is
<1>8. QED
  BY <1>1, <1>3, <1>4, <1>7, PushStep

LEMMA CollectStep ==
  ASSUME ControlInv, siod_gc_for_newcell
  PROVE  ControlInv'
<1> DEFINE a == Collection(nointerrupt)
<1>1. /\ pc = "run" /\ Top.fn # "gc" /\ (Top.fn = "err" => Top.phase = "cons")
  BY LispCalls DEF siod_gc_for_newcell
<1>2. /\ Len(stack) > 0
      /\ nointerrupt = 0 => hookCaught \/ \A j \in 1 .. Len(stack) : ~Is(stack, j, {"section"})
      /\ nointerrupt = 1 => hookThrew \/ \E j \in 1 .. Len(stack) : Is(stack, j, {"section", "err"})
  BY <1>1, Calling
<1>3. a \in Activations /\ a.fn = "gc" /\ a.flag = nointerrupt /\ a.phase = "mark"
  BY MakeActivations DEF ControlInv, TypeOK
<1>4. /\ Push(a) /\ nointerrupt' = 1 /\ errjmp_ok' = 0
      /\ UNCHANGED <<catch_framep, interrupt_differed, inside_err, signals, pc, history>>
  BY DEF siod_gc_for_newcell
<1> HIDE DEF a
<1>5. /\ Len(stack) \in Nat \ {0} /\ stack \in Seq(Activations) /\ Top = stack[Len(stack)]
      /\ Append(stack, a)[Len(stack) + 1] = a
      /\ \A i \in 1 .. Len(stack) : Append(stack, a)[i] = stack[i]
  BY <1>2, <1>3, StackFacts, AppendProperties
<1>6. FlagOK(Append(stack, a), hookCaught, hookThrew, Len(stack) + 1)
  BY <1>2, <1>3, <1>5 DEF FlagOK, Is
<1>7. FrameOK(Append(stack, a), hookCaught, hookThrew, Len(stack) + 1)
  BY <1>1, <1>3, <1>5, <1>6 DEF FrameOK, CallerOK, LinkOK, ErrOK, Is
<1>8. QED
  BY <1>1, <1>3, <1>4, <1>7, PushStep

(* What is left when the function at the top returns. *)
LEMMA Returning ==
  ASSUME ControlInv, pc \in {"run", "caught"}, Top.fn # "driver"
  PROVE  /\ Len(stack) - 1 \in Nat \ {0} /\ Popped \in Seq(Activations) /\ Len(Popped) = Len(stack) - 1
         /\ \A i \in 1 .. Len(stack) - 1 : Popped[i] = stack[i]
         /\ StackOK(Popped, hookCaught, hookThrew) /\ Is(Popped, 1, {"driver"})
         /\ ~Is(Popped, Len(Popped), {"gc"})
         /\ Inner(Popped, IF Top.fn = "catch" THEN Top.next ELSE catch_framep, Len(Popped))
         /\ Top.fn = "catch" => catch_framep = Len(stack)
         /\ Top.fn \in {"catch", "section"} => ~Is(Popped, Len(Popped), {"err"})
         /\ Top.fn \in {"gc", "hook"} /\ Is(Popped, Len(Popped), {"err"}) => Popped[Len(Popped)].phase = "cons"
<1>1. /\ Len(stack) > 0 /\ Is(stack, 1, {"driver"}) /\ Inner(stack, catch_framep, Len(stack))
      /\ StackOK(stack, hookCaught, hookThrew)
  BY DEF ControlInv, PcOK
<1>2. /\ stack \in Seq(Activations) /\ Len(stack) \in Nat \ {0} /\ Top = stack[Len(stack)]
      /\ FrameOK(stack, hookCaught, hookThrew, Len(stack))
  BY <1>1, StackFacts
<1>3. Len(stack) - 1 \in Nat \ {0}
  <2>1. Len(stack) # 1
    BY <1>1, <1>2 DEF Is
  <2>2. QED
    BY <1>2, <2>1
<1>4. /\ Popped \in Seq(Activations) /\ Len(Popped) = Len(stack) - 1
      /\ \A i \in 1 .. Len(stack) - 1 : Popped[i] = stack[i]
      /\ StackOK(Popped, hookCaught, hookThrew)
  <2>1. Len(stack) - 1 \in 0 .. Len(stack)
    BY <1>2, <1>3
  <2>2. QED
    BY <1>1, <1>2, <2>1, CutOK DEF Popped
<1>5. Is(Popped, 1, {"driver"})
  BY <1>1, <1>3, <1>4 DEF Is
<1>6. Len(Popped) \in 1 .. Len(stack) - 1 /\ Popped[Len(Popped)] = stack[Len(stack) - 1] /\ Len(stack) > 1
  BY <1>3, <1>4
<1>7. CallerOK(stack, Len(stack))
  BY <1>2 DEF FrameOK
<1>8. /\ ~Is(Popped, Len(Popped), {"gc"})
      /\ Top.fn \in {"catch", "section"} => ~Is(Popped, Len(Popped), {"err"})
      /\ Top.fn \in {"gc", "hook"} /\ Is(Popped, Len(Popped), {"err"}) => Popped[Len(Popped)].phase = "cons"
  BY <1>2, <1>6, <1>7 DEF CallerOK, Is
<1>9. ASSUME NEW p, Inner(stack, p, Len(stack) - 1) PROVE Inner(Popped, p, Len(Popped))
  BY <1>4, <1>9 DEF Inner, Is
<1>10. CASE Top.fn = "catch"
  <2>1. Inner(stack, Top.next, Len(stack) - 1)
    BY <1>2, <1>10 DEF FrameOK, LinkOK, Is
  <2>2. catch_framep = Len(stack)
    BY <1>1, <1>2, <1>10 DEF Inner, Is, NULL
  <2>3. Inner(Popped, Top.next, Len(Popped))
    BY <1>9, <2>1
  <2>4. QED
    BY <1>3, <1>4, <1>5, <1>8, <1>10, <2>2, <2>3
<1>11. CASE Top.fn # "catch"
  <2>1. Inner(stack, catch_framep, Len(stack) - 1)
    BY <1>1, <1>2, <1>3, <1>11 DEF Inner, Is
  <2>2. Inner(Popped, catch_framep, Len(Popped))
    BY <1>9, <2>1
  <2>3. QED
    BY <1>3, <1>4, <1>5, <1>8, <1>11, <2>2
<1>12. QED
  BY <1>10, <1>11

(* The hook that may run after a collection is called from where the        *)
(* collection was.                                                          *)
Left(s) == s = Popped \/ (Top.fn = "gc" /\ s = Append(Popped, Hook))

LEMMA LeftOK ==
  ASSUME ControlInv, pc \in {"run", "caught"}, Top.fn \in {"catch", "section", "gc", "hook"},
         NEW s, Left(s)
  PROVE  /\ s \in Seq(Activations) /\ Len(s) \in Nat \ {0} /\ Len(s) <= Len(stack)
         /\ StackOK(s, hookCaught, hookThrew) /\ Is(s, 1, {"driver"})
         /\ ~Is(s, Len(s), {"gc"})
         /\ Is(s, Len(s), {"err"}) => s[Len(s)].phase = "cons"
         /\ Inner(s, IF Top.fn = "catch" THEN Top.next ELSE catch_framep, Len(s))
         /\ \A i \in 1 .. Len(stack) - 1 : i \in 1 .. Len(s) /\ s[i] = stack[i]
         /\ \A i \in 1 .. Len(s) : i \in 1 .. Len(stack) - 1 \/ Is(s, i, {"hook"})
<1>1. /\ Len(stack) - 1 \in Nat \ {0} /\ Popped \in Seq(Activations) /\ Len(Popped) = Len(stack) - 1
      /\ \A i \in 1 .. Len(stack) - 1 : Popped[i] = stack[i]
      /\ StackOK(Popped, hookCaught, hookThrew) /\ Is(Popped, 1, {"driver"})
      /\ ~Is(Popped, Len(Popped), {"gc"})
      /\ Inner(Popped, IF Top.fn = "catch" THEN Top.next ELSE catch_framep, Len(Popped))
      /\ Top.fn \in {"catch", "section"} => ~Is(Popped, Len(Popped), {"err"})
      /\ Top.fn \in {"gc", "hook"} /\ Is(Popped, Len(Popped), {"err"}) => Popped[Len(Popped)].phase = "cons"
  BY Returning
<1>2. Len(stack) \in Nat
  BY LenProperties DEF ControlInv, TypeOK
<1>3. CASE s = Popped
  BY <1>1, <1>2, <1>3
<1>4. CASE Top.fn = "gc" /\ s = Append(Popped, Hook)
  <2>1. /\ Hook \in Activations /\ Hook.fn = "hook"
    BY MakeActivations
  <2>2. /\ Len(s) = Len(Popped) + 1 /\ s[Len(Popped) + 1] = Hook
        /\ \A i \in 1 .. Len(Popped) : s[i] = Popped[i]
    BY <1>1, <1>4, <2>1, AppendProperties
  <2>3. Len(Popped) \in Nat \ {0}
    BY <1>1
  <2>4. s[Len(Popped)] = Popped[Len(Popped)]
    BY <2>2, <2>3
  <2>5. FrameOK(s, hookCaught, hookThrew, Len(Popped) + 1)
    BY <1>1, <1>4, <2>1, <2>2, <2>3, <2>4 DEF FrameOK, CallerOK, LinkOK, FlagOK, ErrOK, Is
  <2>6. StackOK(s, hookCaught, hookThrew) /\ s \in Seq(Activations)
    BY <1>1, <1>4, <2>1, <2>5, PushOK
  <2>7. Is(s, 1, {"driver"}) /\ Is(s, Len(s), {"hook"})
    BY <1>1, <2>1, <2>2, <2>3 DEF Is
  <2>8. Inner(s, catch_framep, Len(s))
    BY <1>1, <1>4, <2>1, <2>2, <2>3 DEF Inner, Is
  <2>9. \A i \in 1 .. Len(s) : i \in 1 .. Len(stack) - 1 \/ Is(s, i, {"hook"})
    BY <1>1, <2>2, <2>7
  <2>10. \A i \in 1 .. Len(stack) - 1 : i \in 1 .. Len(s) /\ s[i] = stack[i]
    BY <1>1, <2>2
  <2>11. Len(s) \in Nat \ {0} /\ Len(s) <= Len(stack)
    BY <1>1, <1>2, <2>2
  <2>12. QED
    BY <1>4, <2>6, <2>7, <2>8, <2>9, <2>10, <2>11 DEF Is
<1>5. QED
  BY <1>3, <1>4 DEF Left

LEMMA ReturnStep ==
  ASSUME ControlInv, pc \in {"run", "caught"}, pc' = "run", Top.fn \in {"catch", "section", "gc", "hook"},
         errjmp_ok = 1, errjmp_ok' = 1, NEW s, Left(s), stack' = s,
         catch_framep' = IF Top.fn = "catch" THEN Top.next ELSE catch_framep,
         nointerrupt' = IF Top.fn \in {"section", "gc"} THEN Top.flag ELSE nointerrupt,
         UNCHANGED <<interrupt_differed, inside_err, signals, history>>
  PROVE  ControlInv'
<1>1. /\ s \in Seq(Activations) /\ Len(s) \in Nat \ {0} /\ Len(s) <= Len(stack)
      /\ StackOK(s, hookCaught, hookThrew) /\ Is(s, 1, {"driver"})
      /\ ~Is(s, Len(s), {"gc"})
      /\ Is(s, Len(s), {"err"}) => s[Len(s)].phase = "cons"
      /\ Inner(s, catch_framep', Len(s))
      /\ \A i \in 1 .. Len(stack) - 1 : i \in 1 .. Len(s) /\ s[i] = stack[i]
      /\ \A i \in 1 .. Len(s) : i \in 1 .. Len(stack) - 1 \/ Is(s, i, {"hook"})
  BY LeftOK
<1>2. /\ interrupt_differed' = interrupt_differed /\ inside_err' = inside_err /\ sigint' = sigint
      /\ osigint' = osigint /\ alarm' = alarm /\ hookCaught' = hookCaught /\ hookThrew' = hookThrew
  BY DEF signals, history
<1>3. PcOK /\ FlagsOK /\ TypeOK
  BY DEF ControlInv
<1>4. /\ Len(stack) > 0 /\ Len(stack) \in Nat \ {0} /\ Top = stack[Len(stack)] /\ Top \in Activations
      /\ Len(stack) <= MaxDepth + 1
      /\ FrameOK(stack, hookCaught, hookThrew, Len(stack))
  BY <1>3, StackFacts DEF PcOK
<1>5. Top.fn \in {"section", "gc"} => Top.flag \in Bits
  BY <1>4, ActivationFacts
<1>6. catch_framep' \in Positions /\ Len(s) \in Positions
  <2>1. catch_framep' = NULL \/ catch_framep' \in 1 .. Len(s)
    BY <1>1 DEF Inner
  <2>2. QED
    BY <1>1, <1>4, <2>1, DepthFacts DEF NULL
<1>7. nointerrupt' \in Bits
  BY <1>3, <1>5 DEF TypeOK
<1>8. TypeOK'
  BY <1>1, <1>2, <1>3, <1>6, <1>7 DEF TypeOK, Bits
<1>9. StackOK(stack, hookCaught, hookThrew)'
  BY <1>1, <1>2
<1>10. PcOK'
  BY <1>1 DEF PcOK
<1>11. ~InJump /\ ~InJump'
  BY <1>1, <1>4 DEF InJump, Is
<1>12. ASSUME NEW fns, Top.fn \notin fns, \E j \in 1 .. Len(stack) : Is(stack, j, fns)
       PROVE  \E j \in 1 .. Len(s) : Is(s, j, fns)
  <2>1. PICK j \in 1 .. Len(stack) : Is(stack, j, fns)
    BY <1>12
  <2>2. j \in 1 .. Len(stack) - 1
    BY <1>4, <1>12, <2>1 DEF Is
  <2>3. j \in 1 .. Len(s) /\ Is(s, j, fns)
    BY <1>1, <2>1, <2>2 DEF Is
  <2>4. QED
    BY <2>3
<1>13. ASSUME nointerrupt' = 0
       PROVE  hookCaught \/ \A j \in 1 .. Len(s) : ~Is(s, j, {"section"})
  <2>1. hookCaught \/ \A j \in 1 .. Len(stack) - 1 : ~Is(stack, j, {"section"})
    <3>1. CASE Top.fn \in {"section", "gc"}
      BY <1>4, <1>13, <3>1 DEF FrameOK, FlagOK, Is
    <3>2. CASE Top.fn \notin {"section", "gc"}
      <4>1. hookCaught \/ \A j \in 1 .. Len(stack) : ~Is(stack, j, {"section"})
        BY <1>3, <1>11, <1>13, <3>2 DEF FlagsOK
      <4>2. \A j \in 1 .. Len(stack) - 1 : j \in 1 .. Len(stack)
        BY <1>4
      <4>3. QED
        BY <4>1, <4>2
    <3>3. QED
      BY <3>1, <3>2
  <2>2. QED
    BY <1>1, <2>1 DEF Is
<1>14. ASSUME nointerrupt' = 1
       PROVE  hookThrew \/ \E j \in 1 .. Len(s) : Is(s, j, {"section", "gc", "err"})
  <2>1. CASE Top.fn \in {"section", "gc"}
    <3>1. hookThrew \/ \E j \in 1 .. Len(stack) - 1 : Is(stack, j, {"section", "err"})
      BY <1>4, <1>14, <2>1 DEF FrameOK, FlagOK, Is
    <3>2. QED
      BY <1>1, <3>1 DEF Is
  <2>2. CASE Top.fn \in {"catch", "hook"}
    <3>1. hookThrew \/ \E j \in 1 .. Len(stack) : Is(stack, j, {"section", "gc", "err"})
      BY <1>3, <1>14, <2>2 DEF FlagsOK
    <3>2. QED
      BY <1>12, <2>2, <3>1
  <2>3. QED
    BY <2>1, <2>2
<1>15. ASSUME inside_err' = 1
       PROVE  hookThrew \/ \E j \in 1 .. Len(s) : Is(s, j, {"err"})
  <2>1. hookThrew \/ \E j \in 1 .. Len(stack) : Is(stack, j, {"err"})
    BY <1>2, <1>3, <1>15 DEF FlagsOK, Alive
  <2>2. QED
    BY <1>12, <2>1
<1>16. FlagsOK'
  BY <1>1, <1>2, <1>11, <1>13, <1>14, <1>15 DEF FlagsOK, Idle
<1>17. QED
  BY <1>8, <1>9, <1>10, <1>16 DEF ControlInv

LEMMA CatchReturns ==
  ASSUME ControlInv, siod_leval_catch_1
  PROVE  ControlInv'
<1>1. /\ pc = "run" /\ Top.fn = "catch" /\ catch_framep' = stack[catch_framep].next /\ stack' = Popped
      /\ UNCHANGED <<flags, signals, pc, history>>
  BY DEF siod_leval_catch_1, Running
<1>2. Len(stack) > 0 /\ errjmp_ok = 1 /\ catch_framep = Len(stack) /\ Top = stack[Len(stack)]
  BY <1>1, Calling, Returning, StackFacts
<1>3. Left(Popped)
  BY DEF Left
<1>4. /\ pc' = "run" /\ errjmp_ok' = 1 /\ nointerrupt' = nointerrupt
      /\ UNCHANGED <<interrupt_differed, inside_err, signals, history>>
  BY <1>1, <1>2 DEF flags
<1>5. QED
  BY <1>1, <1>2, <1>3, <1>4, ReturnStep

LEMMA CaughtStep ==
  ASSUME ControlInv, Caught
  PROVE  ControlInv'
<1>1. /\ pc = "caught" /\ catch_framep' = Top.next /\ stack' = Popped /\ pc' = "run"
      /\ UNCHANGED <<flags, signals, history>>
  BY DEF Caught
<1>2. errjmp_ok = 1 /\ Top.fn = "catch"
  BY <1>1 DEF ControlInv, FlagsOK, PcOK, TypeOK, Bits, Top, Is
<1>3. Left(Popped)
  BY DEF Left
<1>4. /\ errjmp_ok' = 1 /\ nointerrupt' = nointerrupt
      /\ UNCHANGED <<interrupt_differed, inside_err, signals, history>>
  BY <1>1, <1>2 DEF flags
<1>5. QED
  BY <1>1, <1>2, <1>3, <1>4, ReturnStep

LEMMA HookReturnsStep ==
  ASSUME ControlInv, HookReturns
  PROVE  ControlInv'
<1>1. /\ pc = "run" /\ Top.fn = "hook" /\ stack' = Popped
      /\ UNCHANGED <<catch_framep, flags, signals, pc, history>>
  BY DEF HookReturns, Running
<1>2. errjmp_ok = 1
  BY <1>1, Calling
<1>3. Left(Popped)
  BY DEF Left
<1>4. /\ pc' = "run" /\ errjmp_ok' = 1 /\ nointerrupt' = nointerrupt /\ catch_framep' = catch_framep
      /\ UNCHANGED <<interrupt_differed, inside_err, signals, history>>
  BY <1>1, <1>2 DEF flags
<1>5. QED
  BY <1>1, <1>2, <1>3, <1>4, ReturnStep

LEMMA ErrFromLeft ==
  ASSUME ControlInv, pc = "run", Top.fn \in {"section", "gc"}, errjmp_ok = 1, NEW s, Left(s)
  PROVE  ErrFrom(s)
<1>1. /\ Len(stack) > 0 /\ Len(stack) \in Nat \ {0} /\ Top = stack[Len(stack)] /\ PcOK /\ FlagsOK
  BY StackFacts DEF ControlInv, PcOK
<1>2. /\ s \in Seq(Activations) /\ StackOK(s, hookCaught, hookThrew) /\ Is(s, 1, {"driver"})
      /\ ~Is(s, Len(s), {"gc"}) /\ Inner(s, catch_framep, Len(s))
      /\ \A i \in 1 .. Len(stack) - 1 : i \in 1 .. Len(s) /\ s[i] = stack[i]
  BY LeftOK
<1>3. Inner(stack, catch_framep, Len(stack))
  BY <1>1 DEF PcOK
<1>4. ASSUME NEW i \in 1 .. Len(stack), ~Is(stack, i, {"section", "gc"})
      PROVE  i \in 1 .. Len(s) /\ s[i] = stack[i]
  <2>1. i # Len(stack)
    BY <1>1, <1>4 DEF Is
  <2>2. i \in 1 .. Len(stack) - 1
    BY <1>1, <2>1
  <2>3. QED
    BY <1>2, <2>2
<1>5. ASSUME NEW i \in 1 .. Len(stack), Is(stack, i, {"catch"}) PROVE i \in 1 .. Len(s) /\ Is(s, i, {"catch"})
  BY <1>4, <1>5 DEF Is
<1>6. inside_err = 1 => hookThrew \/ \E j \in 1 .. Len(s) : Is(s, j, {"err"})
  <2>1. inside_err = 1 => hookThrew \/ \E j \in 1 .. Len(stack) : Is(stack, j, {"err"})
    BY <1>1 DEF FlagsOK, Alive
  <2>2. ASSUME NEW j \in 1 .. Len(stack), Is(stack, j, {"err"}) PROVE j \in 1 .. Len(s) /\ Is(s, j, {"err"})
    BY <1>4, <2>2 DEF Is
  <2>3. QED
    BY <2>1, <2>2
<1>7. QED
  BY <1>2, <1>3, <1>5, <1>6 DEF ErrFrom

LEMMA RestoreStep ==
  ASSUME ControlInv, pc = "run", Top.fn \in {"section", "gc"}, errjmp_ok = 1,
         NEW s, Left(s), Restore(Top.flag, s)
  PROVE  ControlInv'
<1>1. CASE interrupt_differed' = 0 /\ err(s, "error") /\ UNCHANGED alarm
  <2>1. ErrFrom(s)
    BY ErrFromLeft
  <2>2. interrupt_differed' \in Bits /\ alarm' \in {"off", "weak", "sure"} /\ Alive
    BY <1>1 DEF ControlInv, TypeOK, Bits, Alive
  <2>3. QED
    BY <1>1, <2>1, <2>2, ErrStep
<1>2. CASE /\ nointerrupt' = Top.flag /\ stack' = s
           /\ UNCHANGED <<catch_framep, errjmp_ok, interrupt_differed, inside_err, signals, pc, history>>
  BY <1>2, ReturnStep
<1>3. QED
  BY <1>1, <1>2 DEF Restore

LEMMA SectionReturns ==
  ASSUME ControlInv, siod_no_interrupt_flag
  PROVE  ControlInv'
<1>1. pc = "run" /\ Top.fn = "section" /\ Restore(Top.flag, Popped)
  BY DEF siod_no_interrupt_flag, Running
<1>2. errjmp_ok = 1
  BY <1>1, Calling
<1>3. Left(Popped)
  BY DEF Left
<1>4. QED
  BY <1>1, <1>2, <1>3, RestoreStep

LEMMA CollectionReturns ==
  ASSUME ControlInv, GcReturns
  PROVE  ControlInv'
<1>1. /\ pc = "run" /\ Top.fn = "gc" /\ Top.phase = "done"
      /\ Restore(Top.flag, Popped) \/ Restore(Top.flag, Append(Popped, Hook))
  BY DEF GcReturns, Running
<1>2. errjmp_ok = 1
  BY <1>1 DEF ControlInv, FlagsOK, TypeOK, Bits, Top
<1>3. Left(Popped) /\ Left(Append(Popped, Hook))
  BY <1>1 DEF Left
<1>4. QED
  BY <1>1, <1>2, <1>3, RestoreStep

(* The stack as a collection ends. *)
LEMMA DoneStack ==
  ASSUME ControlInv, GcEnds
  PROVE  /\ Len(stack) \in Nat \ {0} /\ Top = stack[Len(stack)]
         /\ Top \in [fn : {"gc"}, flag : Bits, phase : {"mark", "done"}]
         /\ stack' \in Seq(Activations) /\ Len(stack') = Len(stack)
         /\ \A i \in 1 .. Len(stack) : i # Len(stack) => stack'[i] = stack[i]
         /\ stack'[Len(stack)] = [Top EXCEPT !.phase = "done"]
<1> DEFINE n == Len(stack)
           t == [stack EXCEPT ![n].phase = "done"]
<1>1. Running({"gc"}) /\ stack' = t
  BY DEF GcEnds
<1>2. /\ stack \in Seq(Activations) /\ n \in Nat \ {0} /\ n \in 1 .. n
      /\ Top = stack[n] /\ Top \in Activations
  BY <1>1, StackFacts DEF ControlInv, PcOK, Running
<1>3. Top \in [fn : {"gc"}, flag : Bits, phase : {"mark", "done"}]
  BY <1>1, <1>2, ActivationFacts DEF Running
<1>4. [Top EXCEPT !.phase = "done"] \in Activations
  BY <1>3 DEF Activations
<1>5. t = [stack EXCEPT ![n] = [Top EXCEPT !.phase = "done"]]
  BY <1>2
<1>6. t \in Seq(Activations) /\ Len(t) = n /\ \A i \in 1 .. n : i # n => t[i] = stack[i]
  BY <1>2, <1>4, <1>5, ExceptSeq
<1>7. t[n] = [Top EXCEPT !.phase = "done"]
  BY <1>2, <1>5
<1>8. QED
  BY <1>1, <1>2, <1>3, <1>6, <1>7

LEMMA CollectionEnds ==
  ASSUME ControlInv, GcEnds
  PROVE  ControlInv'
<1> DEFINE n == Len(stack)
           t == stack'
<1>1. /\ pc = "run" /\ Top.fn = "gc" /\ errjmp_ok' = 1
      /\ UNCHANGED <<catch_framep, nointerrupt, interrupt_differed, inside_err, signals, pc, history>>
  BY DEF GcEnds, Running
<1>2. /\ n > 0 /\ n \in Nat \ {0} /\ Top = stack[n]
      /\ PcOK /\ FlagsOK /\ TypeOK /\ StackOK(stack, hookCaught, hookThrew)
      /\ Inner(stack, catch_framep, n) /\ n \in 1 .. n
  BY <1>1, StackFacts DEF ControlInv, PcOK
<1>3. /\ Top \in [fn : {"gc"}, flag : Bits, phase : {"mark", "done"}]
      /\ t \in Seq(Activations) /\ Len(t) = n /\ \A i \in 1 .. n : i # n => t[i] = stack[i]
      /\ t[n] = [Top EXCEPT !.phase = "done"]
  BY DoneStack
<1>8. \A i \in 1 .. n : Like(stack, t, i)
  BY <1>1, <1>2, <1>3 DEF Like
<1>9. Inner(t, catch_framep, n)
  BY <1>2, <1>8, InnerLike
<1>10. ASSUME NEW i \in 1 .. n PROVE FrameOK(t, hookCaught, hookThrew, i)
  <2>1. FrameOK(stack, hookCaught, hookThrew, i) /\ i \in Nat \ {0}
    BY <1>2 DEF StackOK
  <2>2. \A j \in 1 .. i : Like(stack, t, j)
    BY <1>2, <1>8
  <2>3. QED
    BY <2>1, <2>2, FrameLike
<1>11. /\ interrupt_differed' = interrupt_differed /\ inside_err' = inside_err /\ sigint' = sigint
       /\ osigint' = osigint /\ alarm' = alarm /\ hookCaught' = hookCaught /\ hookThrew' = hookThrew
       /\ pc' = pc /\ catch_framep' = catch_framep /\ nointerrupt' = nointerrupt /\ errjmp_ok' = 1
  BY <1>1 DEF signals, history
<1>12. TypeOK'
  BY <1>1, <1>2, <1>3, <1>11 DEF TypeOK, Bits
<1>13. StackOK(stack, hookCaught, hookThrew)'
  BY <1>1, <1>3, <1>10, <1>11 DEF StackOK
<1>14. \A fns : \A i \in 1 .. n : Is(t, i, fns) <=> Is(stack, i, fns)
  BY <1>8 DEF Like, Is
<1>15. PcOK'
  BY <1>1, <1>2, <1>3, <1>9, <1>11, <1>14 DEF PcOK
<1>16. FlagsOK'
  <2>1. ~InJump /\ ~InJump'
    BY <1>1, <1>2, <1>3, <1>14 DEF InJump, Is
  <2>2. nointerrupt = 1
    BY <1>1, <1>2 DEF FlagsOK, Is
  <2>3. \E j \in 1 .. n : Is(t, j, {"section", "gc", "err"})
    BY <1>1, <1>2, <1>14 DEF Is
  <2>4. inside_err = 1 => hookThrew \/ \E j \in 1 .. n : Is(stack, j, {"err"})
    BY <1>1, <1>2 DEF FlagsOK, Alive
  <2>5. inside_err' = 1 => hookThrew \/ \E j \in 1 .. n : Is(t, j, {"err"})
    BY <1>11, <1>14, <2>4
  <2>6. QED
    BY <1>1, <1>3, <1>11, <2>1, <2>2, <2>3, <2>5 DEF FlagsOK, Idle
<1>17. QED
  BY <1>12, <1>13, <1>15, <1>16 DEF ControlInv

-----------------------------------------------------------------------------
(* Jumps. *)

LEMMA Weaken ==
  ASSUME NEW s \in Seq(Activations), NEW hc, NEW ht, NEW hc2, NEW ht2, hc => hc2, ht => ht2,
         StackOK(s, hc, ht)
  PROVE  StackOK(s, hc2, ht2)
<1>1. ASSUME NEW i \in 1 .. Len(s) PROVE FrameOK(s, hc2, ht2, i)
  <2>1. FrameOK(s, hc, ht, i) /\ i \in Nat \ {0}
    BY LenProperties DEF StackOK
  <2>2. \A j \in 1 .. i : Like(s, s, j)
    BY LikeSelf
  <2>3. QED
    BY <2>1, <2>2, FrameLike
<1>2. QED
  BY <1>1 DEF StackOK

LEMMA LandStep ==
  ASSUME ControlInv, pc = "run", NEW l \in 1 .. Len(stack), Is(stack, l, {"catch"}), Land(l),
         errjmp_ok = 1, UNCHANGED <<flags, signals, hookCaught>>,
         hookThrew' \in BOOLEAN, hookThrew => hookThrew',
         nointerrupt = 0 => hookCaught \/ \A j \in 1 .. l : ~Is(stack, j, {"section"}),
         nointerrupt = 1 => hookThrew' \/ \E j \in 1 .. l : Is(stack, j, {"section", "gc", "err"}),
         inside_err = 1 => hookThrew' \/ \E j \in 1 .. l : Is(stack, j, {"err"})
  PROVE  ControlInv'
<1>1. stack' = SubSeq(stack, 1, l) /\ catch_framep' = l /\ pc' = "caught"
  BY DEF Land
<1>2. /\ interrupt_differed' = interrupt_differed /\ inside_err' = inside_err /\ sigint' = sigint
      /\ osigint' = osigint /\ alarm' = alarm /\ hookCaught' = hookCaught
      /\ nointerrupt' = nointerrupt /\ errjmp_ok' = 1
  BY DEF signals, flags
<1>3. /\ stack \in Seq(Activations) /\ Len(stack) \in Nat /\ PcOK /\ TypeOK
      /\ StackOK(stack, hookCaught, hookThrew)
  BY LenProperties DEF ControlInv, TypeOK
<1>4. l \in 0 .. Len(stack) /\ l \in Nat \ {0}
  BY <1>3
<1>5. /\ stack' \in Seq(Activations) /\ Len(stack') = l /\ \A i \in 1 .. l : stack'[i] = stack[i]
      /\ StackOK(stack', hookCaught, hookThrew)
  BY <1>1, <1>3, <1>4, CutOK
<1>6. StackOK(stack', hookCaught, hookThrew')
  BY <1>5, Weaken
<1>7. StackOK(stack, hookCaught, hookThrew)'
  BY <1>2, <1>6
<1>8. l \in Positions
  BY <1>3, <1>4, DepthFacts DEF TypeOK
<1>9. TypeOK'
  BY <1>1, <1>2, <1>3, <1>5, <1>8 DEF TypeOK, Bits
<1>10. \A fns : \A i \in 1 .. l : Is(stack', i, fns) <=> Is(stack, i, fns)
  BY <1>5 DEF Is
<1>11. 1 \in 1 .. l /\ l \in 1 .. l
  BY <1>4
<1>12. Is(stack', 1, {"driver"})
  BY <1>3, <1>10, <1>11 DEF PcOK
<1>13. Inner(stack', catch_framep', Len(stack'))
  BY <1>1, <1>4, <1>5, <1>10, <1>11 DEF Inner
<1>14. PcOK'
  BY <1>1, <1>4, <1>5, <1>10, <1>11, <1>12, <1>13 DEF PcOK
<1>15. FlagsOK'
  BY <1>1, <1>2, <1>5, <1>10 DEF FlagsOK, Idle, InJump
<1>16. QED
  BY <1>7, <1>9, <1>14, <1>15 DEF ControlInv

LEMMA ErrJumpsStep ==
  ASSUME ControlInv, ErrJumps
  PROVE  ControlInv'
<1>1. /\ pc = "run" /\ Top.fn = "err" /\ Top.phase = "jump" /\ Land(Top.frame)
      /\ UNCHANGED <<flags, signals, history>>
  BY DEF ErrJumps, Running
<1>2. /\ Len(stack) > 0 /\ stack \in Seq(Activations) /\ Len(stack) \in Nat \ {0}
      /\ Top = stack[Len(stack)] /\ FlagsOK /\ TypeOK
      /\ FrameOK(stack, hookCaught, hookThrew, Len(stack))
  BY <1>1, StackFacts DEF ControlInv, PcOK
<1>3. nointerrupt = 0 /\ inside_err = 0 /\ errjmp_ok = 1
  BY <1>1, <1>2 DEF FlagsOK, InJump, Is, TypeOK, Bits
<1>4. /\ Top.frame \in 1 .. Len(stack) - 1 /\ Is(stack, Top.frame, {"catch"})
      /\ hookCaught \/ \A j \in 1 .. Top.frame - 1 : ~Is(stack, j, {"section"})
  BY <1>1, <1>2 DEF FrameOK, LinkOK, ErrOK, Is
<1>5. Top.frame \in 1 .. Len(stack)
  BY <1>2, <1>4
<1>6. hookCaught \/ \A j \in 1 .. Top.frame : ~Is(stack, j, {"section"})
  <2>1. \A j \in 1 .. Top.frame : j = Top.frame \/ j \in 1 .. Top.frame - 1
    BY <1>5
  <2>2. QED
    BY <1>4, <2>1 DEF Is
<1>7. UNCHANGED <<flags, signals, hookCaught>> /\ hookThrew' = hookThrew /\ hookThrew \in BOOLEAN
  BY <1>1, <1>2 DEF history, TypeOK
<1>8. QED
  BY <1>1, <1>3, <1>4, <1>5, <1>6, <1>7, LandStep

(* What a throw leaves behind it leaves by way of a hook.                   *)
LEMMA LeavesByHook ==
  ASSUME ControlInv, EvaluatesLisp, NEW l \in 1 .. Len(stack), NEW j \in 1 .. Len(stack), l < j,
         Is(stack, j, {"section", "err"})
  PROVE  HookInside({"section", "err"}, l, Len(stack) + 1)
<1>1. pc = "run" /\ Top.fn \in {"driver", "catch", "hook"}
  BY LispCalls
<1>2. /\ Len(stack) > 0 /\ stack \in Seq(Activations) /\ Len(stack) \in Nat \ {0}
      /\ Top = stack[Len(stack)] /\ StackOK(stack, hookCaught, hookThrew)
      /\ FrameOK(stack, hookCaught, hookThrew, Len(stack))
      /\ Len(stack) \in 1 .. Len(stack)
  BY <1>1, StackFacts DEF ControlInv, PcOK
<1>3. j # Len(stack)
  BY <1>1, <1>2 DEF Is
<1>4. j < Len(stack) /\ l \in Nat /\ j \in Nat /\ Len(stack) > 1
  BY <1>2, <1>3
<1>5. \E h \in 1 .. Len(stack) : j < h /\ stack[h].fn = "hook"
  <2>1. CASE Top.fn = "hook"
    BY <1>2, <1>4, <2>1
  <2>2. CASE Top.fn = "catch"
    BY <1>2, <1>4, <2>2, HookBetween DEF Is
  <2>3. CASE Top.fn = "driver"
    BY <1>2, <1>4, <2>3 DEF FrameOK, CallerOK, Is
  <2>4. QED
    BY <1>1, <2>1, <2>2, <2>3
<1>6. QED
  BY <1>2, <1>4, <1>5 DEF HookInside, At, Is

LEMMA ThrowStep ==
  ASSUME ControlInv, EvaluatesLisp, NEW tags, ThrowTo(Search(tags))
  PROVE  ControlInv'
<1> DEFINE l == Search(tags)
<1>1. /\ pc = "run" /\ Top.fn \in {"driver", "catch", "hook"}
  BY LispCalls
<1>2. /\ Len(stack) > 0 /\ errjmp_ok = 1
      /\ Inner(stack, catch_framep, Len(stack))
      /\ nointerrupt = 0 => hookCaught \/ \A j \in 1 .. Len(stack) : ~Is(stack, j, {"section"})
      /\ nointerrupt = 1 => hookThrew \/ \E j \in 1 .. Len(stack) : Is(stack, j, {"section", "err"})
      /\ inside_err = 1 => hookThrew \/ \E j \in 1 .. Len(stack) : Is(stack, j, {"err"})
  BY <1>1, Calling
<1>3. /\ l # NULL /\ Land(l)
      /\ hookThrew' = (hookThrew \/ HookInside({"section", "err"}, l, Len(stack) + 1))
      /\ UNCHANGED <<flags, signals, hookCaught>>
  BY DEF ThrowTo
<1>4. l \in 1 .. Len(stack) /\ Is(stack, l, {"catch"}) /\ Len(stack) \in Nat
  BY <1>2, <1>3, SearchFacts, LenProperties DEF ControlInv, TypeOK
<1> HIDE DEF l
<1>5. hookThrew' \in BOOLEAN /\ (hookThrew => hookThrew')
  BY <1>3 DEF ControlInv, TypeOK
<1>6. ASSUME NEW j \in 1 .. Len(stack), Is(stack, j, {"section", "err"})
      PROVE  hookThrew' \/ j \in 1 .. l
  <2>1. CASE l < j
    BY <1>3, <1>4, <1>6, <2>1, LeavesByHook
  <2>2. CASE ~(l < j)
    BY <1>4, <2>2
  <2>3. QED
    BY <2>1, <2>2
<1>7. nointerrupt = 0 => hookCaught \/ \A j \in 1 .. l : ~Is(stack, j, {"section"})
  BY <1>2, <1>4
<1>8. nointerrupt = 1 => hookThrew' \/ \E j \in 1 .. l : Is(stack, j, {"section", "gc", "err"})
  BY <1>2, <1>5, <1>6 DEF Is
<1>9. inside_err = 1 => hookThrew' \/ \E j \in 1 .. l : Is(stack, j, {"err"})
  BY <1>2, <1>5, <1>6 DEF Is
<1>10. QED
  BY <1>1, <1>2, <1>3, <1>4, <1>5, <1>7, <1>8, <1>9, LandStep

(* The stack err leaves when it has set the value the frame is to return.   *)
LEMMA RetvalStack ==
  ASSUME ControlInv, ErrSetsRetval
  PROVE  /\ Top \in Activations /\ Len(stack) \in Nat \ {0} /\ Top = stack[Len(stack)]
         /\ Top \in [fn : {"err"}, given : BOOLEAN, was_inside : Bits, frame : Positions, phase : {"cons", "jump"}]
         /\ FrameOK(stack, hookCaught, hookThrew, Len(stack))
         /\ Top.frame \in 1 .. Len(stack) - 1 /\ stack[Top.frame].fn = "catch" /\ Top.frame \in Nat
         /\ stack[Top.frame] \in
              [fn : {"catch"}, tag : Tags, next : Positions, retval : {"none", "nil", "error"}]
         /\ stack' \in Seq(Activations) /\ Len(stack') = Len(stack)
         /\ \A i \in 1 .. Len(stack) : i # Len(stack) /\ i # Top.frame => stack'[i] = stack[i]
         /\ stack'[Top.frame] = [stack[Top.frame] EXCEPT !.retval = Retval]
         /\ stack'[Len(stack)] = [Top EXCEPT !.phase = "jump"]
<1> DEFINE n == Len(stack)
           l == Top.frame
           t == [stack EXCEPT ![l].retval = Retval, ![n].phase = "jump"]
<1>1. /\ pc = "run" /\ Top.fn = "err" /\ Top.phase = "cons" /\ stack' = t
      /\ nointerrupt' = 0 /\ inside_err' = 0
      /\ hookCaught' = (hookCaught \/ HookInside({"section"}, 0, l))
      /\ UNCHANGED <<catch_framep, errjmp_ok, interrupt_differed, signals, pc, hookThrew>>
  BY DEF ErrSetsRetval, Running
<1>2. /\ n > 0 /\ Top \in Activations /\ stack \in Seq(Activations) /\ n \in Nat \ {0}
      /\ Top = stack[n] /\ PcOK /\ FlagsOK /\ TypeOK /\ StackOK(stack, hookCaught, hookThrew)
      /\ Inner(stack, catch_framep, n) /\ n \in 1 .. n
      /\ FrameOK(stack, hookCaught, hookThrew, n)
  BY <1>1, StackFacts DEF ControlInv, PcOK
<1>3. /\ Top \in [fn : {"err"}, given : BOOLEAN, was_inside : Bits, frame : Positions, phase : {"cons", "jump"}]
  BY <1>1, <1>2, ActivationFacts
<1>4. l \in 1 .. n - 1 /\ stack[l].fn = "catch"
  BY <1>1, <1>2 DEF FrameOK, LinkOK, Is
<1>5. l \in 1 .. n /\ l # n /\ l \in Nat
  BY <1>2, <1>4
<1>6. stack[l] \in [fn : {"catch"}, tag : Tags, next : Positions, retval : {"none", "nil", "error"}]
  BY <1>2, <1>4, <1>5, ElementOfSeq, ActivationFacts
<1>7. [stack[l] EXCEPT !.retval = Retval] \in Activations
  BY <1>6 DEF Retval, Activations
<1>8. [Top EXCEPT !.phase = "jump"] \in Activations
  BY <1>3 DEF Activations
<1> DEFINE u == [stack EXCEPT ![l] = [stack[l] EXCEPT !.retval = Retval]]
<1>9. u \in Seq(Activations) /\ Len(u) = n /\ \A i \in 1 .. n : i # l => u[i] = stack[i]
  BY <1>2, <1>5, <1>7, ExceptSeq
<1>10. u[l] = [stack[l] EXCEPT !.retval = Retval] /\ u[n] = Top
  BY <1>2, <1>5, <1>9
<1>11. t = [u EXCEPT ![n] = [Top EXCEPT !.phase = "jump"]]
  BY <1>2, <1>5, <1>10
<1> HIDE DEF u
<1> DEFINE b == [Top EXCEPT !.phase = "jump"]
<1>12. /\ t \in Seq(Activations) /\ Len(t) = n /\ \A i \in 1 .. n : i # n => t[i] = u[i]
       /\ t[n] = [Top EXCEPT !.phase = "jump"]
  <2>1. u \in Seq(Activations) /\ n \in 1 .. Len(u) /\ b \in Activations /\ t = [u EXCEPT ![n] = b]
    BY <1>2, <1>8, <1>9, <1>11
  <2> HIDE DEF t, b, n
  <2>2. t \in Seq(Activations) /\ Len(t) = Len(u) /\ \A i \in 1 .. Len(u) : t[i] = IF i = n THEN b ELSE u[i]
    BY <2>1, ExceptSeq
  <2>3. QED
    BY <1>2, <1>9, <2>1, <2>2 DEF b
<1>13. t[n] = [Top EXCEPT !.phase = "jump"]
  BY <1>12
<1>14. /\ \A i \in 1 .. n : i # n /\ i # l => t[i] = stack[i]
       /\ t[l] = [stack[l] EXCEPT !.retval = Retval]
  BY <1>5, <1>9, <1>10, <1>12
<1> HIDE DEF t
<1>15. QED
  BY <1>1, <1>2, <1>3, <1>4, <1>5, <1>6, <1>12, <1>13, <1>14

LEMMA ErrSetsRetvalStep ==
  ASSUME ControlInv, ErrSetsRetval
  PROVE  ControlInv'
<1> DEFINE n == Len(stack)
           l == Top.frame
           t == stack'
<1>1. /\ pc = "run" /\ Top.fn = "err" /\ Top.phase = "cons"
      /\ nointerrupt' = 0 /\ inside_err' = 0
      /\ hookCaught' = (hookCaught \/ HookInside({"section"}, 0, l))
      /\ UNCHANGED <<catch_framep, errjmp_ok, interrupt_differed, signals, pc, hookThrew>>
  BY DEF ErrSetsRetval, Running
<1>2. /\ n > 0 /\ Top \in Activations /\ stack \in Seq(Activations) /\ n \in Nat \ {0}
      /\ Top = stack[n] /\ PcOK /\ FlagsOK /\ TypeOK /\ StackOK(stack, hookCaught, hookThrew)
      /\ Inner(stack, catch_framep, n) /\ n \in 1 .. n
      /\ FrameOK(stack, hookCaught, hookThrew, n)
  BY <1>1, StackFacts DEF ControlInv, PcOK
<1>3. /\ Top \in [fn : {"err"}, given : BOOLEAN, was_inside : Bits, frame : Positions, phase : {"cons", "jump"}]
      /\ l \in 1 .. n - 1 /\ stack[l].fn = "catch"
      /\ stack[l] \in [fn : {"catch"}, tag : Tags, next : Positions, retval : {"none", "nil", "error"}]
      /\ t \in Seq(Activations) /\ Len(t) = n
      /\ \A i \in 1 .. n : i # n /\ i # l => t[i] = stack[i]
      /\ t[l] = [stack[l] EXCEPT !.retval = Retval]
      /\ t[n] = [Top EXCEPT !.phase = "jump"]
  BY RetvalStack
<1>4. l \in 1 .. n - 1 /\ stack[l].fn = "catch"
  BY <1>3
<1>5. l \in 1 .. n /\ l # n /\ l \in Nat
  BY <1>2, <1>4
<1>15. \A i \in 1 .. n - 1 : Like(stack, t, i)
  BY <1>2, <1>4, <1>3 DEF Like
<1>16. /\ t[n].fn = "err" /\ t[n].frame = l /\ t[n].was_inside = Top.was_inside /\ t[n].phase = "jump"
  BY <1>1, <1>3
<1>17. \A i \in 1 .. n : t[i].fn = stack[i].fn
  <2>1. \A i \in 1 .. n : i = n \/ i \in 1 .. n - 1
    BY <1>2
  <2>2. QED
    BY <1>1, <1>2, <1>15, <1>16, <2>1 DEF Like
<1>18. \A fns : \A i \in 1 .. n : Is(t, i, fns) <=> Is(stack, i, fns)
  BY <1>17 DEF Is
<1>19. hookCaught' \in BOOLEAN /\ (hookCaught => hookCaught') /\ hookThrew' = hookThrew
  BY <1>1, <1>2 DEF TypeOK
<1>20. hookCaught' \/ \A j \in 1 .. l - 1 : ~Is(stack, j, {"section"})
  <2>1. SUFFICES ASSUME NEW j \in 1 .. l - 1, Is(stack, j, {"section"}) PROVE HookInside({"section"}, 0, l)
    BY <1>1
  <2>2. j \in 1 .. Len(stack) /\ j < l /\ 0 < j
    BY <1>5
  <2>3. \E h \in 1 .. Len(stack) : j < h /\ h < l /\ stack[h].fn = "hook"
    BY <1>2, <1>4, <1>5, <2>1, <2>2, HookBetween DEF Is
  <2>4. QED
    BY <2>1, <2>2, <2>3 DEF HookInside, At, Is
<1>21. ASSUME NEW i \in 1 .. n PROVE FrameOK(t, hookCaught', hookThrew, i)
  <2>1. CASE i # n
    <3>1. FrameOK(stack, hookCaught, hookThrew, i) /\ i \in Nat \ {0}
      BY <1>2 DEF StackOK
    <3>2. \A j \in 1 .. i : Like(stack, t, j)
      BY <1>2, <1>15, <2>1
    <3>3. QED
      BY <1>19, <3>1, <3>2, FrameLike
  <2>2. CASE i = n
    <3>1. CallerOK(t, n)
      <4>1. n > 1 => n - 1 \in 1 .. n
        BY <1>2
      <4>2. QED
        BY <1>2, <1>16, <1>18, <4>1 DEF FrameOK, CallerOK, Is
    <3>2. LinkOK(t, n)
      BY <1>4, <1>5, <1>16, <1>17 DEF LinkOK, Is
    <3>3. FlagOK(t, hookCaught', hookThrew, n)
      BY <1>16 DEF FlagOK, Is
    <3>4. ErrOK(t, hookCaught', hookThrew, n)
      <4>1. Top.was_inside = 1 => hookThrew \/ \E j \in 1 .. n - 1 : Is(stack, j, {"err"})
        BY <1>1, <1>2 DEF FrameOK, ErrOK, Is
      <4>2. \A j \in 1 .. n - 1 : j \in 1 .. n
        BY <1>2
      <4>3. \A j \in 1 .. l - 1 : j \in 1 .. n
        BY <1>2, <1>5
      <4>4. hookCaught' \/ \A j \in 1 .. l - 1 : ~Is(t, j, {"section"})
        BY <1>18, <1>20, <4>3
      <4>5. Top.was_inside = 1 => hookThrew \/ \E j \in 1 .. n - 1 : Is(t, j, {"err"})
        BY <1>18, <4>1, <4>2
      <4>6. QED
        BY <1>16, <4>4, <4>5 DEF ErrOK
    <3>5. QED
      BY <2>2, <3>1, <3>2, <3>3, <3>4 DEF FrameOK
  <2>3. QED
    BY <2>1, <2>2
<1>22. StackOK(stack, hookCaught, hookThrew)'
  BY <1>1, <1>3, <1>19, <1>21 DEF StackOK
<1>23. /\ interrupt_differed' = interrupt_differed /\ sigint' = sigint
       /\ osigint' = osigint /\ alarm' = alarm
       /\ pc' = pc /\ catch_framep' = catch_framep /\ errjmp_ok' = errjmp_ok
  BY <1>1 DEF signals
<1>24. TypeOK'
  BY <1>1, <1>2, <1>3, <1>19, <1>23 DEF TypeOK, Bits
<1>25. Inner(t, catch_framep, n)
  BY <1>2, <1>18 DEF Inner
<1>26. PcOK'
  BY <1>1, <1>2, <1>3, <1>18, <1>23, <1>25 DEF PcOK
<1>27. InJump'
  BY <1>1, <1>3, <1>16, <1>23 DEF InJump, Is
<1>28. errjmp_ok = 1
  BY <1>1, <1>2 DEF FlagsOK, TypeOK, Bits, Is
<1>29. FlagsOK'
  BY <1>1, <1>3, <1>16, <1>23, <1>27, <1>28 DEF FlagsOK, Idle, Is
<1>30. QED
  BY <1>22, <1>24, <1>26, <1>29 DEF ControlInv

-----------------------------------------------------------------------------
(* Errors, signals, the driver. *)

LEMMA SameStep ==
  ASSUME ControlInv, UNCHANGED <<stack, catch_framep, errjmp_ok, nointerrupt, inside_err, pc, history>>,
         interrupt_differed' \in Bits, sigint' \in {"default", "siod"}, osigint' \in {"default", "siod"},
         alarm' \in {"off", "weak", "sure"}
  PROVE  ControlInv'
<1>1. TypeOK'
  BY DEF ControlInv, TypeOK, history
<1>2. StackOK(stack, hookCaught, hookThrew)'
  BY DEF ControlInv, history
<1>3. PcOK'
  BY DEF ControlInv, PcOK
<1>4. FlagsOK'
  <2>1. InJump' <=> InJump
    BY DEF InJump
  <2>2. QED
    BY <2>1 DEF ControlInv, FlagsOK, history, Idle, Alive
<1>5. QED
  BY <1>1, <1>2, <1>3, <1>4 DEF ControlInv

LEMMA LispErr ==
  ASSUME ControlInv, EvaluatesLisp \/ Running({"section"}) \/ Consing,
         NEW how \in {"error", "reraise", "quit"}, err(stack, how), UNCHANGED <<interrupt_differed, alarm>>
  PROVE  ControlInv'
<1>1. pc = "run" /\ Top.fn # "gc" /\ Alive
  BY LispCalls
<1>2. ErrFrom(stack)
  BY <1>1, ErrFromStack
<1>3. interrupt_differed' \in Bits /\ alarm' \in {"off", "weak", "sure"}
  BY DEF ControlInv, TypeOK
<1>4. QED
  BY <1>1, <1>2, <1>3, ErrStep

LEMMA LthrowStep ==
  ASSUME ControlInv, NEW tag, siod_lthrow(tag)
  PROVE  ControlInv'
<1>1. EvaluatesLisp
  BY DEF siod_lthrow
<1>2. CASE ThrowTo(Search({tag, catchall}))
  BY <1>1, <1>2, ThrowStep
<1>3. CASE err(stack, "error") /\ UNCHANGED <<interrupt_differed, alarm>>
  BY <1>1, <1>3, LispErr
<1>4. QED
  BY <1>2, <1>3 DEF siod_lthrow

LEMMA ErrorStep ==
  ASSUME ControlInv, Error \/ Reraise \/ siod_quit
  PROVE  ControlInv'
<1>1. CASE Error
  BY <1>1, LispErr DEF Error
<1>2. CASE Reraise
  BY <1>2, LispErr DEF Reraise
<1>3. CASE siod_quit
  BY <1>3, LispErr DEF siod_quit
<1>4. QED
  BY <1>1, <1>2, <1>3

LEMMA StartupErrorStep ==
  ASSUME ControlInv, StartupError
  PROVE  ControlInv'
<1>1. /\ pc = "out" /\ errjmp_ok = 0 /\ err(stack, "error") /\ UNCHANGED <<interrupt_differed, alarm>>
  BY DEF StartupError
<1>2. Alive
  BY <1>1 DEF Alive
<1>3. ErrFrom(stack)
  BY <1>1, <1>2, ErrFromStack
<1>4. interrupt_differed' \in Bits /\ alarm' \in {"off", "weak", "sure"}
  BY <1>1 DEF ControlInv, TypeOK
<1>5. QED
  BY <1>1, <1>2, <1>3, <1>4, ErrStep

LEMMA SignalErr ==
  ASSUME ControlInv, Alive, nointerrupt = 0, err(stack, "error"), UNCHANGED interrupt_differed,
         alarm' \in {"off", "weak", "sure"}
  PROVE  ControlInv'
<1>1. ErrFrom(stack)
  BY ErrFromStack
<1>2. interrupt_differed' \in Bits
  BY DEF ControlInv, TypeOK
<1>3. QED
  BY <1>1, <1>2, ErrStep

LEMMA SigintStep ==
  ASSUME ControlInv, siod_handle_sigint
  PROVE  ControlInv'
<1>1. Alive /\ UNCHANGED alarm
  BY DEF siod_handle_sigint
<1>2. TypeOK
  BY DEF ControlInv
<1>3. CASE /\ interrupt_differed' = 1
           /\ UNCHANGED <<stack, catch_framep, errjmp_ok, nointerrupt, inside_err, pc, sigint, osigint, history>>
  <2>1. interrupt_differed' \in Bits /\ alarm' \in {"off", "weak", "sure"}
        /\ sigint' \in {"default", "siod"} /\ osigint' \in {"default", "siod"}
    BY <1>1, <1>2, <1>3 DEF TypeOK, Bits
  <2>2. QED
    BY <1>3, <2>1, SameStep
<1>4. CASE nointerrupt = 0 /\ err(stack, "error") /\ UNCHANGED interrupt_differed
  <2>1. alarm' \in {"off", "weak", "sure"}
    BY <1>1, <1>2 DEF TypeOK
  <2>2. QED
    BY <1>1, <1>4, <2>1, SignalErr
<1>5. QED
  BY <1>3, <1>4 DEF siod_handle_sigint

LEMMA SigalrmStep ==
  ASSUME ControlInv, siod_handle_sigalrm
  PROVE  ControlInv'
<1>1. Alive /\ alarm' = "off"
  BY DEF siod_handle_sigalrm
<1>2. TypeOK
  BY DEF ControlInv
<1>3. CASE /\ interrupt_differed' = IF alarm = "sure" THEN 1 ELSE interrupt_differed
           /\ UNCHANGED <<stack, catch_framep, errjmp_ok, nointerrupt, inside_err, pc, sigint, osigint, history>>
  <2>1. interrupt_differed' \in Bits /\ alarm' \in {"off", "weak", "sure"}
        /\ sigint' \in {"default", "siod"} /\ osigint' \in {"default", "siod"}
    BY <1>1, <1>2, <1>3 DEF TypeOK, Bits
  <2>2. QED
    BY <1>3, <2>1, SameStep
<1>4. CASE nointerrupt = 0 /\ err(stack, "error") /\ UNCHANGED interrupt_differed
  <2>1. alarm' \in {"off", "weak", "sure"}
    BY <1>1
  <2>2. QED
    BY <1>1, <1>4, <2>1, SignalErr
<1>5. QED
  BY <1>3, <1>4 DEF siod_handle_sigalrm

LEMMA AlarmStep ==
  ASSUME ControlInv, NEW how \in {"weak", "sure"}, siod_lalarm(how)
  PROVE  ControlInv'
<1>1. /\ alarm' = how /\ UNCHANGED <<stack, catch_framep, flags, sigint, osigint, pc, history>>
  BY DEF siod_lalarm
<1>2. UNCHANGED <<stack, catch_framep, errjmp_ok, nointerrupt, inside_err, pc, history>>
  BY <1>1 DEF flags
<1>3. interrupt_differed' \in Bits /\ alarm' \in {"off", "weak", "sure"}
      /\ sigint' \in {"default", "siod"} /\ osigint' \in {"default", "siod"}
  BY <1>1 DEF flags, ControlInv, TypeOK
<1>4. QED
  BY <1>2, <1>3, SameStep

(* A stack of one driver, or of none. *)
LEMMA DriverAlone ==
  ASSUME NEW s, NEW hc, NEW ht, Len(s) = 0 \/ (Len(s) = 1 /\ Is(s, 1, {"driver"}))
  PROVE  /\ StackOK(s, hc, ht) /\ Inner(s, NULL, Len(s))
         /\ \A j \in 1 .. Len(s) : Is(s, j, {"driver"}) /\ ~Is(s, j, {"section", "gc", "err", "catch"})
         /\ \A j \in 1 .. Len(s) : ~Is(s, j, {"section"}) /\ ~Is(s, j, {"err"})
<1>1. ASSUME NEW j \in 1 .. Len(s) PROVE j = 1 /\ Is(s, j, {"driver"})
  BY <1>1
<1>2. \A j \in 1 .. Len(s) : FrameOK(s, hc, ht, j)
  BY <1>1 DEF FrameOK, CallerOK, LinkOK, FlagOK, ErrOK, Is
<1>3. QED
  BY <1>1, <1>2 DEF StackOK, Inner, Is

LEMMA DriverStarts ==
  ASSUME ControlInv, NEW want \in BOOLEAN, siod_repl_driver(want)
  PROVE  ControlInv'
<1>1. /\ pc = "out" /\ stack' = <<Driver(want)>> /\ pc' = "start"
      /\ UNCHANGED <<catch_framep, flags, signals, history>>
  BY DEF siod_repl_driver
<1>2. TypeOK /\ PcOK /\ FlagsOK
  BY DEF ControlInv
<1>3. stack' \in Seq(Activations) /\ Len(stack') = 1 /\ Is(stack', 1, {"driver"}) /\ 1 \in Positions
  BY <1>1, MakeActivations, DepthFacts DEF Is
<1>4. StackOK(stack', hookCaught', hookThrew')
  BY <1>3, DriverAlone
<1>5. TypeOK'
  BY <1>1, <1>2, <1>3 DEF TypeOK, flags, signals, history
<1>6. PcOK'
  BY <1>1, <1>3 DEF PcOK
<1>7. inside_err = 1 => hookThrew
  <2>1. inside_err = 1 => hookThrew \/ \E j \in 1 .. Len(stack) : Is(stack, j, {"err"})
    BY <1>1, <1>2 DEF FlagsOK, Alive
  <2>2. Len(stack) = 0
    BY <1>1, <1>2 DEF PcOK
  <2>3. QED
    BY <2>1, <2>2
<1>8. FlagsOK'
  BY <1>1, <1>2, <1>7 DEF FlagsOK, Idle, InJump, Alive, flags, history
<1>9. StackOK(stack, hookCaught, hookThrew)'
  BY <1>4
<1>10. QED
  BY <1>5, <1>6, <1>8, <1>9 DEF ControlInv

LEMMA InstallStep ==
  ASSUME ControlInv, InstallHandlers
  PROVE  ControlInv'
<1>1. /\ pc = "start" /\ pc' = "reset" /\ UNCHANGED <<stack, catch_framep, flags, alarm, history>>
  BY DEF InstallHandlers
<1>2. TypeOK /\ PcOK /\ FlagsOK
  BY DEF ControlInv
<1>3. sigint' \in {"default", "siod"} /\ osigint' \in {"default", "siod"}
  BY <1>2 DEF InstallHandlers, TypeOK
<1>4. TypeOK'
  BY <1>1, <1>2, <1>3 DEF TypeOK, flags, history
<1>5. StackOK(stack, hookCaught, hookThrew)'
  BY <1>1 DEF ControlInv, history
<1>6. PcOK'
  BY <1>1, <1>2 DEF PcOK
<1>7. FlagsOK'
  BY <1>1, <1>2 DEF FlagsOK, Idle, InJump, Alive, flags, history
<1>8. QED
  BY <1>4, <1>5, <1>6, <1>7 DEF ControlInv

LEMMA ResetStep ==
  ASSUME ControlInv, ResetState
  PROVE  ControlInv'
<1>1. /\ pc = "reset" /\ pc' = "run" /\ catch_framep' = NULL /\ errjmp_ok' = 1
      /\ interrupt_differed' = 0 /\ nointerrupt' = 0
      /\ hookCaught' = FALSE /\ hookThrew' = (hookThrew /\ inside_err = 1)
      /\ UNCHANGED <<stack, inside_err, signals>>
  BY DEF ResetState
<1>2. TypeOK /\ PcOK /\ FlagsOK
  BY DEF ControlInv
<1>3. Len(stack) = 1 /\ Is(stack, 1, {"driver"})
  BY <1>1, <1>2 DEF PcOK
<1>4. /\ StackOK(stack, hookCaught', hookThrew') /\ Inner(stack, NULL, Len(stack))
      /\ \A j \in 1 .. Len(stack) : ~Is(stack, j, {"section"}) /\ ~Is(stack, j, {"err"})
  BY <1>3, DriverAlone
<1>5. inside_err = 1 => hookThrew
  BY <1>1, <1>2, <1>4 DEF FlagsOK, Alive
<1>6. TypeOK'
  BY <1>1, <1>2, DepthFacts DEF TypeOK, signals, Bits, NULL
<1>7. StackOK(stack, hookCaught, hookThrew)'
  BY <1>1, <1>4
<1>8. PcOK'
  BY <1>1, <1>3, <1>4 DEF PcOK
<1>9. ~Is(stack, Len(stack), {"gc"}) /\ ~Is(stack, Len(stack), {"err"})
  BY <1>3 DEF Is
<1>10. ~Is(stack', Len(stack'), {"gc"}) /\ ~Is(stack', Len(stack'), {"err"}) /\ ~InJump'
  BY <1>1, <1>9 DEF InJump
<1>11. \A j \in 1 .. Len(stack') : ~Is(stack', j, {"section"})
  BY <1>1, <1>4
<1>12. inside_err' = 1 => hookThrew'
  BY <1>1, <1>5
<1>13. FlagsOK'
  BY <1>1, <1>10, <1>11, <1>12 DEF FlagsOK, Idle
<1>14. QED
  BY <1>6, <1>7, <1>8, <1>13 DEF ControlInv

LEMMA DriverReturnsStep ==
  ASSUME ControlInv, DriverReturns
  PROVE  ControlInv'
<1>1. /\ Running({"driver"}) \/ pc = "quit"
      /\ sigint' = IF Top.want_sigint THEN osigint ELSE sigint
      /\ stack' = <<>> /\ pc' = "out"
      /\ UNCHANGED <<catch_framep, flags, osigint, alarm, history>>
  BY DEF DriverReturns
<1>2. TypeOK /\ PcOK /\ FlagsOK
  BY DEF ControlInv
<1>3. /\ Len(stack) > 0 /\ Len(stack) \in Nat \ {0} /\ Is(stack, 1, {"driver"})
      /\ Top = stack[Len(stack)] /\ FrameOK(stack, hookCaught, hookThrew, Len(stack))
  BY <1>1, <1>2, StackFacts DEF PcOK, Running
<1>4. Len(stack) = 1
  <2>1. CASE pc = "quit"
    BY <1>2, <2>1 DEF PcOK
  <2>2. CASE Running({"driver"})
    <3>1. Is(stack, Len(stack), {"driver"})
      BY <1>3, <2>2 DEF Running, Is
    <3>2. ~(Len(stack) > 1)
      BY <1>3, <3>1 DEF FrameOK, CallerOK
    <3>3. \A n \in Nat \ {0} : ~(n > 1) => n = 1
      OBVIOUS
    <3>4. QED
      BY <1>3, <3>2, <3>3
  <2>3. QED
    BY <1>1, <2>1, <2>2
<1>5. \A j \in 1 .. Len(stack) : ~Is(stack, j, {"section"}) /\ ~Is(stack, j, {"err"}) /\ ~Is(stack, j, {"catch"})
  BY <1>3, <1>4, DriverAlone DEF Is
<1>6. nointerrupt = 0 => catch_framep = NULL
  BY <1>1, <1>2, <1>5 DEF FlagsOK, PcOK, Idle, Running, Inner
<1>7. inside_err = 1 => hookThrew
  BY <1>1, <1>2, <1>5 DEF FlagsOK, Alive, Running
<1>8. errjmp_ok = 0 => nointerrupt = 1
  BY <1>2 DEF FlagsOK
<1>9. stack' \in Seq(Activations) /\ Len(stack') = 0 /\ Len(stack') \in Positions
  BY <1>1, DepthFacts
<1>10. TypeOK'
  BY <1>1, <1>2, <1>9 DEF TypeOK, flags, history
<1>11. StackOK(stack', hookCaught', hookThrew')
  BY <1>9, DriverAlone
<1>12. StackOK(stack, hookCaught, hookThrew)'
  BY <1>11
<1>13. PcOK'
  BY <1>1 DEF PcOK
<1>14. FlagsOK'
  BY <1>1, <1>6, <1>7, <1>8 DEF FlagsOK, Idle, InJump, Alive, flags, history
<1>15. QED
  BY <1>10, <1>12, <1>13, <1>14 DEF ControlInv

-----------------------------------------------------------------------------
LEMMA ControlInit ==
  ASSUME Init
  PROVE  ControlInv
<1>1. Len(stack) = 0 /\ stack \in Seq(Activations) /\ NULL \in Positions
  BY DepthFacts DEF Init, NULL
<1>2. TypeOK
  BY <1>1 DEF Init, TypeOK, Bits, NULL
<1>3. StackOK(stack, hookCaught, hookThrew)
  BY <1>1, DriverAlone
<1>4. PcOK /\ FlagsOK
  BY DEF Init, PcOK, FlagsOK, Idle, InJump
<1>5. QED
  BY <1>2, <1>3, <1>4 DEF ControlInv

LEMMA ControlStep ==
  ASSUME ControlInv, [Next]_vars
  PROVE  ControlInv'
<1>1. CASE Program
  <2>1. ASSUME NEW tag \in Tags, siod_leval_catch(tag) \/ siod_lthrow(tag) PROVE ControlInv'
    BY <2>1, CatchStep, LthrowStep
  <2>2. CASE siod_leval_catch_1 \/ Caught
    BY <2>2, CatchReturns, CaughtStep
  <2>3. CASE Error \/ Reraise \/ siod_quit
    BY <2>3, ErrorStep
  <2>4. CASE ErrSetsRetval \/ ErrJumps
    BY <2>4, ErrSetsRetvalStep, ErrJumpsStep
  <2>5. CASE siod_no_interrupt_1 \/ siod_no_interrupt_flag
    BY <2>5, SectionStep, SectionReturns
  <2>6. ASSUME NEW how \in {"weak", "sure"}, siod_lalarm(how) PROVE ControlInv'
    BY <2>6, AlarmStep
  <2>7. CASE siod_gc_for_newcell \/ GcEnds \/ GcReturns \/ HookReturns
    BY <2>7, CollectStep, CollectionEnds, CollectionReturns, HookReturnsStep
  <2>8. CASE InstallHandlers \/ ResetState \/ DriverReturns
    BY <2>8, InstallStep, ResetStep, DriverReturnsStep
  <2>9. QED
    BY <1>1, <2>1, <2>2, <2>3, <2>4, <2>5, <2>6, <2>7, <2>8 DEF Program
<1>2. CASE Caller
  <2>1. CASE StartupError
    BY <2>1, StartupErrorStep
  <2>2. ASSUME NEW want \in Wants, siod_repl_driver(want) PROVE ControlInv'
    BY <2>2, DriverStarts, WantsAssumption
  <2>3. QED
    BY <1>2, <2>1, <2>2 DEF Caller
<1>3. CASE siod_handle_sigint
  BY <1>3, SigintStep
<1>4. CASE siod_handle_sigalrm
  BY <1>4, SigalrmStep
<1>5. CASE UNCHANGED vars
  <2>1. UNCHANGED <<stack, catch_framep, errjmp_ok, nointerrupt, inside_err, pc, history>>
    BY <1>5 DEF vars, flags
  <2>2. /\ interrupt_differed' \in Bits /\ sigint' \in {"default", "siod"}
        /\ osigint' \in {"default", "siod"} /\ alarm' \in {"off", "weak", "sure"}
    BY <1>5 DEF vars, flags, signals, ControlInv, TypeOK
  <2>3. QED
    BY <2>1, <2>2, SameStep
<1>6. QED
  BY <1>1, <1>2, <1>3, <1>4, <1>5 DEF Next

(* ControlInv holds in every reachable state. *)
THEOREM ControlInvInductive == Spec => []ControlInv
BY ControlInit, ControlStep, PTL DEF Spec

-----------------------------------------------------------------------------
(* Every variable of the control state keeps to its type; the C stack never *)
(* holds more than the bound and one err.                                   *)
THEOREM ControlTypesStay == Spec => []TypeOK
<1>1. ControlInv => TypeOK
  BY DEF ControlInv
<1>2. QED
  BY <1>1, ControlInvInductive, PTL

LEMMA InnerInnermost ==
  ASSUME NEW p, NEW n \in Nat, Len(stack) \in Nat, n <= Len(stack), Inner(stack, p, n)
  PROVE  Innermost(p, n)
<1>1. \A q \in 1 .. n : q \in 1 .. Len(stack) /\ q <= n
  OBVIOUS
<1>2. p = NULL \/ (p \in At({"catch"}) /\ p <= n)
  BY <1>1 DEF Inner, At, Is
<1>3. ASSUME NEW q \in At({"catch"}), q <= n PROVE q <= p
  <2>1. q \in 1 .. n /\ Is(stack, q, {"catch"})
    BY <1>3 DEF At, Is
  <2>2. QED
    BY <2>1 DEF Inner
<1>4. QED
  BY <1>2, <1>3 DEF Innermost

(* The list from catch_framep is the catch activations on the C stack, from *)
(* the innermost outwards: *catch, *throw, err and the driver unlink what   *)
(* they leave, whatever they leave.                                         *)
THEOREM FramesStayLinked == Spec => []FramesLinked
<1>1. ControlInv => FramesLinked
  <2>1. SUFFICES ASSUME ControlInv, pc \in {"run", "caught"}
                 PROVE  /\ Innermost(catch_framep, Len(stack))
                        /\ \A p \in At({"catch"}) : Innermost(stack[p].next, p - 1)
    BY DEF FramesLinked
  <2>2. Len(stack) \in Nat /\ Inner(stack, catch_framep, Len(stack))
    BY <2>1, LenProperties DEF ControlInv, TypeOK, PcOK
  <2>3. Innermost(catch_framep, Len(stack))
    BY <2>2, InnerInnermost
  <2>4. ASSUME NEW p \in At({"catch"}) PROVE Innermost(stack[p].next, p - 1)
    <3>1. p \in 1 .. Len(stack) /\ stack[p].fn = "catch" /\ p - 1 \in Nat /\ p - 1 <= Len(stack)
      BY <2>2 DEF At
    <3>2. FrameOK(stack, hookCaught, hookThrew, p)
      BY <2>1, <3>1 DEF ControlInv, StackOK
    <3>3. Inner(stack, stack[p].next, p - 1)
      BY <3>1, <3>2 DEF FrameOK, LinkOK, Is
    <3>4. QED
      BY <2>2, <3>1, <3>3, InnerInnermost
  <2>5. QED
    BY <2>3, <2>4
<1>2. QED
  BY <1>1, ControlInvInductive, PTL

(* err, wherever it or a signal strikes while a driver is active, finds a   *)
(* frame or the driver itself to jump to.                                   *)
THEOREM ErrLands == Spec => []LandsInLiveFrames
<1>1. ControlInv => LandsInLiveFrames
  BY DEF ControlInv, PcOK, LandsInLiveFrames
<1>2. QED
  BY <1>1, ControlInvInductive, PTL

LEMMA CollectionOnTop ==
  ASSUME ControlInv, NEW j \in 1 .. Len(stack), Is(stack, j, {"gc"})
  PROVE  j = Len(stack)
<1>1. Len(stack) \in Nat
  BY LenProperties DEF ControlInv, TypeOK
<1>2. SUFFICES ASSUME j # Len(stack) PROVE FALSE
  OBVIOUS
<1>3. j + 1 \in 1 .. Len(stack) /\ j + 1 > 1 /\ (j + 1) - 1 = j
  BY <1>1, <1>2
<1>4. CallerOK(stack, j + 1)
  BY <1>3 DEF ControlInv, StackOK, FrameOK
<1>5. QED
  BY <1>3, <1>4 DEF CallerOK

(* No signal is raised within a collection or a critical section, nor is    *)
(* err usable within a collection, unless a hook caught an error inside a   *)
(* critical section.                                                        *)
THEOREM SectionsAreShielded == Spec => []Shielded
<1>1. ControlInv => Shielded
  <2>1. SUFFICES ASSUME ControlInv, pc = "run", nointerrupt = 0, Top.fn # "err", ~hookCaught
                 PROVE  errjmp_ok = 1 /\ At({"section", "gc"}) = {}
    <3>1. ControlInv /\ nointerrupt = 0 => errjmp_ok = 1
      BY DEF ControlInv, FlagsOK, TypeOK, Bits
    <3>2. QED
      BY <3>1 DEF Shielded
  <2>2. FlagsOK /\ TypeOK
    BY <2>1 DEF ControlInv
  <2>3. errjmp_ok = 1 /\ ~Is(stack, Len(stack), {"gc"}) /\ ~InJump
    BY <2>1, <2>2 DEF FlagsOK, TypeOK, Bits, InJump, Top, Is
  <2>4. \A j \in 1 .. Len(stack) : ~Is(stack, j, {"section"})
    BY <2>1, <2>2, <2>3 DEF FlagsOK
  <2>5. \A j \in 1 .. Len(stack) : ~Is(stack, j, {"gc"})
    BY <2>1, <2>3, CollectionOnTop
  <2>6. QED
    BY <2>3, <2>4, <2>5 DEF At, Is
<1>2. QED
  BY <1>1, ControlInvInductive, PTL

(* nointerrupt is never left set: what set it is still on the C stack, or a *)
(* hook threw out of it.                                                    *)
THEOREM InterruptsComeBack == Spec => []Responsive
<1>1. ControlInv => Responsive
  <2>1. SUFFICES ASSUME ControlInv, pc = "run", nointerrupt = 1, ~hookThrew
                 PROVE  At({"section", "gc", "err"}) # {}
    BY DEF Responsive
  <2>2. \E j \in 1 .. Len(stack) : Is(stack, j, {"section", "gc", "err"})
    BY <2>1 DEF ControlInv, FlagsOK
  <2>3. QED
    BY <2>2 DEF At, Is
<1>2. QED
  BY <1>1, ControlInvInductive, PTL

LEMMA TwoOf ==
  ASSUME NEW n \in Nat, NEW S, S \subseteq 1 .. n, NEW i \in S, NEW j \in S, i # j
  PROVE  Cardinality(S) > 1
<1>1. IsFiniteSet(1 .. n)
  BY FS_Interval
<1>2. IsFiniteSet(S)
  BY <1>1, FS_Subset
<1>3. IsFiniteSet({i}) /\ Cardinality({i}) = 1
  BY FS_Singleton
<1>4. Cardinality({i} \cup {j}) = Cardinality({i}) + 1 /\ IsFiniteSet({i} \cup {j})
  BY <1>3, FS_AddElement
<1>5. Cardinality({i} \cup {j}) <= Cardinality(S)
  BY <1>2, FS_Subset
<1>6. Cardinality(S) \in Nat
  BY <1>2, FS_CardinalityType
<1>7. QED
  BY <1>3, <1>4, <1>5, <1>6

(* A frame gets NIL for the message of an error only from an err that       *)
(* another err is still waiting for, or after a hook threw out of err.      *)
THEOREM MessagesAreKept == Spec => []MessageLostOnlyWhenNested
<1>1. ControlInv => MessageLostOnlyWhenNested
  <2>1. SUFFICES ASSUME ControlInv, Running({"err"}), Top.was_inside = 1, ~hookThrew
                 PROVE  Cardinality(At({"err"})) > 1
    BY DEF MessageLostOnlyWhenNested
  <2>2. pc = "run" /\ Top.fn = "err"
    BY <2>1 DEF Running
  <2>3. /\ Len(stack) \in Nat \ {0} /\ Len(stack) \in 1 .. Len(stack) /\ Top = stack[Len(stack)]
        /\ FrameOK(stack, hookCaught, hookThrew, Len(stack))
    BY <2>1, <2>2, StackFacts DEF ControlInv, PcOK
  <2>4. PICK j \in 1 .. Len(stack) - 1 : Is(stack, j, {"err"})
    BY <2>1, <2>2, <2>3 DEF FrameOK, ErrOK, Is
  <2>5. j # Len(stack) /\ j \in 1 .. Len(stack)
    BY <2>3
  <2>6. j \in At({"err"}) /\ Len(stack) \in At({"err"}) /\ At({"err"}) \subseteq 1 .. Len(stack)
    BY <2>2, <2>3, <2>4, <2>5 DEF At, Is
  <2>7. QED
    BY <2>3, <2>5, <2>6, TwoOf
<1>2. QED
  BY <1>1, ControlInvInductive, PTL
=============================================================================
