--------------------------- MODULE EvaluatorProofs ---------------------------
(***************************************************************************)
(* Proofs about Evaluator, for every set of programs, with any nesting of   *)
(* forms and values, and interrupts at any step: what is evaluated, bound   *)
(* or waited for is made of frames, closures and lets that exist, and a     *)
(* name changes its value only where it is assigned.                        *)
(*                                                                         *)
(* Values and forms are trees of any depth, and a proof cannot follow one   *)
(* down.  It does not have to: the invariant says that there is a set of    *)
(* values, and one of forms, in which each element has its parts and that   *)
(* has all there is in the state.  A step that makes a value or a form adds *)
(* that one to the set.                                                     *)
(***************************************************************************)
EXTENDS Evaluator, TLAPS, WellFoundedInduction

-----------------------------------------------------------------------------
(* The sets that have all values, and all forms. *)
Constants == Literals \union {NIL} \union {[t |-> "symbol", name |-> n] : n \in Names}
Markers == {NIL, T, Unbound, Error}
ValueTypes == {"nil", "t", "unbound", "error", "flonum", "symbol", "list", "closure", "subr"}

IsValue(v, values, n) ==
  /\ v.t \in ValueTypes
  /\ v.t = "closure" => v.id \in 1 .. n
  /\ v.t = "list" => v.items \in Seq(values) /\ v.items # <<>>
  /\ v.t = "subr" => v \in Builtins

AllValues(values, n) ==
  /\ Markers \subseteq values /\ Constants \subseteq values /\ Builtins \subseteq values
  /\ \A v \in values : IsValue(v, values, n)

AllTexts(texts, n) ==
  /\ \A c \in Constants : Const(c) \in texts
  /\ \A x \in texts : IsForm(x, texts, Constants, n)

-----------------------------------------------------------------------------
(* The types of the variables, given these sets and the number of frames.   *)
Envs(m) == Seq(1 .. m)
Frames(values) == [vars : Seq(Names), rest : Names \union {NoRest}, actuals : Seq(values)]
Procedures(texts, m) == [formals : Formals, body : texts, env : Envs(m), traced : BOOLEAN]
LetOps == {"let", "let*", "letrec", "let-internal"}
Functions1(values, texts, m) ==
  values \union [t : {"let"}, vars : Seq(Names), body : texts, env : Envs(m)]

(* The values f gets are enough for it. *)
Enough(f, n) ==
  /\ IsFunction(f)
  /\ f.t = "subr" /\ f.type = "fixed" => n = f.arity
  /\ f.t = "subr" /\ f.type = "2n" => n >= 2

SpecialWaits(texts, m) ==
  {w \in [k : Sequential, x : texts, todo : Seq(texts), env : Envs(m)] :
     /\ w.x.op = w.k
     /\ w.k \in TailForms => w.todo # <<>>
     /\ w.k = "while" => w.x.items # <<>>}
Prog1Waits(values, texts, m) == [k : {"prog1"}, todo : Seq(texts), env : Envs(m), val : values]
CondWaits(texts, m) ==
  {w \in [k : {"cond"}, clauses : Seq(Seq(texts) \ {<<>>}), env : Envs(m)] : w.clauses # <<>>}
HeadWaits(texts, m) == [k : {"head"}, forms : Seq(texts), env : Envs(m)]
ArgWaits(values, texts, m) ==
  {w \in [k : {"args"}, f : Functions1(values, texts, m), args : Seq(texts), todo : Seq(Nat),
          env : Envs(m), vals : Seq(values)] :
     /\ Enough(w.f, Len(w.args))
     /\ Len(w.vals) = Len(w.args)
     /\ w.todo # <<>>
     /\ \A i \in 1 .. Len(w.todo) : w.todo[i] \in 1 .. Len(w.args)}
BodyWaits == [k : {"apply", "traced"}]

Waits(values, texts, m) ==
  SpecialWaits(texts, m) \union Prog1Waits(values, texts, m) \union CondWaits(texts, m) \union
  HeadWaits(texts, m) \union ArgWaits(values, texts, m) \union BodyWaits

Evals(texts, m) == [mode : {"eval"}, x : texts, env : Envs(m)]
Yields(values) == [mode : {"return"}, val : values]
Defines(values, m) == [mode : {"define"}, name : Names, val : values, frame : 1 .. m]
Rewrites(texts, m) ==
  {c \in [mode : {"rewrite"}, x : texts, env : Envs(m), to : {"let", "let-internal"}] : c.x.op = "let"}
Applies(values) == [mode : {"apply"}, f : values, args : Seq(values)]

Controls(values, texts, m) ==
  Evals(texts, m) \union Yields(values) \union Defines(values, m) \union
  Rewrites(texts, m) \union Applies(values)

(* A form that is let-internal, or is to be, has arguments and a body; and  *)
(* a macro still has the symbol it was called by in front.                  *)
Rewritten ==
  /\ \A i \in 1 .. Len(lets) : lets[i].op = "let-internal" => Len(lets[i].rest) = 2
  /\ ctl.mode = "rewrite" /\ ctl.to = "let-internal" => Len(lets[ctl.x.id].rest) = 2
  /\ ctl.mode = "rewrite" => lets[ctl.x.id].op # "let-internal"

HeapTyped(values, texts) ==
  /\ AllValues(values, Len(closures))
  /\ AllTexts(texts, Len(lets))
  /\ program \in DOMAIN Programs /\ main \in texts
  /\ frames \in Seq(Frames(values))
  /\ closures \in Seq(Procedures(texts, Len(frames)))
  /\ lets \in Seq(Lets(LetOps, texts))
  /\ vcell \in [Names -> values]
  /\ torn \subseteq {"define", "let", "let*", "letrec"}

StackTyped(values, texts) ==
  /\ kont \in Seq(Waits(values, texts, Len(frames)))
  /\ ctl \in Controls(values, texts, Len(frames))

Typed(values, texts) == HeapTyped(values, texts) /\ StackTyped(values, texts) /\ Rewritten

EvaluatorInv == \E values, texts : Typed(values, texts)

-----------------------------------------------------------------------------
(* The types grow with these sets and with the number of frames. *)

LEMMA SeqWiden ==
  ASSUME NEW S, NEW U, S \subseteq U
  PROVE  Seq(S) \subseteq Seq(U)
<1>1. ASSUME NEW s \in Seq(S) PROVE s \in Seq(U)
  OBVIOUS
<1>2. QED
  BY <1>1

LEMMA EnvsGrow ==
  ASSUME NEW m \in Nat, NEW p \in Nat, m <= p
  PROVE  Envs(m) \subseteq Envs(p)
<1>1. 1 .. m \subseteq 1 .. p
  OBVIOUS
<1>2. QED
  BY <1>1, SeqWiden DEF Envs

LEMMA IsFormGrows ==
  ASSUME NEW F, NEW G, F \subseteq G, NEW n \in Nat, NEW p \in Nat, n <= p,
         NEW x, IsForm(x, F, Constants, n)
  PROVE  IsForm(x, G, Constants, p)
<1>1. Seq(F) \subseteq Seq(G)
  BY SeqWiden
<1>2. Seq(F) \ {<<>>} \subseteq Seq(G) \ {<<>>}
  BY <1>1
<1>3. Seq(Seq(F) \ {<<>>}) \subseteq Seq(Seq(G) \ {<<>>})
  BY <1>2, SeqWiden
<1>4. 1 .. n \subseteq 1 .. p
  OBVIOUS
<1>5. QED
  BY <1>1, <1>2, <1>3, <1>4 DEF IsForm

LEMMA IsValueGrows ==
  ASSUME NEW V, NEW W, V \subseteq W, NEW n \in Nat, NEW p \in Nat, n <= p,
         NEW v, IsValue(v, V, n)
  PROVE  IsValue(v, W, p)
<1>1. Seq(V) \subseteq Seq(W)
  BY SeqWiden
<1>2. 1 .. n \subseteq 1 .. p
  OBVIOUS
<1>3. QED
  BY <1>1, <1>2 DEF IsValue

LEMMA MoreValues ==
  ASSUME NEW V, NEW n \in Nat, AllValues(V, n), NEW v, IsValue(v, V, n)
  PROVE  AllValues(V \union {v}, n)
<1>1. V \subseteq V \union {v}
  OBVIOUS
<1>2. ASSUME NEW w \in V \union {v} PROVE IsValue(w, V \union {v}, n)
  <2>1. IsValue(w, V, n)
    BY DEF AllValues
  <2>2. QED
    BY <1>1, <2>1, IsValueGrows
<1>3. QED
  BY <1>1, <1>2 DEF AllValues

LEMMA MoreTexts ==
  ASSUME NEW F, NEW n \in Nat, AllTexts(F, n), NEW x, IsForm(x, F, Constants, n)
  PROVE  AllTexts(F \union {x}, n)
<1>1. F \subseteq F \union {x}
  OBVIOUS
<1>2. ASSUME NEW y \in F \union {x} PROVE IsForm(y, F \union {x}, Constants, n)
  <2>1. IsForm(y, F, Constants, n)
    BY DEF AllTexts
  <2>2. QED
    BY <1>1, <2>1, IsFormGrows
<1>3. QED
  BY <1>1, <1>2 DEF AllTexts

LEMMA DataGrows ==
  ASSUME NEW V, NEW W, V \subseteq W, NEW F, NEW G, F \subseteq G,
         NEW m \in Nat, NEW p \in Nat, m <= p
  PROVE  /\ Frames(V) \subseteq Frames(W)
         /\ Procedures(F, m) \subseteq Procedures(G, p)
         /\ Functions1(V, F, m) \subseteq Functions1(W, G, p)
         /\ Lets(LetOps, F) \subseteq Lets(LetOps, G)
<1>1. Seq(V) \subseteq Seq(W)
  BY SeqWiden
<1>2. Envs(m) \subseteq Envs(p)
  BY EnvsGrow
<1>3. Seq(F) \ {<<>>} \subseteq Seq(G) \ {<<>>}
  BY SeqWiden
<1>4. Seq(Binds(F)) \subseteq Seq(Binds(G))
  <2>1. Binds(F) \subseteq Binds(G)
    BY DEF Binds
  <2>2. QED
    BY <2>1, SeqWiden
<1>5. Frames(V) \subseteq Frames(W)
  BY <1>1 DEF Frames
<1>6. Procedures(F, m) \subseteq Procedures(G, p)
  BY <1>2 DEF Procedures
<1>7. Functions1(V, F, m) \subseteq Functions1(W, G, p)
  BY <1>2 DEF Functions1
<1>8. Lets(LetOps, F) \subseteq Lets(LetOps, G)
  BY <1>3, <1>4 DEF Lets
<1>9. QED
  BY <1>5, <1>6, <1>7, <1>8

LEMMA WaitsGrow ==
  ASSUME NEW V, NEW W, V \subseteq W, NEW F, NEW G, F \subseteq G,
         NEW m \in Nat, NEW p \in Nat, m <= p
  PROVE  Waits(V, F, m) \subseteq Waits(W, G, p)
<1>1. Seq(V) \subseteq Seq(W) /\ Seq(F) \subseteq Seq(G)
  BY SeqWiden
<1>2. Envs(m) \subseteq Envs(p)
  BY EnvsGrow
<1>3. Functions1(V, F, m) \subseteq Functions1(W, G, p)
  BY DataGrows
<1>4. Seq(Seq(F) \ {<<>>}) \subseteq Seq(Seq(G) \ {<<>>})
  <2>1. Seq(F) \ {<<>>} \subseteq Seq(G) \ {<<>>}
    BY <1>1
  <2>2. QED
    BY <2>1, SeqWiden
<1>5. SpecialWaits(F, m) \subseteq SpecialWaits(G, p)
  BY <1>1, <1>2 DEF SpecialWaits
<1>6. Prog1Waits(V, F, m) \subseteq Prog1Waits(W, G, p)
  BY <1>1, <1>2 DEF Prog1Waits
<1>7. CondWaits(F, m) \subseteq CondWaits(G, p)
  BY <1>2, <1>4 DEF CondWaits
<1>8. HeadWaits(F, m) \subseteq HeadWaits(G, p)
  BY <1>1, <1>2 DEF HeadWaits
<1>9. ArgWaits(V, F, m) \subseteq ArgWaits(W, G, p)
  BY <1>1, <1>2, <1>3 DEF ArgWaits
<1>10. QED
  BY <1>5, <1>6, <1>7, <1>8, <1>9 DEF Waits

LEMMA ControlsGrow ==
  ASSUME NEW V, NEW W, V \subseteq W, NEW F, NEW G, F \subseteq G,
         NEW m \in Nat, NEW p \in Nat, m <= p
  PROVE  Controls(V, F, m) \subseteq Controls(W, G, p)
<1>1. Seq(V) \subseteq Seq(W)
  BY SeqWiden
<1>2. Envs(m) \subseteq Envs(p) /\ 1 .. m \subseteq 1 .. p
  BY EnvsGrow
<1>3. Evals(F, m) \subseteq Evals(G, p) /\ Yields(V) \subseteq Yields(W)
  BY <1>2 DEF Evals, Yields
<1>4. Defines(V, m) \subseteq Defines(W, p) /\ Rewrites(F, m) \subseteq Rewrites(G, p)
  BY <1>2 DEF Defines, Rewrites
<1>5. Applies(V) \subseteq Applies(W)
  BY <1>1 DEF Applies
<1>6. QED
  BY <1>3, <1>4, <1>5 DEF Controls

LEMMA Lengths ==
  ASSUME NEW V, NEW F, HeapTyped(V, F)
  PROVE  Len(frames) \in Nat /\ Len(closures) \in Nat /\ Len(lets) \in Nat
BY DEF HeapTyped

LEMMA TypedGrows ==
  ASSUME NEW V, NEW F, Typed(V, F),
         NEW W, V \subseteq W, AllValues(W, Len(closures)),
         NEW G, F \subseteq G, AllTexts(G, Len(lets))
  PROVE  Typed(W, G)
<1> DEFINE m == Len(frames)
<1>1. HeapTyped(V, F) /\ StackTyped(V, F) /\ Rewritten
  BY DEF Typed
<1>2. m \in Nat /\ m <= m
  BY <1>1, Lengths
<1>3. /\ Seq(Frames(V)) \subseteq Seq(Frames(W))
      /\ Seq(Procedures(F, m)) \subseteq Seq(Procedures(G, m))
      /\ Seq(Lets(LetOps, F)) \subseteq Seq(Lets(LetOps, G))
  <2> HIDE DEF m
  <2>1. QED
    BY <1>2, DataGrows, SeqWiden
<1>4. Seq(Waits(V, F, m)) \subseteq Seq(Waits(W, G, m)) /\ Controls(V, F, m) \subseteq Controls(W, G, m)
  <2> HIDE DEF m
  <2>1. QED
    BY <1>2, WaitsGrow, ControlsGrow, SeqWiden
<1>5. HeapTyped(W, G)
  BY <1>1, <1>3 DEF HeapTyped
<1>6. StackTyped(W, G)
  BY <1>1, <1>4 DEF StackTyped
<1>7. QED
  BY <1>1, <1>5, <1>6 DEF Typed

LEMMA AddValue ==
  ASSUME NEW V, NEW F, Typed(V, F), NEW v, IsValue(v, V, Len(closures))
  PROVE  Typed(V \union {v}, F)
<1>1. AllValues(V, Len(closures)) /\ AllTexts(F, Len(lets)) /\ Len(closures) \in Nat
  BY Lengths DEF Typed, HeapTyped
<1>2. AllValues(V \union {v}, Len(closures))
  BY <1>1, MoreValues
<1>3. QED
  BY <1>1, <1>2, TypedGrows

LEMMA AddText ==
  ASSUME NEW V, NEW F, Typed(V, F), NEW x, IsForm(x, F, Constants, Len(lets))
  PROVE  Typed(V, F \union {x})
<1>1. AllValues(V, Len(closures)) /\ AllTexts(F, Len(lets)) /\ Len(lets) \in Nat
  BY Lengths DEF Typed, HeapTyped
<1>2. AllTexts(F \union {x}, Len(lets))
  BY <1>1, MoreTexts
<1>3. QED
  BY <1>1, <1>2, TypedGrows

-----------------------------------------------------------------------------
(* Searches. *)

LEMMA LeastOf ==
  ASSUME NEW S, S \subseteq Nat, S # {}
  PROVE  Min(S) \in S /\ \A n \in S : Min(S) <= n
<1> DEFINE R == OpToRel(<, Nat)
<1>1. PICK n \in S : \A m \in S : ~(<<m, n>> \in R)
  BY NatLessThanWellFounded, WFMin
<1>2. \A m \in S : ~(m < n)
  BY <1>1 DEF OpToRel
<1>3. \A m \in S : n <= m
  BY <1>2
<1>4. QED
  BY <1>3 DEF Min

(* The place of a name among formals. *)
VarIndex(n, names) == SelectInSeq(names, LAMBDA m : m = n)

LEMMA VarIndexIs ==
  ASSUME NEW n, NEW names \in Seq(Names)
  PROVE  \/ VarIndex(n, names) = 0 /\ \A i \in 1 .. Len(names) : names[i] # n
         \/ /\ VarIndex(n, names) \in 1 .. Len(names) /\ names[VarIndex(n, names)] = n
            /\ \A i \in 1 .. Len(names) : i < VarIndex(n, names) => names[i] # n
<1> DEFINE I == {i \in 1 .. Len(names) : names[i] = n}
<1>1. VarIndex(n, names) = IF I # {} THEN Min(I) ELSE 0
  BY DEF VarIndex, SelectInSeq
<1>2. I \subseteq Nat
  OBVIOUS
<1>3. CASE I = {}
  BY <1>1, <1>3
<1>4. CASE I # {}
  <2>1. Min(I) \in I /\ \A i \in I : Min(I) <= i
    <3> HIDE DEF I
    <3>1. QED
      BY <1>2, <1>4, LeastOf
  <2>2. VarIndex(n, names) = Min(I)
    BY <1>1, <1>4
  <2>3. \A i \in 1 .. Len(names) : i < Min(I) => names[i] # n
    <3>1. SUFFICES ASSUME NEW i \in 1 .. Len(names), i < Min(I), names[i] = n PROVE FALSE
      OBVIOUS
    <3>2. i \in I
      BY <3>1
    <3>3. Min(I) <= i /\ Min(I) \in Nat
      BY <2>1, <3>2
    <3> HIDE DEF I
    <3>4. QED
      BY <3>1, <3>3
  <2>4. QED
    BY <2>1, <2>2, <2>3
<1>5. QED
  BY <1>3, <1>4

LEMMA InFrameIs ==
  ASSUME NEW V, NEW n, NEW f \in Frames(V)
  PROVE  /\ InFrame(n, f) \in Int
         /\ InFrame(n, f) > 0 =>
              /\ InFrame(n, f) \in 1 .. Len(f.vars) /\ InFrame(n, f) \in 1 .. Len(f.actuals)
              /\ f.vars[InFrame(n, f)] = n
              /\ InFrame(n, f) = VarIndex(n, f.vars)
         /\ InFrame(n, f) <= 0 => InFrame(n, f) \in {0, -1, -2}
         /\ InFrame(n, f) = -1 => Len(f.vars) <= Len(f.actuals)
<1> DEFINE i == VarIndex(n, f.vars)
           last == IF i = 0 THEN Len(f.vars) ELSE i
<1>1. f.vars \in Seq(Names) /\ f.actuals \in Seq(V)
  BY DEF Frames
<1>2. Len(f.vars) \in Nat /\ Len(f.actuals) \in Nat
  BY <1>1
<1>3. i = 0 \/ (i \in 1 .. Len(f.vars) /\ f.vars[i] = n)
  BY <1>1, VarIndexIs
<1>4. InFrame(n, f) = IF last > Len(f.actuals) THEN -2
                      ELSE IF i # 0 THEN i ELSE IF f.rest = n THEN -1 ELSE 0
  BY DEF InFrame, VarIndex
<1> HIDE DEF i
<1>5. QED
  BY <1>2, <1>3, <1>4 DEF i

EnvIndex(n, env) == SelectInSeq(env, LAMBDA j : InFrame(n, frames[j]) # 0)

LEMMA EnvIndexIs ==
  ASSUME NEW n, NEW m \in Nat, NEW env \in Envs(m)
  PROVE  \/ EnvIndex(n, env) = 0 /\ \A k \in 1 .. Len(env) : InFrame(n, frames[env[k]]) = 0
         \/ EnvIndex(n, env) \in 1 .. Len(env) /\ InFrame(n, frames[env[EnvIndex(n, env)]]) # 0
<1> DEFINE I == {k \in 1 .. Len(env) : InFrame(n, frames[env[k]]) # 0}
<1>1. EnvIndex(n, env) = IF I # {} THEN Min(I) ELSE 0
  BY DEF EnvIndex, SelectInSeq
<1>2. I \subseteq Nat
  BY DEF Envs
<1>3. CASE I = {}
  BY <1>1, <1>3
<1>4. CASE I # {}
  <2>1. Min(I) \in I
    <3> HIDE DEF I
    <3>1. QED
      BY <1>2, <1>4, LeastOf
  <2>2. EnvIndex(n, env) = Min(I)
    BY <1>1, <1>4
  <2>3. QED
    BY <2>1, <2>2
<1>5. QED
  BY <1>3, <1>4

(* A name is in no frame of the environment, or in one of them. *)
LEMMA LookupIs ==
  ASSUME NEW n, NEW env \in Envs(Len(frames)), Len(frames) \in Nat
  PROVE  LET p == envlookup(n, env)
         IN  \/ p = [frame |-> 0, at |-> 0] /\ \A k \in 1 .. Len(env) : InFrame(n, frames[env[k]]) = 0
             \/ p.frame \in 1 .. Len(frames) /\ p.at = InFrame(n, frames[p.frame]) /\ p.at # 0
<1> DEFINE k == EnvIndex(n, env)
<1>1. envlookup(n, env) = IF k = 0 THEN [frame |-> 0, at |-> 0]
                          ELSE [frame |-> env[k], at |-> InFrame(n, frames[env[k]])]
  BY DEF envlookup, EnvIndex
<1>2. CASE k = 0
  <2>1. \A i \in 1 .. Len(env) : InFrame(n, frames[env[i]]) = 0
    BY <1>2, EnvIndexIs
  <2>2. QED
    BY <1>1, <1>2, <2>1
<1>3. CASE k # 0
  <2>1. k \in 1 .. Len(env) /\ InFrame(n, frames[env[k]]) # 0
    BY <1>3, EnvIndexIs
  <2>2. env[k] \in 1 .. Len(frames)
    BY <2>1 DEF Envs
  <2> HIDE DEF k
  <2>3. QED
    BY <1>1, <1>3, <2>1, <2>2
<1>4. QED
  BY <1>2, <1>3

-----------------------------------------------------------------------------
(* What is computed is a value. *)

LEMMA ListIsValue ==
  ASSUME NEW V, NEW n, AllValues(V, n), NEW s \in Seq(V)
  PROVE  IsValue(List(s), V, n)
<1>1. CASE s = <<>>
  <2>1. List(s) = NIL /\ NIL \in V
    BY <1>1 DEF List, AllValues, Markers
  <2>2. QED
    BY <2>1 DEF AllValues
<1>2. CASE s # <<>>
  BY <1>2 DEF List, IsValue, ValueTypes
<1>3. QED
  BY <1>1, <1>2

LEMMA MarkersAreValues ==
  ASSUME NEW V, NEW n, AllValues(V, n)
  PROVE  {NIL, T, Error, Unbound} \subseteq V /\ \A v \in V : IsValue(v, V, n)
BY DEF AllValues, Markers

LEMMA ValueIsValue ==
  ASSUME NEW V, NEW F, HeapTyped(V, F), NEW n \in Names, NEW env \in Envs(Len(frames))
  PROVE  IsValue(Value(n, env), V, Len(closures))
<1> DEFINE p == envlookup(n, env)
           fr == frames[p.frame]
<1>1. /\ AllValues(V, Len(closures))
      /\ frames \in Seq(Frames(V)) /\ Len(frames) \in Nat /\ vcell[n] \in V
  BY Lengths DEF HeapTyped
<1>2. {NIL, T, Error, Unbound} \subseteq V /\ \A v \in V : IsValue(v, V, Len(closures))
  BY <1>1, MarkersAreValues
<1>3. Value(n, env) = CASE p.at > 0 -> fr.actuals[p.at]
        [] p.at = 0 -> IF vcell[n] = Unbound THEN Error ELSE vcell[n]
        [] p.at = -1 -> Rest(fr)
        [] p.at = -2 -> Error
  BY DEF Value
<1>4. \/ p = [frame |-> 0, at |-> 0]
      \/ p.frame \in 1 .. Len(frames) /\ p.at = InFrame(n, fr) /\ p.at # 0
  BY <1>1, LookupIs
<1> HIDE DEF p
<1>5. CASE p = [frame |-> 0, at |-> 0]
  <2>1. Value(n, env) = IF vcell[n] = Unbound THEN Error ELSE vcell[n]
    BY <1>3, <1>5
  <2>2. QED
    BY <2>1, <1>1, <1>2
<1>6. CASE p.frame \in 1 .. Len(frames) /\ p.at = InFrame(n, fr) /\ p.at # 0
  <2>1. fr \in Frames(V)
    BY <1>1, <1>6
  <2>2. fr.actuals \in Seq(V) /\ fr.vars \in Seq(Names)
    BY <2>1 DEF Frames
  <2>3. /\ p.at \in Int
        /\ p.at > 0 => p.at \in 1 .. Len(fr.actuals)
        /\ p.at <= 0 => p.at \in {0, -1, -2}
    <3> HIDE DEF fr
    <3>1. QED
      BY <2>1, <1>6, InFrameIs
  <2>4. CASE p.at > 0
    <3>1. Value(n, env) = fr.actuals[p.at]
      BY <1>3, <2>4
    <3>2. fr.actuals[p.at] \in V
      BY <2>2, <2>3, <2>4
    <3>3. QED
      BY <3>1, <3>2, <1>2
  <2>5. CASE p.at = -1
    <3>1. Value(n, env) = Rest(fr)
      BY <1>3, <2>5
    <3>2. SubSeq(fr.actuals, Len(fr.vars) + 1, Len(fr.actuals)) \in Seq(V)
      BY <2>2
    <3>3. QED
      BY <3>1, <3>2, <1>1, ListIsValue DEF Rest
  <2>6. CASE p.at = -2
    <3>1. Value(n, env) = Error
      BY <1>3, <2>6
    <3>2. QED
      BY <3>1, <1>2
  <2>7. QED
    BY <2>3, <2>4, <2>5, <2>6, <1>6
<1>7. QED
  BY <1>4, <1>5, <1>6

Primitives == {"cons", "car", "cdr", "null?", "+", "list", "list3"}
Needs(fn) == CASE fn \in {"cons", "+"} -> 2 [] fn \in {"car", "cdr", "null?"} -> 1 [] OTHER -> 0

LEMMA SumIsValue ==
  ASSUME NEW V, NEW n, AllValues(V, n), NEW v, IsValue(v[1], V, n)
  PROVE  IsValue(Primitive("+", v), V, n)
<1>1. Primitive("+", v) \in {Num(0), v[1], Num(v[1].n + v[2].n), Error}
  BY DEF Primitive
<1>2. \A x : IsValue(Num(x), V, n)
  BY DEF Num, IsValue, ValueTypes
<1>3. IsValue(Error, V, n)
  BY MarkersAreValues
<1>4. QED
  BY <1>1, <1>2, <1>3

LEMMA PrimitiveIsValue ==
  ASSUME NEW V, NEW n, AllValues(V, n), NEW fn \in Primitives, NEW v \in Seq(V), Len(v) >= Needs(fn)
  PROVE  IsValue(Primitive(fn, v), V, n)
<1>1. NIL \in V /\ T \in V /\ Error \in V /\ \A w \in V : IsValue(w, V, n)
  BY MarkersAreValues
<1>2. \A w \in V : w.t = "list" => w.items \in Seq(V) /\ w.items # <<>>
  BY <1>1 DEF IsValue
<1>3. CASE fn \in {"list", "list3"}
  <2>1. Primitive(fn, v) = List(v)
    BY <1>3 DEF Primitive
  <2>2. QED
    BY <2>1, ListIsValue
<1>4. CASE fn = "null?"
  <2>1. Primitive(fn, v) \in {NIL, T}
    BY <1>4 DEF Primitive
  <2>2. QED
    BY <2>1, <1>1
<1>5. CASE fn = "+"
  <2>1. v[1] \in V
    BY <1>5 DEF Needs
  <2>2. QED
    BY <2>1, <1>1, <1>5, SumIsValue
<1>6. CASE fn \in {"car", "cdr"}
  <2>1. v[1] \in V
    BY <1>6 DEF Needs
  <2>2. CASE v[1].t = "list"
    <3>1. v[1].items \in Seq(V) /\ v[1].items # <<>>
      BY <2>1, <2>2, <1>2
    <3>2. v[1].items[1] \in V /\ Tail(v[1].items) \in Seq(V)
      BY <3>1
    <3>3. Primitive(fn, v) \in {NIL, v[1].items[1], List(Tail(v[1].items))}
      BY <1>6, <2>2 DEF Primitive
    <3>4. IsValue(List(Tail(v[1].items)), V, n)
      BY <3>2, ListIsValue
    <3>5. QED
      BY <3>2, <3>3, <3>4, <1>1
  <2>3. CASE v[1].t # "list"
    <3>1. Primitive(fn, v) \in {NIL, Error}
      BY <1>6, <2>3 DEF Primitive
    <3>2. QED
      BY <3>1, <1>1
  <2>4. QED
    BY <2>2, <2>3
<1>7. CASE fn = "cons"
  <2>1. v[1] \in V /\ v[2] \in V /\ <<v[1]>> \in Seq(V)
    BY <1>7 DEF Needs
  <2>2. IsValue(List(<<v[1]>>), V, n)
    BY <2>1, ListIsValue
  <2>3. CASE v[2].t = "list"
    <3>1. <<v[1]>> \o v[2].items \in Seq(V)
      BY <2>1, <2>3, <1>2
    <3>2. IsValue(List(<<v[1]>> \o v[2].items), V, n)
      BY <3>1, ListIsValue
    <3>3. Primitive(fn, v) \in {List(<<v[1]>>), List(<<v[1]>> \o v[2].items)}
      BY <1>7, <2>3 DEF Primitive
    <3>4. QED
      BY <2>2, <3>2, <3>3
  <2>4. CASE v[2].t # "list"
    <3>1. Primitive(fn, v) \in {List(<<v[1]>>), Error}
      BY <1>7, <2>4 DEF Primitive
    <3>2. QED
      BY <2>2, <3>1, <1>1
  <2>5. QED
    BY <2>3, <2>4
<1>8. QED
  BY <1>3, <1>4, <1>5, <1>6, <1>7 DEF Primitives

-----------------------------------------------------------------------------
(* What a step finds in ctl and kont. *)

LEMMA ControlKinds ==
  ASSUME NEW V, NEW F, NEW m, NEW c \in Controls(V, F, m)
  PROVE  /\ c.mode = "eval" => c \in Evals(F, m)
         /\ c.mode = "return" => c \in Yields(V)
         /\ c.mode = "define" => c \in Defines(V, m)
         /\ c.mode = "rewrite" => c \in Rewrites(F, m)
         /\ c.mode = "apply" => c \in Applies(V)
BY DEF Controls, Evals, Yields, Defines, Rewrites, Applies

LEMMA WaitKinds ==
  ASSUME NEW V, NEW F, NEW m, NEW w \in Waits(V, F, m)
  PROVE  /\ w.k \in Sequential => w \in SpecialWaits(F, m)
         /\ w.k = "prog1" => w \in Prog1Waits(V, F, m)
         /\ w.k = "cond" => w \in CondWaits(F, m)
         /\ w.k = "head" => w \in HeadWaits(F, m)
         /\ w.k = "args" => w \in ArgWaits(V, F, m)
<1>1. CASE w \in SpecialWaits(F, m)
  <2>1. w.k \in Sequential
    BY <1>1 DEF SpecialWaits
  <2>2. QED
    BY <1>1, <2>1 DEF Sequential
<1>2. CASE w \in Prog1Waits(V, F, m)
  <2>1. w.k = "prog1"
    BY <1>2 DEF Prog1Waits
  <2>2. QED
    BY <1>2, <2>1 DEF Sequential
<1>3. CASE w \in CondWaits(F, m)
  <2>1. w.k = "cond"
    BY <1>3 DEF CondWaits
  <2>2. QED
    BY <1>3, <2>1 DEF Sequential
<1>4. CASE w \in HeadWaits(F, m)
  <2>1. w.k = "head"
    BY <1>4 DEF HeadWaits
  <2>2. QED
    BY <1>4, <2>1 DEF Sequential
<1>5. CASE w \in ArgWaits(V, F, m)
  <2>1. w.k = "args"
    BY <1>5 DEF ArgWaits
  <2>2. QED
    BY <1>5, <2>1 DEF Sequential
<1>6. CASE w \in BodyWaits
  <2>1. w.k \in {"apply", "traced"}
    BY <1>6 DEF BodyWaits
  <2>2. QED
    BY <2>1 DEF Sequential
<1>7. QED
  BY <1>1, <1>2, <1>3, <1>4, <1>5, <1>6 DEF Waits

LEMMA Evaluating ==
  ASSUME NEW V, NEW F, Typed(V, F), ctl.mode = "eval"
  PROVE  /\ ctl = Eval(ctl.x, ctl.env)
         /\ ctl.x \in F /\ ctl.env \in Envs(Len(frames))
         /\ IsForm(ctl.x, F, Constants, Len(lets))
<1>1. ctl \in Controls(V, F, Len(frames)) /\ AllTexts(F, Len(lets))
  BY DEF Typed, StackTyped, HeapTyped
<1>2. ctl \in Evals(F, Len(frames))
  BY <1>1, ControlKinds
<1>3. ctl.x \in F
  BY <1>2 DEF Evals
<1>4. QED
  BY <1>1, <1>2, <1>3 DEF Evals, Eval, AllTexts

LEMMA Waiting ==
  ASSUME NEW V, NEW F, Typed(V, F), NEW ks, Returns(ks)
  PROVE  /\ ctl = Return(ctl.val) /\ ctl.val \in V
         /\ Top \in Waits(V, F, Len(frames)) /\ Top.k \in ks
         /\ Below \in Seq(Waits(V, F, Len(frames)))
<1>1. ctl \in Controls(V, F, Len(frames)) /\ kont \in Seq(Waits(V, F, Len(frames)))
  BY DEF Typed, StackTyped
<1>2. ctl.mode = "return" /\ kont # <<>> /\ Top.k \in ks
  BY DEF Returns
<1>3. ctl \in Yields(V)
  BY <1>1, <1>2, ControlKinds
<1>4. Len(kont) \in 1 .. Len(kont)
  BY <1>1, <1>2
<1>5. Top \in Waits(V, F, Len(frames)) /\ Below \in Seq(Waits(V, F, Len(frames)))
  <2> DEFINE S == Waits(V, F, Len(frames))
  <2> HIDE DEF S
  <2>1. kont \in Seq(S)
    BY <1>1 DEF S
  <2>2. Top \in S /\ Below \in Seq(S)
    BY <2>1, <1>4 DEF Top, Below
  <2>3. QED
    BY <2>2 DEF S
<1>6. QED
  BY <1>2, <1>3, <1>5 DEF Yields, Return

LEMMA EvalIs ==
  ASSUME NEW V, NEW F, NEW m, NEW x \in F, NEW env \in Envs(m)
  PROVE  Eval(x, env) \in Controls(V, F, m)
BY DEF Eval, Evals, Controls

LEMMA ReturnIs ==
  ASSUME NEW V, NEW F, NEW m, NEW v \in V
  PROVE  Return(v) \in Controls(V, F, m)
BY DEF Return, Yields, Controls

LEMMA PushIs ==
  ASSUME NEW V, NEW F, NEW m, NEW s \in Seq(Waits(V, F, m)), NEW w \in Waits(V, F, m)
  PROVE  Append(s, w) \in Seq(Waits(V, F, m))
<1> DEFINE S == Waits(V, F, m)
<1> HIDE DEF S
<1>1. s \in Seq(S) /\ w \in S
  BY DEF S
<1>2. QED
  BY <1>1 DEF S

(* A step that leaves the data alone. *)
LEMMA ControlStep ==
  ASSUME NEW V, NEW F, Typed(V, F), UNCHANGED <<program, data>>,
         torn' = torn,
         ctl' \in Controls(V, F, Len(frames)), ctl'.mode # "rewrite",
         kont' \in Seq(Waits(V, F, Len(frames)))
  PROVE  Typed(V, F)'
<1>1. lets' = lets /\ vcell' = vcell /\ frames' = frames /\ closures' = closures /\ program' = program
  BY DEF data
<1>2. HeapTyped(V, F) /\ Rewritten
  BY DEF Typed
<1>3. HeapTyped(V, F)'
  BY <1>1, <1>2 DEF HeapTyped, main
<1>4. StackTyped(V, F)'
  BY <1>1 DEF StackTyped
<1>5. Rewritten'
  BY <1>1, <1>2 DEF Rewritten
<1>6. QED
  BY <1>3, <1>4, <1>5 DEF Typed

LEMMA InvFacts ==
  ASSUME NEW V, NEW F, Typed(V, F)
  PROVE  /\ AllValues(V, Len(closures)) /\ AllTexts(F, Len(lets))
         /\ Len(frames) \in Nat /\ Len(closures) \in Nat /\ Len(lets) \in Nat
         /\ {NIL, T, Error, Unbound} \subseteq V /\ \A v \in V : IsValue(v, V, Len(closures))
         /\ kont \in Seq(Waits(V, F, Len(frames))) /\ ctl \in Controls(V, F, Len(frames))
         /\ torn \subseteq {"define", "let", "let*", "letrec"}
         /\ HeapTyped(V, F) /\ Rewritten
<1>1. AllValues(V, Len(closures)) /\ HeapTyped(V, F)
  BY DEF Typed, HeapTyped
<1>2. {NIL, T, Error, Unbound} \subseteq V /\ \A v \in V : IsValue(v, V, Len(closures))
  BY <1>1, MarkersAreValues
<1>3. QED
  BY <1>1, <1>2, Lengths DEF Typed, HeapTyped, StackTyped

-----------------------------------------------------------------------------
(* Forms that need no value. *)

LEMMA ConstStep ==
  ASSUME NEW V, NEW F, Typed(V, F), leval_const
  PROVE  Typed(V, F)'
<1>1. ctl.mode = "eval" /\ ctl.x.op = "const" /\ ctl' = Return(ctl.x.val)
  BY DEF leval_const, Evaluates
<1>2. IsForm(ctl.x, F, Constants, Len(lets))
  BY <1>1, Evaluating
<1>3. ctl.x.val \in V
  BY <1>1, <1>2, InvFacts DEF IsForm, AllValues, Sequential
<1>4. ctl' \in Controls(V, F, Len(frames)) /\ ctl'.mode # "rewrite"
  BY <1>1, <1>3, ReturnIs DEF Return
<1>5. UNCHANGED <<program, data>> /\ torn' = torn /\ kont' = kont
  BY DEF leval_const, data, session
<1>6. QED
  BY <1>4, <1>5, InvFacts, ControlStep

LEMMA SymbolStep ==
  ASSUME NEW V, NEW F, Typed(V, F), leval_symbol
  PROVE  \E W : Typed(W, F)'
<1> DEFINE v == Value(ctl.x.name, ctl.env)
<1>0. PICK W : W = V \union {v}
  OBVIOUS
<1>1. ctl.mode = "eval" /\ ctl.x.op = "symbol" /\ ctl' = Return(v)
  BY DEF leval_symbol, Evaluates
<1>2. IsForm(ctl.x, F, Constants, Len(lets)) /\ ctl.env \in Envs(Len(frames))
  BY <1>1, Evaluating
<1>3. ctl.x.name \in Names
  BY <1>1, <1>2 DEF IsForm, Sequential
<1>4. IsValue(v, V, Len(closures))
  BY <1>2, <1>3, InvFacts, ValueIsValue
<1>5. UNCHANGED <<program, data>> /\ torn' = torn /\ kont' = kont
  BY DEF leval_symbol, data, session
<1> HIDE DEF v
<1>6. Typed(W, F) /\ v \in W
  BY <1>0, <1>4, AddValue
<1>7. ctl' \in Controls(W, F, Len(frames)) /\ ctl'.mode # "rewrite"
  BY <1>1, <1>6, ReturnIs DEF Return
<1>8. kont' \in Seq(Waits(W, F, Len(frames)))
  BY <1>5, <1>6, InvFacts
<1>9. Typed(W, F)'
  BY <1>5, <1>6, <1>7, <1>8, ControlStep
<1>10. QED
  BY <1>9

LEMMA BodyIsForm ==
  ASSUME NEW F, NEW n, AllTexts(F, n), NEW s \in Seq(F)
  PROVE  IsForm(Body(s), F, Constants, n)
<1>1. CASE Len(s) = 1
  <2>1. s[1] \in F
    BY <1>1
  <2>2. QED
    BY <1>1, <2>1 DEF Body, AllTexts
<1>2. CASE Len(s) # 1
  BY <1>2 DEF Body, Special, IsForm, Sequential
<1>3. QED
  BY <1>1, <1>2

LEMMA LambdaStep ==
  ASSUME NEW V, NEW F, Typed(V, F), leval_lambda
  PROVE  \E W, G : Typed(W, G)'
<1> DEFINE n == Len(closures)
           b == Body(ctl.x.items)
           c == [formals |-> ctl.x.formals, body |-> b, env |-> ctl.env, traced |-> FALSE]
<1>0. PICK W, G : W = V \union {Closure(n + 1)} /\ G = F \union {b}
  OBVIOUS
<1>1. /\ ctl.mode = "eval" /\ ctl.x.op = "lambda"
      /\ closures' = Append(closures, c) /\ ctl' = Return(Closure(n + 1))
  BY DEF leval_lambda, Evaluates
<1>2. /\ IsForm(ctl.x, F, Constants, Len(lets)) /\ ctl.env \in Envs(Len(frames))
  BY <1>1, Evaluating
<1>3. ctl.x.formals \in Formals /\ ctl.x.items \in Seq(F)
  BY <1>1, <1>2 DEF IsForm, Sequential
<1>4. Typed(V, G)
  <2>1. IsForm(b, F, Constants, Len(lets))
    BY <1>3, InvFacts, BodyIsForm
  <2>2. QED
    BY <1>0, <2>1, AddText
<1>5. b \in G
  BY <1>0
<1>6. /\ lets' = lets /\ vcell' = vcell /\ frames' = frames /\ kont' = kont
      /\ program' = program /\ torn' = torn
  BY DEF leval_lambda, session
<1>7. /\ AllValues(V, n) /\ n \in Nat /\ Len(frames) \in Nat
      /\ HeapTyped(V, G) /\ StackTyped(V, G) /\ Rewritten
  BY <1>4, InvFacts DEF Typed
<1>8. closures \in Seq(Procedures(G, Len(frames)))
  BY <1>7 DEF HeapTyped
<1>9. c \in Procedures(G, Len(frames))
  BY <1>2, <1>3, <1>5 DEF Procedures
<1>10. closures' \in Seq(Procedures(G, Len(frames))) /\ Len(closures') = n + 1
  <2> DEFINE S == Procedures(G, Len(frames))
  <2> HIDE DEF S, c
  <2>1. closures \in Seq(S) /\ c \in S
    BY <1>8, <1>9 DEF S
  <2>2. QED
    BY <1>1, <2>1 DEF S
<1>11. AllValues(V, n + 1)
  <2>1. n + 1 \in Nat /\ n <= n + 1
    BY <1>7
  <2>2. ASSUME NEW v \in V PROVE IsValue(v, V, n + 1)
    <3>1. IsValue(v, V, n)
      BY <1>7 DEF AllValues
    <3> HIDE DEF n
    <3>2. QED
      BY <1>7, <2>1, <3>1, IsValueGrows
  <2>3. QED
    BY <1>7, <2>2 DEF AllValues
<1>12. AllValues(W, n + 1)
  <2>1. IsValue(Closure(n + 1), V, n + 1)
    BY <1>7 DEF Closure, IsValue, ValueTypes
  <2> HIDE DEF n
  <2>2. n + 1 \in Nat
    BY <1>7
  <2>3. QED
    BY <1>0, <1>11, <2>1, <2>2, MoreValues
<1>13. /\ Frames(V) \subseteq Frames(W)
       /\ Waits(V, G, Len(frames)) \subseteq Waits(W, G, Len(frames))
       /\ Closure(n + 1) \in W /\ V \subseteq W
  <2>1. V \subseteq W /\ Len(frames) <= Len(frames) /\ Closure(n + 1) \in W
    BY <1>0, <1>7
  <2>2. QED
    BY <1>7, <2>1, DataGrows, WaitsGrow
<1> HIDE DEF n, c
<1>14. Seq(Frames(V)) \subseteq Seq(Frames(W)) /\ Seq(Waits(V, G, Len(frames))) \subseteq Seq(Waits(W, G, Len(frames)))
  BY <1>13, SeqWiden
<1>15. HeapTyped(W, G)'
  <2>1. AllValues(W, Len(closures'))
    BY <1>10, <1>12
  <2>2. closures' \in Seq(Procedures(G, Len(frames')))
    BY <1>6, <1>10
  <2>3. frames' \in Seq(Frames(W)) /\ vcell' \in [Names -> W]
    BY <1>6, <1>7, <1>13, <1>14 DEF HeapTyped
  <2>4. QED
    BY <1>6, <1>7, <2>1, <2>2, <2>3 DEF HeapTyped, main
<1>16. ctl' \in Controls(W, G, Len(frames)) /\ ctl'.mode # "rewrite"
  BY <1>1, <1>13, ReturnIs DEF Return
<1>17. StackTyped(W, G)' /\ Rewritten'
  <2>1. kont' \in Seq(Waits(W, G, Len(frames')))
    BY <1>6, <1>7, <1>14 DEF StackTyped
  <2>2. ctl' \in Controls(W, G, Len(frames'))
    BY <1>6, <1>16
  <2>3. QED
    BY <1>6, <1>7, <1>16, <2>1, <2>2 DEF StackTyped, Rewritten
<1>18. Typed(W, G)'
  BY <1>15, <1>17 DEF Typed
<1>19. QED
  BY <1>18

-----------------------------------------------------------------------------
(* Special forms. *)

LEMMA ItemIn ==
  ASSUME NEW S, NEW s \in Seq(S), s # <<>>
  PROVE  /\ s[1] \in S /\ Tail(s) \in Seq(S)
         /\ Len(Tail(s)) = Len(s) - 1 /\ Len(s) \in Nat \ {0}
         /\ Len(s) # 1 => Tail(s) # <<>>
<1>1. s[1] \in S /\ Tail(s) \in Seq(S) /\ Len(Tail(s)) = Len(s) - 1 /\ Len(s) \in Nat \ {0}
  OBVIOUS
<1> DEFINE r == Tail(s)
<1>2. \A u \in Seq(S) : u = <<>> => Len(u) = 0
  OBVIOUS
<1> HIDE DEF r
<1>3. r = <<>> => Len(r) = 0
  BY <1>1, <1>2 DEF r
<1>4. Len(s) # 1 => r # <<>>
  BY <1>1, <1>3 DEF r
<1>5. QED
  BY <1>1, <1>4 DEF r

LEMMA SpecialStep ==
  ASSUME NEW V, NEW F, Typed(V, F), leval_special
  PROVE  Typed(V, F)'
<1> DEFINE x == ctl.x
           env == ctl.env
           w == [k |-> x.op, x |-> x, todo |-> Tail(x.items), env |-> env]
<1>1. ctl.mode = "eval" /\ x.op \in Sequential /\ Special1(x, env)
  BY DEF leval_special, Evaluates
<1>2. x \in F /\ env \in Envs(Len(frames)) /\ IsForm(x, F, Constants, Len(lets))
  BY <1>1, Evaluating
<1>3. x.items \in Seq(F)
  BY <1>1, <1>2 DEF IsForm, Sequential
<1>4. UNCHANGED <<program, data>> /\ torn' = torn
  BY DEF leval_special, data, session
<1>5. kont \in Seq(Waits(V, F, Len(frames))) /\ T \in V /\ NIL \in V
  BY InvFacts
<1> HIDE DEF x, env
<1>6. CASE x.items = <<>>
  <2>1. kont' = kont /\ ctl' = Return(IF x.op = "and" THEN T ELSE NIL)
    BY <1>1, <1>6 DEF Special1
  <2>2. ctl' \in Controls(V, F, Len(frames)) /\ ctl'.mode # "rewrite"
    BY <2>1, <1>5, ReturnIs DEF Return
  <2>3. QED
    BY <2>1, <2>2, <1>4, <1>5, ControlStep
<1>7. CASE x.items # <<>>
  <2>1. x.items[1] \in F /\ Tail(x.items) \in Seq(F) /\ (Len(x.items) # 1 => Tail(x.items) # <<>>)
    BY <1>3, <1>7, ItemIn
  <2>2. ctl' = Eval(x.items[1], env)
    BY <1>1, <1>7 DEF Special1
  <2>3. ctl' \in Controls(V, F, Len(frames)) /\ ctl'.mode # "rewrite"
    BY <2>1, <2>2, <1>2, EvalIs DEF Eval
  <2>4. kont' = kont \/ (kont' = Append(kont, w) /\ (x.op \in TailForms => Len(x.items) # 1))
    BY <1>1, <1>7 DEF Special1, Push
  <2>5. CASE kont' = kont
    BY <2>3, <2>5, <1>4, <1>5, ControlStep
  <2>6. CASE kont' = Append(kont, w) /\ (x.op \in TailForms => Len(x.items) # 1)
    <3>1. x.op \in TailForms => Tail(x.items) # <<>>
      BY <2>1, <2>6
    <3>2. w \in SpecialWaits(F, Len(frames))
      BY <3>1, <2>1, <1>1, <1>2, <1>7 DEF SpecialWaits
    <3>3. w \in Waits(V, F, Len(frames))
      BY <3>2 DEF Waits
    <3> HIDE DEF w
    <3>4. kont' \in Seq(Waits(V, F, Len(frames)))
      BY <3>3, <2>6, <1>5, PushIs
    <3>5. QED
      BY <3>4, <2>3, <1>4, ControlStep
  <2>7. QED
    BY <2>4, <2>5, <2>6
<1>8. QED
  BY <1>6, <1>7

LEMMA Prog1Step ==
  ASSUME NEW V, NEW F, Typed(V, F), leval_prog1
  PROVE  Typed(V, F)'
<1> DEFINE x == ctl.x
           env == ctl.env
           w == [k |-> "prog1", todo |-> Tail(x.items), env |-> env, val |-> Unbound]
<1>1. ctl.mode = "eval" /\ x.op = "prog1" /\ ctl' = Eval(x.items[1], env) /\ kont' = Append(kont, w)
  BY DEF leval_prog1, Evaluates, Push
<1>2. env \in Envs(Len(frames)) /\ IsForm(x, F, Constants, Len(lets))
  BY <1>1, Evaluating
<1>3. x.items \in Seq(F) /\ x.items # <<>>
  BY <1>1, <1>2 DEF IsForm, Sequential
<1>4. UNCHANGED <<program, data>> /\ torn' = torn
  BY DEF leval_prog1, data, session
<1>5. kont \in Seq(Waits(V, F, Len(frames))) /\ Unbound \in V
  BY InvFacts
<1> HIDE DEF x, env
<1>6. x.items[1] \in F /\ Tail(x.items) \in Seq(F)
  BY <1>3, ItemIn
<1>7. ctl' \in Controls(V, F, Len(frames)) /\ ctl'.mode # "rewrite"
  BY <1>1, <1>2, <1>6, EvalIs DEF Eval
<1>8. w \in Waits(V, F, Len(frames))
  BY <1>2, <1>5, <1>6 DEF Prog1Waits, Waits
<1> HIDE DEF w
<1>9. kont' \in Seq(Waits(V, F, Len(frames)))
  BY <1>1, <1>5, <1>8, PushIs
<1>10. QED
  BY <1>4, <1>7, <1>9, ControlStep

LEMMA ClausesStep ==
  ASSUME NEW V, NEW F, Typed(V, F),
         NEW clauses \in Seq(Seq(F) \ {<<>>}), NEW env \in Envs(Len(frames)),
         NEW below \in Seq(Waits(V, F, Len(frames))),
         Cond1(clauses, env, below), UNCHANGED <<data, session>>
  PROVE  Typed(V, F)'
<1> DEFINE w == [k |-> "cond", clauses |-> clauses, env |-> env]
<1>1. UNCHANGED <<program, data>> /\ torn' = torn
  BY DEF data, session
<1>2. CASE clauses = <<>>
  <2>1. ctl' = Return(NIL) /\ kont' = below
    BY <1>2 DEF Cond1
  <2>2. ctl' \in Controls(V, F, Len(frames)) /\ ctl'.mode # "rewrite"
    BY <2>1, InvFacts, ReturnIs DEF Return
  <2>3. QED
    BY <2>1, <2>2, <1>1, ControlStep
<1>3. CASE clauses # <<>>
  <2>1. clauses[1] \in Seq(F) /\ clauses[1] # <<>>
    BY <1>3, ItemIn
  <2>2. clauses[1][1] \in F
    BY <2>1, ItemIn
  <2>3. ctl' = Eval(clauses[1][1], env) /\ kont' \in {below, Append(below, w)}
    BY <1>3 DEF Cond1
  <2>4. ctl' \in Controls(V, F, Len(frames)) /\ ctl'.mode # "rewrite"
    BY <2>2, <2>3, EvalIs DEF Eval
  <2>5. w \in Waits(V, F, Len(frames))
    BY <1>3 DEF CondWaits, Waits
  <2> HIDE DEF w
  <2>6. kont' \in Seq(Waits(V, F, Len(frames)))
    BY <2>3, <2>5, PushIs
  <2>7. QED
    BY <2>4, <2>6, <1>1, ControlStep
<1>4. QED
  BY <1>2, <1>3

LEMMA CondStep ==
  ASSUME NEW V, NEW F, Typed(V, F), leval_cond
  PROVE  Typed(V, F)'
<1>1. ctl.mode = "eval" /\ ctl.x.op = "cond"
  BY DEF leval_cond, Evaluates
<1>2. ctl.env \in Envs(Len(frames)) /\ IsForm(ctl.x, F, Constants, Len(lets))
  BY <1>1, Evaluating
<1>3. ctl.x.clauses \in Seq(Seq(F) \ {<<>>})
  BY <1>1, <1>2 DEF IsForm, Sequential
<1>4. QED
  BY <1>2, <1>3, InvFacts, ClausesStep DEF leval_cond

LEMMA CondReturnsStep ==
  ASSUME NEW V, NEW F, Typed(V, F), CondReturns
  PROVE  \E G : Typed(V, G)'
<1> DEFINE clauses == Top.clauses
           clause == clauses[1]
           m == Len(frames)
           b == Special("begin", Tail(clause))
<1>1. Returns({"cond"}) /\ UNCHANGED <<data, session>>
  BY DEF CondReturns
<1>2. Top \in CondWaits(F, m) /\ Below \in Seq(Waits(V, F, m)) /\ ctl \in Controls(V, F, m)
  BY <1>1, Waiting, WaitKinds, InvFacts
<1>3. clauses \in Seq(Seq(F) \ {<<>>}) /\ clauses # <<>> /\ Top.env \in Envs(m)
  BY <1>2 DEF CondWaits
<1>4. clause \in Seq(F) /\ clause # <<>> /\ Tail(clauses) \in Seq(Seq(F) \ {<<>>})
  BY <1>3, ItemIn
<1>5. UNCHANGED <<program, data>> /\ torn' = torn
  BY <1>1 DEF data, session
<1>6. CASE ctl.val = NIL
  <2>1. Cond1(Tail(clauses), Top.env, Below)
    BY <1>6 DEF CondReturns
  <2> HIDE DEF clauses
  <2>2. Typed(V, F)'
    BY <2>1, <1>1, <1>2, <1>3, <1>4, ClausesStep
  <2>3. QED
    BY <2>2
<1>7. CASE ctl.val # NIL
  <2>1. PICK G : G = F \union {b}
    OBVIOUS
  <2>2. kont' = Below /\ ctl' = IF Len(clause) = 1 THEN ctl ELSE Eval(b, Top.env)
    BY <1>7 DEF CondReturns
  <2>3. Tail(clause) \in Seq(F)
    BY <1>4, ItemIn
  <2>4. IsForm(b, F, Constants, Len(lets))
    BY <2>3 DEF IsForm, Special, Sequential
  <2> HIDE DEF b, clause
  <2>5. Typed(V, G) /\ F \subseteq G /\ b \in G
    BY <2>1, <2>4, AddText
  <2>6. Seq(Waits(V, F, m)) \subseteq Seq(Waits(V, G, m)) /\ m \in Nat
    <3>1. m \in Nat /\ m <= m /\ V \subseteq V
      BY InvFacts
    <3> HIDE DEF m
    <3>2. Waits(V, F, m) \subseteq Waits(V, G, m)
      BY <3>1, <2>5, WaitsGrow
    <3>3. QED
      BY <3>1, <3>2, SeqWiden
  <2>7. Eval(b, Top.env) \in Controls(V, G, m) /\ ctl \in Controls(V, G, m)
    BY <2>5, <1>3, EvalIs, InvFacts
  <2>8. ctl.mode = "return"
    BY <1>1 DEF Returns
  <2>9. ctl' \in Controls(V, G, m) /\ ctl'.mode # "rewrite" /\ kont' \in Seq(Waits(V, G, m))
    BY <2>2, <2>6, <2>7, <2>8, <1>2 DEF Eval
  <2>10. Typed(V, G)'
    BY <2>5, <2>9, <1>5, ControlStep
  <2>11. QED
    BY <2>10
<1>8. QED
  BY <1>6, <1>7

LEMMA IfReturnsStep ==
  ASSUME NEW V, NEW F, Typed(V, F), IfReturns
  PROVE  Typed(V, F)'
<1> DEFINE i == IF ctl.val # NIL THEN 1 ELSE 2
<1>1. Returns({"if"}) /\ UNCHANGED <<data, session>> /\ kont' = Below
  BY DEF IfReturns
<1>2. Top \in SpecialWaits(F, Len(frames)) /\ Below \in Seq(Waits(V, F, Len(frames)))
  BY <1>1, Waiting, WaitKinds DEF Sequential
<1>3. Top.todo \in Seq(F) /\ Top.env \in Envs(Len(frames))
  BY <1>2 DEF SpecialWaits
<1>4. ctl' = IF i > Len(Top.todo) THEN Return(NIL) ELSE Eval(Top.todo[i], Top.env)
  BY DEF IfReturns
<1>5. i <= Len(Top.todo) => Top.todo[i] \in F
  BY <1>3
<1>6. Len(Top.todo) \in Nat /\ i \in Nat
  BY <1>3
<1> HIDE DEF i
<1>7. ctl' \in Controls(V, F, Len(frames)) /\ ctl'.mode # "rewrite"
  BY <1>3, <1>4, <1>5, <1>6, InvFacts, ReturnIs, EvalIs DEF Eval, Return
<1>8. UNCHANGED <<program, data>> /\ torn' = torn
  BY <1>1 DEF data, session
<1>9. QED
  BY <1>1, <1>2, <1>7, <1>8, ControlStep

(* A special form that goes on with what it has to do. *)
LEMMA SpecialWaitGoesOn ==
  ASSUME NEW F, NEW m, NEW w \in SpecialWaits(F, m), NEW todo \in Seq(F),
         w.k \in TailForms => todo # <<>>
  PROVE  [w EXCEPT !.todo = todo] \in SpecialWaits(F, m)
<1> DEFINE u == [w EXCEPT !.todo = todo]
<1>1. w \in [k : Sequential, x : F, todo : Seq(F), env : Envs(m)]
  BY DEF SpecialWaits
<1>2. u \in [k : Sequential, x : F, todo : Seq(F), env : Envs(m)]
  BY <1>1
<1>3. u.k = w.k /\ u.x = w.x /\ u.todo = todo
  BY <1>1
<1> HIDE DEF u
<1>4. QED
  BY <1>2, <1>3 DEF SpecialWaits, u

LEMMA SequenceReturnsStep ==
  ASSUME NEW V, NEW F, Typed(V, F), SequenceReturns
  PROVE  Typed(V, F)'
<1> DEFINE w == [Top EXCEPT !.todo = Tail(@)]
           m == Len(frames)
<1>1. Returns(TailForms) /\ UNCHANGED <<data, session>>
  BY DEF SequenceReturns
<1>2. Top \in Waits(V, F, m) /\ Top.k \in TailForms /\ Below \in Seq(Waits(V, F, m))
      /\ ctl \in Controls(V, F, m) /\ ctl.mode = "return"
  BY <1>1, Waiting, InvFacts DEF Returns
<1>3. Top \in SpecialWaits(F, m)
  BY <1>2, WaitKinds DEF Sequential, TailForms
<1>4. Top.todo \in Seq(F) /\ Top.env \in Envs(m) /\ Top.todo # <<>>
  BY <1>2, <1>3 DEF SpecialWaits
<1>5. Top.todo[1] \in F /\ Tail(Top.todo) \in Seq(F) /\ (Len(Top.todo) # 1 => Tail(Top.todo) # <<>>)
  BY <1>4, ItemIn
<1>6. UNCHANGED <<program, data>> /\ torn' = torn
  BY <1>1 DEF data, session
<1>7. \/ ctl' = ctl /\ kont' = Below
      \/ /\ ctl' = Eval(Top.todo[1], Top.env)
         /\ kont' = IF Len(Top.todo) = 1 THEN Below ELSE Append(Below, w)
  BY DEF SequenceReturns
<1>8. CASE ctl' = ctl /\ kont' = Below
  BY <1>2, <1>6, <1>8, ControlStep
<1>9. CASE /\ ctl' = Eval(Top.todo[1], Top.env)
           /\ kont' = IF Len(Top.todo) = 1 THEN Below ELSE Append(Below, w)
  <2>1. ctl' \in Controls(V, F, m) /\ ctl'.mode # "rewrite"
    BY <1>4, <1>5, <1>9, EvalIs DEF Eval
  <2>2. kont' \in Seq(Waits(V, F, m))
    <3>1. CASE Len(Top.todo) = 1
      BY <3>1, <1>2, <1>9
    <3>2. CASE Len(Top.todo) # 1
      <4>1. Tail(Top.todo) # <<>>
        BY <3>2, <1>5
      <4>2. w \in SpecialWaits(F, m)
        BY <4>1, <1>3, <1>5, SpecialWaitGoesOn
      <4> HIDE DEF w
      <4>3. w \in Waits(V, F, m)
        BY <4>2 DEF Waits
      <4>4. QED
        BY <4>3, <3>2, <1>2, <1>9, PushIs
    <3>3. QED
      BY <3>1, <3>2
  <2>3. QED
    BY <2>1, <2>2, <1>6, ControlStep
<1>10. QED
  BY <1>7, <1>8, <1>9

LEMMA WhileReturnsStep ==
  ASSUME NEW V, NEW F, Typed(V, F), WhileReturns
  PROVE  Typed(V, F)'
<1> DEFINE m == Len(frames)
           todo == IF Top.todo = <<>> THEN Top.x.items ELSE Top.todo
           w == [Top EXCEPT !.todo = Tail(todo)]
<1>1. Returns({"while"}) /\ UNCHANGED <<data, session>>
  BY DEF WhileReturns
<1>2. Top \in Waits(V, F, m) /\ Top.k = "while" /\ Below \in Seq(Waits(V, F, m))
  BY <1>1, Waiting
<1>3. Top \in SpecialWaits(F, m)
  BY <1>2, WaitKinds DEF Sequential
<1>4. /\ Top.todo \in Seq(F) /\ Top.env \in Envs(m)
      /\ Top.x \in F /\ Top.x.op = "while" /\ Top.x.items # <<>>
  BY <1>2, <1>3 DEF SpecialWaits
<1>5. Top.x.items \in Seq(F)
  <2>1. IsForm(Top.x, F, Constants, Len(lets))
    BY <1>4, InvFacts DEF AllTexts
  <2>2. QED
    BY <2>1, <1>4 DEF IsForm, Sequential
<1>6. todo \in Seq(F) /\ todo # <<>>
  BY <1>4, <1>5
<1>7. UNCHANGED <<program, data>> /\ torn' = torn
  BY <1>1 DEF data, session
<1>8. \/ ctl' = Return(NIL) /\ kont' = Below
      \/ ctl' = Eval(todo[1], Top.env) /\ kont' = Append(Below, w)
  BY DEF WhileReturns
<1> HIDE DEF todo
<1>9. todo[1] \in F /\ Tail(todo) \in Seq(F)
  BY <1>6, ItemIn
<1>10. w \in SpecialWaits(F, m)
  BY <1>2, <1>3, <1>9, SpecialWaitGoesOn DEF TailForms
<1> HIDE DEF w
<1>11. w \in Waits(V, F, m)
  BY <1>10 DEF Waits
<1>12. kont' \in Seq(Waits(V, F, m))
  BY <1>2, <1>8, <1>11, PushIs
<1>13. ctl' \in Controls(V, F, m) /\ ctl'.mode # "rewrite"
  BY <1>4, <1>8, <1>9, InvFacts, ReturnIs, EvalIs DEF Eval, Return
<1>14. QED
  BY <1>7, <1>12, <1>13, ControlStep

LEMMA Prog1ReturnsStep ==
  ASSUME NEW V, NEW F, Typed(V, F), Prog1Returns
  PROVE  Typed(V, F)'
<1> DEFINE m == Len(frames)
           val == IF Top.val = Unbound THEN ctl.val ELSE Top.val
           w == [Top EXCEPT !.todo = Tail(@), !.val = val]
<1>1. Returns({"prog1"}) /\ UNCHANGED <<data, session>>
  BY DEF Prog1Returns
<1>2. Top \in Waits(V, F, m) /\ Top.k = "prog1" /\ Below \in Seq(Waits(V, F, m)) /\ ctl.val \in V
  BY <1>1, Waiting
<1>3. Top \in Prog1Waits(V, F, m)
  BY <1>2, WaitKinds
<1>4. Top.todo \in Seq(F) /\ Top.env \in Envs(m) /\ Top.val \in V
  BY <1>3 DEF Prog1Waits
<1>5. val \in V
  BY <1>2, <1>4
<1>6. UNCHANGED <<program, data>> /\ torn' = torn
  BY <1>1 DEF data, session
<1>7. IF Top.todo = <<>> THEN ctl' = Return(val) /\ kont' = Below
      ELSE ctl' = Eval(Top.todo[1], Top.env) /\ kont' = Append(Below, w)
  BY DEF Prog1Returns
<1> HIDE DEF val
<1>8. CASE Top.todo = <<>>
  <2>1. ctl' \in Controls(V, F, m) /\ ctl'.mode # "rewrite"
    BY <1>5, <1>7, <1>8, ReturnIs DEF Return
  <2>2. QED
    BY <2>1, <1>2, <1>6, <1>7, <1>8, ControlStep
<1>9. CASE Top.todo # <<>>
  <2>1. Top.todo[1] \in F /\ Tail(Top.todo) \in Seq(F)
    BY <1>4, <1>9, ItemIn
  <2>2. w \in Prog1Waits(V, F, m)
    BY <2>1, <1>3, <1>5 DEF Prog1Waits
  <2> HIDE DEF w
  <2>3. w \in Waits(V, F, m)
    BY <2>2 DEF Waits
  <2>4. kont' \in Seq(Waits(V, F, m))
    BY <2>3, <1>2, <1>7, <1>9, PushIs
  <2>5. ctl' \in Controls(V, F, m) /\ ctl'.mode # "rewrite"
    BY <2>1, <1>4, <1>7, <1>9, EvalIs DEF Eval
  <2>6. QED
    BY <2>4, <2>5, <1>6, ControlStep
<1>10. QED
  BY <1>8, <1>9

-----------------------------------------------------------------------------
(* Assignment and define. *)

(* A step that makes frames, or changes some, and leaves closures and lets. *)
LEMMA FramesStep ==
  ASSUME NEW V, NEW F, Typed(V, F), UNCHANGED <<program, lets, closures, torn>>,
         frames' \in Seq(Frames(V)), Len(frames) <= Len(frames'),
         vcell' \in [Names -> V],
         ctl' \in Controls(V, F, Len(frames')), ctl'.mode # "rewrite",
         kont' \in Seq(Waits(V, F, Len(frames')))
  PROVE  Typed(V, F)'
<1>1. lets' = lets /\ closures' = closures /\ program' = program /\ torn' = torn
  OBVIOUS
<1>2. HeapTyped(V, F) /\ Rewritten /\ Len(frames) \in Nat
  BY Lengths DEF Typed
<1>3. Len(frames') \in Nat
  OBVIOUS
<1>4. Seq(Procedures(F, Len(frames))) \subseteq Seq(Procedures(F, Len(frames')))
  <2>1. Procedures(F, Len(frames)) \subseteq Procedures(F, Len(frames'))
    BY <1>2, <1>3, DataGrows
  <2>2. QED
    BY <2>1, SeqWiden
<1>5. HeapTyped(V, F)'
  BY <1>1, <1>2, <1>4 DEF HeapTyped, main
<1>6. StackTyped(V, F)'
  BY DEF StackTyped
<1>7. Rewritten'
  BY <1>1, <1>2 DEF Rewritten
<1>8. QED
  BY <1>5, <1>6, <1>7 DEF Typed

LEMMA ElementIn ==
  ASSUME NEW S, NEW s \in Seq(S), NEW i \in 1 .. Len(s)
  PROVE  s[i] \in S
OBVIOUS

LEMMA ReplaceIn ==
  ASSUME NEW S, NEW s \in Seq(S), NEW i \in 1 .. Len(s), NEW v \in S
  PROVE  [s EXCEPT ![i] = v] \in Seq(S) /\ Len([s EXCEPT ![i] = v]) = Len(s)
OBVIOUS

LEMMA ActualsReplaced ==
  ASSUME NEW V, NEW f \in Frames(V), NEW a \in Seq(V)
  PROVE  [f EXCEPT !.actuals = a] \in Frames(V)
BY DEF Frames

LEMMA VarsReplaced ==
  ASSUME NEW V, NEW f \in Frames(V), NEW names \in Seq(Names)
  PROVE  [f EXCEPT !.vars = names] \in Frames(V)
BY DEF Frames

(* The frames after an assignment. *)
LEMMA AssignIs ==
  ASSUME NEW V, NEW F, Typed(V, F), NEW n \in Names, NEW env \in Envs(Len(frames)), NEW v \in V,
         Assign(envlookup(n, env), n, v)
  PROVE  frames' \in Seq(Frames(V)) /\ Len(frames') = Len(frames) /\ vcell' \in [Names -> V]
<1> DEFINE p == envlookup(n, env)
           fr == frames[p.frame]
           a == [fr.actuals EXCEPT ![p.at] = v]
           g == [fr EXCEPT !.actuals = a]
<1>1. frames \in Seq(Frames(V)) /\ Len(frames) \in Nat /\ vcell \in [Names -> V]
  BY InvFacts DEF HeapTyped
<1>2. /\ frames' = IF p.at > 0 THEN [frames EXCEPT ![p.frame].actuals[p.at] = v] ELSE frames
      /\ vcell' = IF p.at = 0 THEN [vcell EXCEPT ![n] = v] ELSE vcell
  BY DEF Assign
<1>3. vcell' \in [Names -> V]
  BY <1>1, <1>2
<1>4. CASE p.at > 0
  <2>1. p.frame \in 1 .. Len(frames) /\ p.at = InFrame(n, fr)
    <3>1. \/ p = [frame |-> 0, at |-> 0]
          \/ p.frame \in 1 .. Len(frames) /\ p.at = InFrame(n, frames[p.frame])
      BY <1>1, LookupIs
    <3>2. QED
      BY <3>1, <1>4
  <2>2. frames' = [frames EXCEPT ![p.frame] = g]
    BY <1>2, <1>4
  <2>3. fr \in Frames(V)
    BY <1>1, <2>1
  <2> HIDE DEF fr, p
  <2>4. p.at \in 1 .. Len(fr.actuals) /\ fr.actuals \in Seq(V)
    BY <2>1, <2>3, <1>4, InFrameIs DEF Frames
  <2>5. a \in Seq(V)
    BY <2>4
  <2>6. g \in Frames(V)
    BY <2>3, <2>5, ActualsReplaced
  <2> HIDE DEF g
  <2>7. frames' \in Seq(Frames(V)) /\ Len(frames') = Len(frames)
    <3> DEFINE S == Frames(V)
    <3> HIDE DEF S
    <3>1. frames \in Seq(S) /\ g \in S
      BY <1>1, <2>6 DEF S
    <3>2. frames' \in Seq(S) /\ Len(frames') = Len(frames)
      BY <3>1, <2>1, <2>2, ReplaceIn
    <3>3. QED
      BY <3>2 DEF S
  <2>8. QED
    BY <2>7, <1>3
<1>5. CASE ~(p.at > 0)
  BY <1>1, <1>2, <1>3, <1>5
<1>6. QED
  BY <1>4, <1>5

(* A set! or define whose value has come. *)
LEMMA AssignedName ==
  ASSUME NEW V, NEW F, Typed(V, F), NEW o \in {"set!", "define"}, Returns({o})
  PROVE  /\ Top.x.name \in Names /\ Top.env \in Envs(Len(frames)) /\ ctl.val \in V
         /\ Below \in Seq(Waits(V, F, Len(frames)))
         /\ ctl \in Controls(V, F, Len(frames)) /\ ctl.mode = "return"
         /\ Return(Error) \in Controls(V, F, Len(frames))
<1>1. /\ Top \in Waits(V, F, Len(frames)) /\ Top.k = o /\ ctl.val \in V
      /\ Below \in Seq(Waits(V, F, Len(frames)))
  BY Waiting
<1>2. Top \in SpecialWaits(F, Len(frames))
  BY <1>1, WaitKinds DEF Sequential
<1>3. Top.x \in F /\ Top.x.op = o /\ Top.env \in Envs(Len(frames))
  BY <1>1, <1>2 DEF SpecialWaits
<1>4. IsForm(Top.x, F, Constants, Len(lets))
  BY <1>3, InvFacts DEF AllTexts
<1>5. Top.x.name \in Names
  BY <1>3, <1>4 DEF IsForm, Sequential
<1>6. Error \in V /\ ctl \in Controls(V, F, Len(frames))
  BY InvFacts
<1>7. Return(Error) \in Controls(V, F, Len(frames))
  BY <1>6, ReturnIs
<1>8. QED
  BY <1>1, <1>3, <1>5, <1>6, <1>7 DEF Returns

LEMMA SetqStep ==
  ASSUME NEW V, NEW F, Typed(V, F), leval_setq
  PROVE  Typed(V, F)'
<1> DEFINE n == Top.x.name
           p == envlookup(n, Top.env)
           m == Len(frames)
<1>1. /\ Returns({"set!"}) /\ Assign(p, n, ctl.val) /\ kont' = Below
      /\ ctl' = IF p.at = -2 THEN Return(Error) ELSE ctl
      /\ UNCHANGED <<program, lets, closures, torn>>
  BY DEF leval_setq, session
<1>2. /\ n \in Names /\ Top.env \in Envs(m) /\ ctl.val \in V
      /\ Below \in Seq(Waits(V, F, m))
      /\ ctl \in Controls(V, F, m) /\ ctl.mode = "return"
      /\ Return(Error) \in Controls(V, F, m)
  BY <1>1, AssignedName
<1>3. frames' \in Seq(Frames(V)) /\ Len(frames') = Len(frames) /\ vcell' \in [Names -> V]
  <2> HIDE DEF n
  <2>1. QED
    BY <1>1, <1>2, AssignIs
<1>4. ctl' \in Controls(V, F, m) /\ ctl'.mode # "rewrite"
  BY <1>1, <1>2 DEF Return
<1>5. Len(frames) \in Nat
  BY InvFacts
<1>6. QED
  BY <1>1, <1>2, <1>3, <1>4, <1>5, FramesStep

LEMMA DefineStep ==
  ASSUME NEW V, NEW F, Typed(V, F), leval_define
  PROVE  Typed(V, F)'
<1> DEFINE n == Top.x.name
           p == envlookup(n, Top.env)
           m == Len(frames)
           e == Top.env[1]
           g == [frames[e] EXCEPT !.vars = <<n>> \o @]
<1>1. Returns({"define"}) /\ kont' = Below /\ UNCHANGED <<program, lets, closures, torn>>
  BY DEF leval_define, session
<1>2. /\ n \in Names /\ Top.env \in Envs(m) /\ ctl.val \in V
      /\ Below \in Seq(Waits(V, F, m))
      /\ ctl \in Controls(V, F, m) /\ ctl.mode = "return"
      /\ Return(Error) \in Controls(V, F, m)
  BY <1>1, AssignedName
<1>3. m \in Nat /\ frames \in Seq(Frames(V)) /\ vcell \in [Names -> V]
  BY InvFacts DEF HeapTyped
<1>4. CASE p.at = 0 /\ Top.env # <<>>
  <2>1. /\ frames' = [frames EXCEPT ![e].vars = <<n>> \o @]
        /\ ctl' = [mode |-> "define", name |-> n, val |-> ctl.val, frame |-> e]
        /\ vcell' = vcell
    BY <1>4 DEF leval_define
  <2>2. e \in 1 .. m
    BY <1>2, <1>4 DEF Envs
  <2>3. frames[e] \in Frames(V) /\ frames[e].vars \in Seq(Names)
    <3> HIDE DEF e
    <3>1. frames[e] \in Frames(V)
      BY <1>3, <2>2, ElementIn
    <3>2. QED
      BY <3>1 DEF Frames
  <2>4. <<n>> \o frames[e].vars \in Seq(Names)
    BY <2>3, <1>2
  <2>5. g \in Frames(V) /\ frames' = [frames EXCEPT ![e] = g]
    BY <2>1, <2>3, <2>4, VarsReplaced
  <2>6. ctl' \in Controls(V, F, m) /\ ctl'.mode # "rewrite"
    BY <2>1, <2>2, <1>2 DEF Controls, Defines
  <2> HIDE DEF g, e
  <2>7. frames' \in Seq(Frames(V)) /\ Len(frames') = Len(frames)
    <3> DEFINE S == Frames(V)
    <3> HIDE DEF S
    <3>1. frames \in Seq(S) /\ g \in S
      BY <1>3, <2>5 DEF S
    <3>2. frames' \in Seq(S) /\ Len(frames') = Len(frames)
      BY <3>1, <2>2, <2>5, ReplaceIn
    <3>3. QED
      BY <3>2 DEF S
  <2>8. vcell' \in [Names -> V] /\ Len(frames) <= Len(frames')
    BY <1>3, <2>1, <2>7
  <2>9. ctl' \in Controls(V, F, Len(frames')) /\ kont' \in Seq(Waits(V, F, Len(frames')))
    BY <1>1, <1>2, <2>6, <2>7
  <2>10. QED
    BY <1>1, <2>6, <2>7, <2>8, <2>9, FramesStep
<1>5. CASE ~(p.at = 0 /\ Top.env # <<>>)
  <2>1. Assign(p, n, ctl.val) /\ ctl' = IF p.at = -2 THEN Return(Error) ELSE ctl
    BY <1>5 DEF leval_define
  <2>2. frames' \in Seq(Frames(V)) /\ Len(frames') = Len(frames) /\ vcell' \in [Names -> V]
    <3> HIDE DEF n
    <3>1. QED
      BY <2>1, <1>2, AssignIs
  <2>3. ctl' \in Controls(V, F, m) /\ ctl'.mode # "rewrite"
    BY <2>1, <1>2 DEF Return
  <2>4. QED
    BY <1>1, <1>2, <1>3, <2>2, <2>3, FramesStep
<1>6. QED
  BY <1>4, <1>5

LEMMA DefineActualStep ==
  ASSUME NEW V, NEW F, Typed(V, F), DefineActual
  PROVE  Typed(V, F)'
<1> DEFINE m == Len(frames)
           e == ctl.frame
           a == <<ctl.val>> \o frames[e].actuals
           g == [frames[e] EXCEPT !.actuals = a]
<1>1. /\ ctl.mode = "define" /\ ctl' = Return(ctl.val) /\ vcell' = vcell /\ kont' = kont
      /\ frames' = [frames EXCEPT ![e].actuals = <<ctl.val>> \o @]
      /\ UNCHANGED <<program, lets, closures, torn>>
  BY DEF DefineActual, session
<1>2. /\ m \in Nat /\ frames \in Seq(Frames(V)) /\ vcell \in [Names -> V]
      /\ ctl \in Controls(V, F, m) /\ kont \in Seq(Waits(V, F, m))
  BY InvFacts DEF HeapTyped
<1>3. ctl \in Defines(V, m)
  BY <1>1, <1>2, ControlKinds
<1>4. e \in 1 .. m /\ ctl.val \in V
  BY <1>3 DEF Defines
<1>5. frames[e] \in Frames(V) /\ frames[e].actuals \in Seq(V)
  <2> HIDE DEF e
  <2>1. frames[e] \in Frames(V)
    BY <1>2, <1>4, ElementIn
  <2>2. QED
    BY <2>1 DEF Frames
<1>6. a \in Seq(V)
  BY <1>4, <1>5
<1>7. g \in Frames(V) /\ frames' = [frames EXCEPT ![e] = g]
  BY <1>1, <1>5, <1>6, ActualsReplaced
<1>8. ctl' \in Controls(V, F, m) /\ ctl'.mode # "rewrite"
  BY <1>1, <1>4, ReturnIs DEF Return
<1> HIDE DEF g, e
<1>9. frames' \in Seq(Frames(V)) /\ Len(frames') = Len(frames)
  <2> DEFINE S == Frames(V)
  <2> HIDE DEF S
  <2>1. frames \in Seq(S) /\ g \in S
    BY <1>2, <1>7 DEF S
  <2>2. frames' \in Seq(S) /\ Len(frames') = Len(frames)
    BY <2>1, <1>4, <1>7, ReplaceIn
  <2>3. QED
    BY <2>2 DEF S
<1>10. vcell' \in [Names -> V] /\ Len(frames) <= Len(frames')
  BY <1>1, <1>2, <1>9
<1>11. ctl' \in Controls(V, F, Len(frames')) /\ kont' \in Seq(Waits(V, F, Len(frames')))
  BY <1>1, <1>2, <1>8, <1>9
<1>12. QED
  BY <1>1, <1>8, <1>9, <1>10, <1>11, FramesStep

-----------------------------------------------------------------------------
(* Calls: the built-in procedures. *)

LEMMA BuiltinsAre ==
  ASSUME NEW f \in Builtins
  PROVE  /\ f.t = "subr" /\ f.arity \in Nat
         /\ f.type \in {"fixed", "2n", "lsubr"}
         /\ f.type = "2n" => f.fn = "+" /\ f.arity = 2
         /\ f.type = "lsubr" => f.fn \in Primitives /\ Needs(f.fn) = 0
         /\ f.fn = "apply" => f.type = "fixed" /\ f.arity = 2
         /\ f.fn # "apply" => f.fn \in Primitives
         /\ f.type = "fixed" /\ f.fn # "apply" => f.arity >= Needs(f.fn)
BY DEF Builtins, Subr, Primitives, Needs

(* A subr that has enough gives a value. *)
LEMMA SubrIsValue ==
  ASSUME NEW V, NEW n, AllValues(V, n), NEW f \in Builtins, f.fn # "apply",
         NEW v \in Seq(V), Enough(f, Len(v))
  PROVE  IsValue(Primitive(f.fn, v), V, n)
<1>1. f.fn \in Primitives /\ Len(v) \in Nat
  BY BuiltinsAre
<1>2. Len(v) >= Needs(f.fn)
  BY <1>1, BuiltinsAre DEF Enough, Needs
<1>3. QED
  BY <1>1, <1>2, PrimitiveIsValue

LEMMA RangeInduction ==
  ASSUME NEW S, NEW k \in Nat, k >= 1, 1 \in S,
         \A n \in 1 .. k : n \in S /\ n < k => n + 1 \in S
  PROVE  k \in S
<1> DEFINE Out == {n \in 1 .. k : n \notin S}
<1>1. SUFFICES ASSUME Out # {} PROVE FALSE
  OBVIOUS
<1>2. Out \subseteq Nat
  OBVIOUS
<1>3. PICK n \in Out : \A m \in Out : n <= m
  <2> HIDE DEF Out
  <2>1. QED
    BY <1>1, <1>2, LeastOf
<1>4. n \in 1 .. k /\ n \notin S /\ n # 1
  OBVIOUS
<1>5. n - 1 \in 1 .. k /\ n - 1 < k /\ (n - 1) + 1 = n /\ ~(n <= n - 1)
  BY <1>4
<1>6. n - 1 \in S
  BY <1>3, <1>5
<1>7. QED
  BY <1>4, <1>5, <1>6

(* What a tc_subr_2n has after i of its arguments. *)
CombineStep(acc, fn, s, i) ==
  IF i = 1 THEN s[1] ELSE IF acc[i - 1] = Error THEN Error ELSE Primitive(fn, <<acc[i - 1], s[i]>>)
CombineUpTo(acc, fn, s, k) == [i \in 1 .. k |-> CombineStep(acc, fn, s, i)]

LEMMA CombineExists ==
  ASSUME NEW fn, NEW s, NEW k \in Nat, k >= 1
  PROVE  \E acc : acc = CombineUpTo(acc, fn, s, k)
<1> DEFINE AtStep(f, i) == CombineStep(f, fn, s, i)
           Def(f, m) == f = CombineUpTo(f, fn, s, m)
           S == {m \in 1 .. k : \E f : Def(f, m)}
<1>1. 1 \in S
  <2> DEFINE g == [i \in 1 .. 1 |-> s[1]]
  <2>1. \A i \in 1 .. 1 : AtStep(g, i) = s[1]
    BY DEF CombineStep
  <2>2. Def(g, 1)
    BY <2>1 DEF CombineUpTo
  <2>3. 1 \in 1 .. k /\ \E f : Def(f, 1)
    <3> HIDE DEF Def, g
    <3>1. QED
      BY <2>2
  <2>4. QED
    BY <2>3
<1>2. ASSUME NEW m \in 1 .. k, m \in S /\ m < k PROVE m + 1 \in S
  <2>1. PICK f : Def(f, m)
    BY <1>2
  <2> DEFINE g == [i \in 1 .. m + 1 |-> IF i = m + 1 THEN AtStep(f, m + 1) ELSE f[i]]
  <2>2. m \in Nat /\ m + 1 \in 1 .. k
    BY <1>2
  <2>3. ASSUME NEW i \in 1 .. m + 1 PROVE g[i] = AtStep(g, i)
    <3>1. i # 1 => i - 1 \in 1 .. m /\ i - 1 \in 1 .. m + 1 /\ i - 1 # m + 1
      BY <2>2
    <3>2. i # 1 => g[i - 1] = f[i - 1]
      BY <3>1
    <3>3. AtStep(g, i) = AtStep(f, i)
      BY <3>2 DEF CombineStep
    <3>4. CASE i = m + 1
      BY <3>3, <3>4
    <3>5. CASE i # m + 1
      <4>1. i \in 1 .. m
        BY <2>2, <3>5
      <4>2. f[i] = AtStep(f, i)
        BY <2>1, <4>1 DEF CombineUpTo
      <4>3. g[i] = f[i]
        BY <3>5
      <4>4. QED
        BY <3>3, <4>2, <4>3
    <3>6. QED
      BY <3>4, <3>5
  <2>4. g = [i \in 1 .. m + 1 |-> g[i]]
    OBVIOUS
  <2>5. Def(g, m + 1)
    <3> HIDE DEF g
    <3>1. QED
      BY <2>3, <2>4 DEF CombineUpTo
  <2>6. \E h : Def(h, m + 1)
    <3> HIDE DEF Def, g
    <3>1. QED
      BY <2>5
  <2>7. QED
    BY <2>2, <2>6
<1>3. k \in S
  <2> HIDE DEF S
  <2>1. QED
    BY <1>1, <1>2, RangeInduction
<1>4. QED
  BY <1>3

(* The only such procedure is +. *)
LEMMA CombinedIsValue ==
  ASSUME NEW V, NEW n, AllValues(V, n), NEW s \in Seq(V), s # <<>>
  PROVE  IsValue(Combined("+", s), V, n)
<1> DEFINE k == Len(s)
           Def(f) == CombineUpTo(f, "+", s, k)
           acc == CHOOSE f : f = Def(f)
<1>1. k \in Nat /\ k >= 1 /\ s[1] \in V
  BY ItemIn
<1>2. \E f : f = Def(f)
  <2> HIDE DEF k
  <2>1. QED
    BY <1>1, CombineExists
<1>3. acc = Def(acc)
  <2> HIDE DEF Def
  <2>1. QED
    BY <1>2
<1>4. Combined("+", s) = acc[k]
  BY DEF Combined, CombineUpTo, CombineStep
<1> HIDE DEF acc
<1>5. \A i \in 1 .. k : acc[i] = CombineStep(acc, "+", s, i)
  <2> HIDE DEF k
  <2>1. QED
    BY <1>1, <1>3 DEF CombineUpTo
<1>6. IsValue(Error, V, n) /\ \A v \in V : IsValue(v, V, n)
  BY MarkersAreValues
<1> DEFINE S == {i \in 1 .. k : IsValue(acc[i], V, n)}
<1> HIDE DEF k
<1>7. 1 \in S
  <2>1. CombineStep(acc, "+", s, 1) = s[1]
    BY DEF CombineStep
  <2>2. 1 \in 1 .. k
    BY <1>1
  <2>3. QED
    BY <2>1, <2>2, <1>1, <1>5, <1>6
<1>8. ASSUME NEW i \in 1 .. k, i \in S /\ i < k PROVE i + 1 \in S
  <2>1. /\ i + 1 \in 1 .. k /\ i + 1 # 1 /\ (i + 1) - 1 = i
        /\ IsValue(acc[i], V, n)
    BY <1>1, <1>8
  <2>2. acc[i + 1] \in {Error, Primitive("+", <<acc[i], s[i + 1]>>)}
    BY <1>5, <2>1 DEF CombineStep
  <2>3. IsValue(Primitive("+", <<acc[i], s[i + 1]>>), V, n)
    <3>1. <<acc[i], s[i + 1]>>[1] = acc[i]
      OBVIOUS
    <3>2. QED
      BY <2>1, <3>1, SumIsValue
  <2>4. QED
    BY <2>1, <2>2, <2>3, <1>6
<1>9. k \in S
  <2> HIDE DEF S
  <2>1. QED
    BY <1>1, <1>7, <1>8, RangeInduction
<1>10. QED
  BY <1>4, <1>9

LEMMA Padding ==
  ASSUME NEW S, NEW s \in Seq(S), NEW v \in S, NEW k \in Nat
  PROVE  /\ SubSeq(s \o [i \in 1 .. k |-> v], 1, k) \in Seq(S)
         /\ Len(SubSeq(s \o [i \in 1 .. k |-> v], 1, k)) = k
<1> DEFINE q == [i \in 1 .. k |-> v]
           r == s \o q
<1>1. q \in Seq(S) /\ Len(q) = k
  OBVIOUS
<1>2. r \in Seq(S) /\ Len(r) = Len(s) + k /\ Len(s) \in Nat
  BY <1>1
<1> HIDE DEF r
<1>3. SubSeq(r, 1, k) \in Seq(S) /\ Len(SubSeq(r, 1, k)) = k
  BY <1>2
<1>4. QED
  BY <1>3 DEF r

LEMMA TakenIs ==
  ASSUME NEW V, NIL \in V, NEW f \in Builtins, NEW args \in Seq(V)
  PROVE  Taken(f, args) \in Seq(V) /\ Enough(f, Len(Taken(f, args)))
<1>1. f.t = "subr" /\ f.arity \in Nat /\ (f.type = "2n" => f.arity = 2) /\ IsFunction(f) /\ Len(args) \in Nat
  BY BuiltinsAre DEF IsFunction
<1>2. CASE f.type = "lsubr" \/ (f.type = "2n" /\ Len(args) > 2)
  <2>1. Taken(f, args) = args
    BY <1>2 DEF Taken
  <2>2. QED
    BY <2>1, <1>1, <1>2 DEF Enough
<1>3. CASE ~(f.type = "lsubr" \/ (f.type = "2n" /\ Len(args) > 2))
  <2>1. Taken(f, args) = SubSeq(args \o [i \in 1 .. f.arity |-> NIL], 1, f.arity)
    BY <1>3 DEF Taken
  <2>2. Taken(f, args) \in Seq(V) /\ Len(Taken(f, args)) = f.arity
    BY <2>1, <1>1, Padding
  <2>3. QED
    BY <2>2, <1>1 DEF Enough
<1>4. QED
  BY <1>2, <1>3

LEMMA ApplyingIs ==
  ASSUME NEW V, NEW F, Typed(V, F), NEW v \in Seq(V), Len(v) = 2
  PROVE  Applying(v) \in Controls(V, F, Len(frames)) /\ Applying(v).mode # "rewrite"
<1>1. v[1] \in V /\ v[2] \in V
  <2>1. 1 \in 1 .. Len(v) /\ 2 \in 1 .. Len(v)
    OBVIOUS
  <2>2. QED
    BY <2>1, ElementIn
<1>2. Error \in V /\ (v[2].t = "list" => v[2].items \in Seq(V))
  BY <1>1, InvFacts DEF IsValue
<1>3. CASE v[2] = NIL
  <2>1. <<>> \in Seq(V)
    OBVIOUS
  <2>2. Applying(v) = [mode |-> "apply", f |-> v[1], args |-> <<>>]
    BY <1>3 DEF Applying
  <2>3. QED
    BY <2>1, <2>2, <1>1 DEF Controls, Applies
<1>4. CASE v[2] # NIL /\ v[2].t = "list"
  <2>1. Applying(v) = [mode |-> "apply", f |-> v[1], args |-> v[2].items]
    BY <1>4 DEF Applying
  <2>2. QED
    BY <2>1, <1>1, <1>2, <1>4 DEF Controls, Applies
<1>5. CASE v[2] # NIL /\ v[2].t # "list"
  <2>1. Applying(v) = Return(Error)
    BY <1>5 DEF Applying
  <2>2. QED
    BY <2>1, <1>2, ReturnIs DEF Return
<1>6. QED
  BY <1>3, <1>4, <1>5

-----------------------------------------------------------------------------
(* Calls: frames and bodies. *)

(* A value is returned. *)
LEMMA ValueReturned ==
  ASSUME NEW V, NEW F, Typed(V, F), UNCHANGED <<program, data>>, torn' = torn,
         NEW v, IsValue(v, V, Len(closures)), ctl' = Return(v),
         kont' \in Seq(Waits(V, F, Len(frames)))
  PROVE  \E W : Typed(W, F)'
<1>0. PICK W : W = V \union {v}
  OBVIOUS
<1>1. Typed(W, F) /\ v \in W /\ V \subseteq W
  BY <1>0, AddValue
<1>2. ctl' \in Controls(W, F, Len(frames)) /\ ctl'.mode # "rewrite"
  BY <1>1, ReturnIs DEF Return
<1>3. kont' \in Seq(Waits(W, F, Len(frames)))
  <2>1. Len(frames) \in Nat /\ Len(frames) <= Len(frames) /\ F \subseteq F
    BY InvFacts
  <2>2. Waits(V, F, Len(frames)) \subseteq Waits(W, F, Len(frames))
    BY <1>1, <2>1, WaitsGrow
  <2>3. QED
    BY <2>2, SeqWiden
<1>4. Typed(W, F)'
  BY <1>1, <1>2, <1>3, ControlStep
<1>5. QED
  BY <1>4

LEMMA FrameIs ==
  ASSUME NEW W, NEW formals \in Formals, NEW vals \in Seq(W), List(vals) \in W
  PROVE  Frame(formals, vals) \in Frames(W)
<1>1. formals.vars \in Seq(Names) /\ formals.rest \in Names \union {NoRest}
  BY DEF Formals
<1>2. CASE formals.vars = <<>> /\ formals.rest # NoRest
  <2>1. Frame(formals, vals) = [vars |-> <<formals.rest>>, rest |-> NoRest, actuals |-> <<List(vals)>>]
    BY <1>2 DEF Frame
  <2>2. <<formals.rest>> \in Seq(Names) /\ <<List(vals)>> \in Seq(W)
    BY <1>1, <1>2
  <2>3. QED
    BY <2>1, <2>2 DEF Frames
<1>3. CASE ~(formals.vars = <<>> /\ formals.rest # NoRest)
  BY <1>1, <1>3 DEF Frame, Frames
<1>4. QED
  BY <1>2, <1>3

LEMMA EnterBodyStep ==
  ASSUME NEW V, NEW F, Typed(V, F), UNCHANGED <<program, lets, closures, torn>>, vcell' = vcell,
         NEW body \in F, NEW formals \in Formals, NEW vals \in Seq(V), NEW env \in Envs(Len(frames)),
         NEW below \in Seq(Waits(V, F, Len(frames))),
         EnterBody(body, formals, vals, env, below)
  PROVE  \E W : Typed(W, F)'
<1> DEFINE m == Len(frames)
           g == Frame(formals, vals)
<1>0. PICK W : W = V \union {List(vals)}
  OBVIOUS
<1>1. /\ frames' = Append(frames, g) /\ ctl' = Eval(body, <<m + 1>> \o env) /\ kont' = below
  BY DEF EnterBody
<1>2. Typed(W, F) /\ List(vals) \in W /\ V \subseteq W
  <2>1. IsValue(List(vals), V, Len(closures))
    BY InvFacts, ListIsValue
  <2>2. QED
    BY <1>0, <2>1, AddValue
<1>3. g \in Frames(W)
  <2>1. vals \in Seq(W)
    BY <1>2
  <2>2. QED
    BY <1>2, <2>1, FrameIs
<1>4. m \in Nat /\ m + 1 \in Nat /\ m <= m + 1 /\ F \subseteq F
  BY InvFacts
<1>5. frames \in Seq(Frames(W)) /\ vcell' \in [Names -> W]
  BY <1>2, InvFacts DEF HeapTyped
<1> HIDE DEF g
<1>6. frames' \in Seq(Frames(W)) /\ Len(frames') = m + 1
  <2> DEFINE S == Frames(W)
  <2> HIDE DEF S
  <2>1. frames \in Seq(S) /\ g \in S
    BY <1>3, <1>5 DEF S
  <2>2. QED
    BY <1>1, <2>1 DEF S
<1>7. ctl' \in Controls(W, F, m + 1) /\ ctl'.mode # "rewrite"
  <2>1. env \in Envs(m + 1)
    <3> HIDE DEF m
    <3>1. Envs(m) \subseteq Envs(m + 1)
      BY <1>4, EnvsGrow
    <3>2. QED
      BY <3>1 DEF m
  <2>2. <<m + 1>> \o env \in Envs(m + 1)
    <3> HIDE DEF m
    <3>1. QED
      BY <1>4, <2>1 DEF Envs
  <2>3. QED
    BY <1>1, <2>2, EvalIs DEF Eval
<1>8. kont' \in Seq(Waits(W, F, m + 1))
  <2>1. below \in Seq(Waits(V, F, m))
    OBVIOUS
  <2> HIDE DEF m
  <2>2. Waits(V, F, m) \subseteq Waits(W, F, m + 1)
    BY <1>2, <1>4, WaitsGrow
  <2>3. QED
    BY <1>1, <2>1, <2>2, SeqWiden
<1>9. Len(frames) <= Len(frames')
  BY <1>4, <1>6
<1>10. ctl' \in Controls(W, F, Len(frames')) /\ kont' \in Seq(Waits(W, F, Len(frames')))
  BY <1>6, <1>7, <1>8
<1>11. Typed(W, F)'
  BY <1>2, <1>5, <1>6, <1>7, <1>9, <1>10, FramesStep
<1>12. QED
  BY <1>11

LEMMA WaitIs ==
  ASSUME NEW V, NEW F, NEW m, NEW s \in Seq(Waits(V, F, m)), NEW k \in {"apply", "traced"}
  PROVE  Append(s, Wait(k)) \in Seq(Waits(V, F, m))
<1>1. Wait(k) \in Waits(V, F, m)
  BY DEF Wait, BodyWaits, Waits
<1>2. QED
  BY <1>1, PushIs

(* What a value that is a function is. *)
LEMMA FunctionIs ==
  ASSUME NEW V, NEW F, Typed(V, F), NEW f \in V
  PROVE  /\ f.t # "let"
         /\ f.t = "subr" => f \in Builtins
         /\ f.t = "closure" =>
              /\ closures[f.id].formals \in Formals /\ closures[f.id].body \in F
              /\ closures[f.id].env \in Envs(Len(frames))
<1>1. IsValue(f, V, Len(closures)) /\ closures \in Seq(Procedures(F, Len(frames)))
  BY InvFacts DEF HeapTyped
<1>2. f.t # "let" /\ (f.t = "subr" => f \in Builtins) /\ (f.t = "closure" => f.id \in 1 .. Len(closures))
  BY <1>1 DEF IsValue, ValueTypes
<1>3. f.t = "closure" => closures[f.id] \in Procedures(F, Len(frames))
  BY <1>1, <1>2, ElementIn
<1>4. QED
  BY <1>2, <1>3 DEF Procedures

LEMMA FinishStep ==
  ASSUME NEW V, NEW F, Typed(V, F), UNCHANGED <<lets, vcell, closures, session>>,
         NEW f \in Functions1(V, F, Len(frames)), NEW vals \in Seq(V), Enough(f, Len(vals)),
         NEW below \in Seq(Waits(V, F, Len(frames))),
         Finish(f, vals, below)
  PROVE  \E W : Typed(W, F)'
<1> DEFINE c == closures[f.id]
<1>1. UNCHANGED <<program, lets, closures, torn>> /\ vcell' = vcell
  BY DEF session
<1>2. frames' = frames => UNCHANGED <<program, data>>
  BY <1>1 DEF data
<1>3. CASE f \in V
  <2>1. f.t # "let" /\ f.t \in {"subr", "closure"}
    BY <1>3, FunctionIs DEF Enough, IsFunction
  <2>2. CASE f.t = "closure"
    <3>1. c.formals \in Formals /\ c.body \in F /\ c.env \in Envs(Len(frames))
      BY <1>3, <2>2, FunctionIs
    <3>2. PICK b \in Seq(Waits(V, F, Len(frames))) : EnterBody(c.body, c.formals, vals, c.env, b)
      <4>1. Append(below, Wait("traced")) \in Seq(Waits(V, F, Len(frames)))
        BY WaitIs
      <4>2. EnterBody(c.body, c.formals, vals, c.env,
                      IF c.traced THEN Append(below, Wait("traced")) ELSE below)
        BY <2>2 DEF Finish
      <4>3. QED
        BY <4>1, <4>2
    <3> HIDE DEF c
    <3>3. QED
      BY <1>1, <3>1, <3>2, EnterBodyStep
  <2>3. CASE f.t = "subr"
    <3>1. f \in Builtins
      BY <1>3, <2>3, FunctionIs
    <3>2. CASE f.fn = "apply"
      <4>1. ctl' = Applying(vals) /\ kont' = below /\ frames' = frames
        <5>1. f.type # "2n"
          BY <3>1, <3>2, BuiltinsAre
        <5>2. QED
          BY <5>1, <2>3, <3>2 DEF Finish
      <4>2. Len(vals) = 2
        BY <3>1, <3>2, BuiltinsAre DEF Enough
      <4>4. ctl' \in Controls(V, F, Len(frames)) /\ ctl'.mode # "rewrite"
        BY <4>1, <4>2, ApplyingIs
      <4>5. Typed(V, F)'
        BY <1>1, <1>2, <4>1, <4>4, ControlStep
      <4>6. QED
        BY <4>5
    <3>3. CASE f.fn # "apply" /\ f.type = "2n"
      <4>1. ctl' = Return(Last(vals)) /\ kont' = below /\ frames' = frames
        BY <2>3, <3>3 DEF Finish
      <4>2. Len(vals) >= 2 /\ Len(vals) \in Nat
        BY <3>1, <3>3, <2>3 DEF Enough
      <4>3. Last(vals) \in V
        BY <4>2 DEF Last
      <4>4. ctl' \in Controls(V, F, Len(frames)) /\ ctl'.mode # "rewrite"
        BY <4>1, <4>3, ReturnIs DEF Return
      <4>5. Typed(V, F)'
        BY <1>1, <1>2, <4>1, <4>4, ControlStep
      <4>6. QED
        BY <4>5
    <3>4. CASE f.fn # "apply" /\ f.type # "2n"
      <4>1. ctl' = Return(Primitive(f.fn, vals)) /\ kont' = below /\ frames' = frames
        BY <2>3, <3>4 DEF Finish
      <4>2. IsValue(Primitive(f.fn, vals), V, Len(closures))
        BY <3>1, <3>4, InvFacts, SubrIsValue
      <4>3. QED
        BY <1>1, <1>2, <4>1, <4>2, ValueReturned
    <3>5. QED
      BY <3>2, <3>3, <3>4
  <2>4. QED
    BY <2>1, <2>2, <2>3
<1>4. CASE f \notin V
  <2>1. f \in [t : {"let"}, vars : Seq(Names), body : F, env : Envs(Len(frames))]
    BY <1>4 DEF Functions1
  <2>2. f.t = "let" /\ f.vars \in Seq(Names) /\ f.body \in F /\ f.env \in Envs(Len(frames))
    BY <2>1
  <2>3. EnterBody(f.body, [vars |-> f.vars, rest |-> NoRest], vals, f.env, below)
    BY <2>2 DEF Finish
  <2>4. [vars |-> f.vars, rest |-> NoRest] \in Formals
    BY <2>2 DEF Formals
  <2>5. QED
    BY <1>1, <2>2, <2>3, <2>4, EnterBodyStep
<1>5. QED
  BY <1>3, <1>4

-----------------------------------------------------------------------------
(* Calls: arguments. *)

LEMMA ArgumentsAre ==
  ASSUME NEW V, NEW F, NEW m, NEW n, AllTexts(F, n), NEW f \in Functions1(V, F, m), IsFunction(f),
         f.t = "subr" => f \in Builtins,
         NEW forms \in Seq(F)
  PROVE  Arguments(f, forms) \in Seq(F) /\ Enough(f, Len(Arguments(f, forms)))
<1>1. Const(NIL) \in F /\ Len(forms) \in Nat
  BY DEF AllTexts, Constants
<1>2. f.t = "subr" => f.arity \in Nat /\ (f.type = "2n" => f.arity = 2)
  BY BuiltinsAre
<1>3. CASE f.t = "subr" /\ f.type = "fixed"
  <2>1. Arguments(f, forms) = SubSeq(forms \o [i \in 1 .. f.arity |-> Const(NIL)], 1, f.arity)
    BY <1>3 DEF Arguments
  <2>2. Arguments(f, forms) \in Seq(F) /\ Len(Arguments(f, forms)) = f.arity
    BY <2>1, <1>1, <1>2, <1>3, Padding
  <2>3. QED
    BY <2>2, <1>3 DEF Enough
<1>4. CASE f.t = "subr" /\ f.type = "2n" /\ Len(forms) < 2
  <2>1. Arguments(f, forms) = SubSeq(forms \o [i \in 1 .. 2 |-> Const(NIL)], 1, 2)
    BY <1>4 DEF Arguments
  <2>2. Arguments(f, forms) \in Seq(F) /\ Len(Arguments(f, forms)) = 2
    BY <2>1, <1>1, Padding
  <2>3. QED
    BY <2>2, <1>4 DEF Enough
<1>5. CASE ~(f.t = "subr" /\ (f.type = "fixed" \/ (f.type = "2n" /\ Len(forms) < 2)))
  <2>1. Arguments(f, forms) = forms
    BY <1>5 DEF Arguments
  <2>2. QED
    BY <2>1, <1>1, <1>5 DEF Enough
<1>6. QED
  BY <1>3, <1>4, <1>5

LEMMA OrdersAre ==
  ASSUME NEW f, NEW n \in Nat, n >= 1, NEW todo \in Orders(f, n)
  PROVE  todo \in Seq(Nat) /\ todo # <<>> /\ \A i \in 1 .. Len(todo) : todo[i] \in 1 .. n
<1> DEFINE inTurn == [i \in 1 .. n |-> i]
           back == [i \in 1 .. n |-> IF i = 1 THEN 1 ELSE n + 2 - i]
<1>1. todo = inTurn \/ todo = back
  BY DEF Orders
<1>2. \A i \in 1 .. n : todo[i] \in 1 .. n
  BY <1>1
<1>3. todo = [i \in 1 .. n |-> todo[i]]
  BY <1>1
<1> HIDE DEF inTurn, back
<1>4. todo \in Seq(Nat) /\ Len(todo) = n
  BY <1>2, <1>3
<1>5. todo # <<>>
  BY <1>4
<1>6. QED
  BY <1>2, <1>4, <1>5

LEMMA ApplyStep ==
  ASSUME NEW V, NEW F, Typed(V, F), UNCHANGED <<lets, vcell, closures, session>>,
         NEW f \in Functions1(V, F, Len(frames)), NEW forms \in Seq(F), NEW env \in Envs(Len(frames)),
         NEW below \in Seq(Waits(V, F, Len(frames))),
         Apply(f, forms, env, below)
  PROVE  \E W : Typed(W, F)'
<1> DEFINE args == Arguments(f, forms)
           m == Len(frames)
<1>1. frames' = frames => UNCHANGED <<program, data>> /\ torn' = torn
  BY DEF data, session
<1>2. CASE ~IsFunction(f)
  <2>1. ctl' = Return(Error) /\ kont' = below /\ frames' = frames
    BY <1>2 DEF Apply
  <2>2. ctl' \in Controls(V, F, m) /\ ctl'.mode # "rewrite"
    BY <2>1, InvFacts, ReturnIs DEF Return
  <2>3. Typed(V, F)'
    BY <1>1, <2>1, <2>2, ControlStep
  <2>4. QED
    BY <2>3
<1>3. CASE IsFunction(f)
  <2>1. args \in Seq(F) /\ Enough(f, Len(args))
    <3>1. f.t = "subr" => f \in Builtins
      <4>1. f \in V \/ f.t = "let"
        BY DEF Functions1
      <4>2. QED
        BY <4>1, FunctionIs
    <3>2. AllTexts(F, Len(lets))
      BY InvFacts
    <3>3. QED
      BY <1>3, <3>1, <3>2, ArgumentsAre
  <2> HIDE DEF args
  <2>2. CASE args = <<>>
    <3>1. Finish(f, <<>>, below)
      BY <1>3, <2>2 DEF Apply, args
    <3>2. <<>> \in Seq(V) /\ Enough(f, Len(<<>>))
      BY <2>1, <2>2
    <3>3. QED
      BY <3>1, <3>2, FinishStep
  <2>3. CASE args # <<>>
    <3> DEFINE w(todo) == [k |-> "args", f |-> f, args |-> args, todo |-> todo, env |-> env,
                           vals |-> [i \in DOMAIN args |-> NIL]]
    <3>1. PICK todo \in Orders(f, Len(args)) :
            ctl' = Eval(args[todo[1]], env) /\ kont' = Append(below, w(todo)) /\ frames' = frames
      BY <1>3, <2>3 DEF Apply, args
    <3>2. Len(args) \in Nat /\ Len(args) >= 1
      BY <2>1, <2>3
    <3>3. todo \in Seq(Nat) /\ todo # <<>> /\ \A i \in 1 .. Len(todo) : todo[i] \in 1 .. Len(args)
      BY <3>2, OrdersAre
    <3>4. args[todo[1]] \in F
      <4>1. 1 \in 1 .. Len(todo)
        BY <3>3
      <4>2. QED
        BY <4>1, <3>3, <2>1, ElementIn
    <3>5. ctl' \in Controls(V, F, m) /\ ctl'.mode # "rewrite"
      BY <3>1, <3>4, EvalIs DEF Eval
    <3>6. [i \in DOMAIN args |-> NIL] \in Seq(V) /\ Len([i \in DOMAIN args |-> NIL]) = Len(args)
      <4>1. NIL \in V /\ DOMAIN args = 1 .. Len(args)
        BY <2>1, InvFacts
      <4>2. QED
        BY <4>1, <3>2
    <3>7. w(todo) \in ArgWaits(V, F, m)
      BY <2>1, <3>3, <3>6 DEF ArgWaits
    <3>8. w(todo) \in Waits(V, F, m)
      BY <3>7 DEF Waits
    <3> HIDE DEF w
    <3>9. kont' \in Seq(Waits(V, F, m))
      BY <3>1, <3>8, PushIs
    <3>10. Typed(V, F)'
      BY <1>1, <3>1, <3>5, <3>9, ControlStep
    <3>11. QED
      BY <3>10
  <2>4. QED
    BY <2>2, <2>3
<1>4. QED
  BY <1>2, <1>3

LEMMA CallStep ==
  ASSUME NEW V, NEW F, Typed(V, F), leval_call
  PROVE  \E W : Typed(W, F)'
<1> DEFINE head == ctl.x.items[1]
           forms == Tail(ctl.x.items)
           env == ctl.env
           m == Len(frames)
           w == [k |-> "head", forms |-> forms, env |-> env]
<1>1. ctl.mode = "eval" /\ ctl.x.op = "call" /\ UNCHANGED <<lets, vcell, closures, session>>
  BY DEF leval_call, Evaluates
<1>2. env \in Envs(m) /\ IsForm(ctl.x, F, Constants, Len(lets))
  BY <1>1, Evaluating
<1>3. ctl.x.items \in Seq(F) /\ ctl.x.items # <<>>
  BY <1>1, <1>2 DEF IsForm, Sequential
<1>4. head \in F /\ forms \in Seq(F)
  BY <1>3, ItemIn
<1>5. IsForm(head, F, Constants, Len(lets)) /\ kont \in Seq(Waits(V, F, m)) /\ HeapTyped(V, F)
  BY <1>4, InvFacts DEF AllTexts
<1> HIDE DEF head, forms
<1>6. CASE head.op = "symbol"
  <2>1. Apply(Value(head.name, env), forms, env, kont)
    BY <1>6 DEF leval_call, head, forms
  <2>2. head.name \in Names
    BY <1>5, <1>6 DEF IsForm, Sequential
  <2>3. PICK f : f = Value(head.name, env)
    OBVIOUS
  <2>4. IsValue(f, V, Len(closures))
    BY <2>2, <2>3, <1>2, <1>5, ValueIsValue
  <2>5. PICK W : W = V \union {f}
    OBVIOUS
  <2>6. Typed(W, F) /\ f \in W
    BY <2>4, <2>5, AddValue
  <2>7. f \in Functions1(W, F, m) /\ kont \in Seq(Waits(W, F, m))
    BY <2>6, InvFacts DEF Functions1
  <2>8. Apply(f, forms, env, kont)
    BY <2>1, <2>3
  <2>9. QED
    BY <1>1, <1>2, <1>4, <2>6, <2>7, <2>8, ApplyStep
<1>7. CASE head.op = "const"
  <2>1. Apply(head.val, forms, env, kont)
    BY <1>7 DEF leval_call, head, forms
  <2>2. head.val \in Functions1(V, F, m)
    BY <1>5, <1>7, InvFacts DEF IsForm, Sequential, AllValues, Functions1
  <2>3. QED
    BY <1>1, <1>2, <1>4, <1>5, <2>1, <2>2, ApplyStep
<1>8. CASE head.op # "symbol" /\ head.op # "const"
  <2>1. ctl' = Eval(head, env) /\ kont' = Append(kont, w) /\ frames' = frames
    BY <1>8 DEF leval_call, head, forms, Push
  <2>2. UNCHANGED <<program, data>> /\ torn' = torn
    BY <1>1, <2>1 DEF data, session
  <2>3. ctl' \in Controls(V, F, m) /\ ctl'.mode # "rewrite"
    BY <2>1, <1>2, <1>4, EvalIs DEF Eval
  <2>4. w \in Waits(V, F, m)
    BY <1>2, <1>4 DEF HeadWaits, Waits
  <2> HIDE DEF w
  <2>5. kont' \in Seq(Waits(V, F, m))
    BY <2>1, <2>4, <1>5, PushIs
  <2>6. Typed(V, F)'
    BY <2>2, <2>3, <2>5, ControlStep
  <2>7. QED
    BY <2>6
<1>9. QED
  BY <1>6, <1>7, <1>8

LEMMA HeadReturnsStep ==
  ASSUME NEW V, NEW F, Typed(V, F), HeadReturns
  PROVE  \E W : Typed(W, F)'
<1>1. Returns({"head"}) /\ UNCHANGED <<lets, vcell, closures, session>>
  BY DEF HeadReturns
<1>2. /\ Top \in Waits(V, F, Len(frames)) /\ Top.k = "head" /\ ctl.val \in V
      /\ Below \in Seq(Waits(V, F, Len(frames)))
  BY <1>1, Waiting
<1>3. Top \in HeadWaits(F, Len(frames))
  BY <1>2, WaitKinds
<1>4. Top.forms \in Seq(F) /\ Top.env \in Envs(Len(frames))
  BY <1>3 DEF HeadWaits
<1>5. ctl.val \in Functions1(V, F, Len(frames))
  BY <1>2 DEF Functions1
<1>6. Apply(ctl.val, Top.forms, Top.env, Below)
  BY DEF HeadReturns
<1>7. QED
  BY <1>1, <1>2, <1>4, <1>5, <1>6, ApplyStep

LEMMA ArgumentReturnsStep ==
  ASSUME NEW V, NEW F, Typed(V, F), ArgumentReturns
  PROVE  \E W : Typed(W, F)'
<1> DEFINE m == Len(frames)
           i == Top.todo[1]
           v == IF Top.f.t = "subr" /\ Top.f.type = "2n" /\ i > 1
                THEN Primitive(Top.f.fn, <<Top.vals[i - 1], ctl.val>>) ELSE ctl.val
           w(vals) == [Top EXCEPT !.vals = vals, !.todo = Tail(@)]
<1>1. Returns({"args"}) /\ UNCHANGED <<lets, vcell, closures, session>>
  BY DEF ArgumentReturns
<1>2. /\ Top \in Waits(V, F, m) /\ Top.k = "args" /\ ctl.val \in V
      /\ Below \in Seq(Waits(V, F, m))
  BY <1>1, Waiting
<1>3. Top \in ArgWaits(V, F, m)
  BY <1>2, WaitKinds
<1>4. /\ Top.f \in Functions1(V, F, m) /\ Top.args \in Seq(F) /\ Top.todo \in Seq(Nat)
      /\ Top.env \in Envs(m) /\ Top.vals \in Seq(V) /\ Enough(Top.f, Len(Top.args))
      /\ Len(Top.vals) = Len(Top.args) /\ Top.todo # <<>>
      /\ \A j \in 1 .. Len(Top.todo) : Top.todo[j] \in 1 .. Len(Top.args)
  BY <1>3 DEF ArgWaits
<1>5. i \in 1 .. Len(Top.args) /\ i \in Nat
  <2>1. 1 \in 1 .. Len(Top.todo)
    BY <1>4
  <2>2. QED
    BY <2>1, <1>4
<1>6. IsValue(v, V, Len(closures))
  <2>1. AllValues(V, Len(closures)) /\ \A u \in V : IsValue(u, V, Len(closures))
    BY InvFacts
  <2>2. CASE Top.f.t = "subr" /\ Top.f.type = "2n" /\ i > 1
    <3>1. Top.f \in Builtins
      <4>1. Top.f \in V
        BY <1>4, <2>2 DEF Functions1
      <4>2. QED
        BY <4>1, <2>2, FunctionIs
    <3>2. Top.f.fn \in Primitives /\ Needs(Top.f.fn) = 2
      <4>1. Top.f.fn = "+"
        BY <3>1, <2>2, BuiltinsAre
      <4>2. QED
        BY <4>1 DEF Primitives, Needs
    <3>3. i - 1 \in 1 .. Len(Top.vals)
      BY <1>4, <1>5, <2>2
    <3>4. Top.vals[i - 1] \in V
      BY <3>3, <1>4, ElementIn
    <3>5. <<Top.vals[i - 1], ctl.val>> \in Seq(V) /\ Len(<<Top.vals[i - 1], ctl.val>>) = 2
      BY <3>4, <1>2
    <3>6. IsValue(Primitive(Top.f.fn, <<Top.vals[i - 1], ctl.val>>), V, Len(closures))
      <4>1. PICK s : s = <<Top.vals[i - 1], ctl.val>>
        OBVIOUS
      <4>2. s \in Seq(V) /\ Len(s) >= Needs(Top.f.fn)
        BY <4>1, <3>2, <3>5
      <4>3. IsValue(Primitive(Top.f.fn, s), V, Len(closures))
        BY <4>2, <3>2, <2>1, PrimitiveIsValue
      <4>4. QED
        BY <4>1, <4>3
    <3>7. QED
      BY <3>6, <2>2
  <2>3. CASE ~(Top.f.t = "subr" /\ Top.f.type = "2n" /\ i > 1)
    BY <2>1, <2>3, <1>2
  <2>4. QED
    BY <2>2, <2>3
<1>7. PICK stored : stored = [Top.vals EXCEPT ![i] = v]
  OBVIOUS
<1>8. Stored = stored
  BY <1>7 DEF Stored
<1>9. PICK W : W = V \union {v}
  OBVIOUS
<1> HIDE DEF v, w
<1>10. Typed(W, F) /\ v \in W /\ V \subseteq W
  BY <1>6, <1>9, AddValue
<1>11. stored \in Seq(W) /\ Len(stored) = Len(Top.args)
  <2>1. Top.vals \in Seq(W) /\ i \in 1 .. Len(Top.vals)
    <3>1. Top.vals \in Seq(W)
      BY <1>4, <1>10, SeqWiden
    <3>2. QED
      BY <3>1, <1>4, <1>5
  <2> HIDE DEF i
  <2>2. QED
    BY <2>1, <1>4, <1>7, <1>10, ReplaceIn
<1>12. m \in Nat /\ m <= m /\ F \subseteq F
  BY InvFacts
<1>13. Below \in Seq(Waits(W, F, m)) /\ Top.f \in Functions1(W, F, m) /\ Top \in ArgWaits(W, F, m)
  <2> HIDE DEF m
  <2>1. Functions1(V, F, m) \subseteq Functions1(W, F, m)
    BY <1>10, <1>12, DataGrows
  <2>2. Waits(V, F, m) \subseteq Waits(W, F, m)
    BY <1>10, <1>12, WaitsGrow
  <2>3. Seq(Waits(V, F, m)) \subseteq Seq(Waits(W, F, m))
    BY <2>2, SeqWiden
  <2>4. Top \in ArgWaits(W, F, m)
    BY <2>2, <1>2, WaitKinds
  <2>5. QED
    BY <2>1, <2>3, <2>4, <1>2, <1>4
<1>14. frames' = frames => UNCHANGED <<program, data>> /\ torn' = torn
  BY <1>1 DEF data, session
<1>15. CASE Stored[i] = Error
  <2>1. ctl' = Return(Error) /\ kont' = Below /\ frames' = frames
    BY <1>15 DEF ArgumentReturns
  <2>2. Error \in W
    BY <1>10, InvFacts
  <2>3. ctl' \in Controls(W, F, m) /\ ctl'.mode # "rewrite"
    BY <2>1, <2>2, ReturnIs DEF Return
  <2>4. Typed(W, F)'
    BY <1>10, <1>13, <1>14, <2>1, <2>3, ControlStep
  <2>5. QED
    BY <2>4
<1>16. CASE Stored[i] # Error /\ Len(Top.todo) = 1
  <2>1. Finish(Top.f, stored, Below)
    BY <1>8, <1>16 DEF ArgumentReturns
  <2>2. Enough(Top.f, Len(stored))
    BY <1>4, <1>11
  <2>3. QED
    BY <1>1, <1>10, <1>11, <1>13, <2>1, <2>2, FinishStep
<1>17. CASE Stored[i] # Error /\ Len(Top.todo) # 1
  <2>1. ctl' = Eval(Top.args[Top.todo[2]], Top.env) /\ kont' = Append(Below, w(stored)) /\ frames' = frames
    BY <1>8, <1>17 DEF ArgumentReturns, w
  <2>2. Tail(Top.todo) \in Seq(Nat) /\ Tail(Top.todo) # <<>> /\ Len(Top.todo) \in Nat /\ Len(Top.todo) >= 2
    <3>1. /\ Tail(Top.todo) \in Seq(Nat) /\ Len(Top.todo) \in Nat \ {0}
          /\ Len(Top.todo) # 1 => Tail(Top.todo) # <<>>
      BY <1>4, ItemIn
    <3>2. Len(Top.todo) >= 2
      BY <3>1, <1>17
    <3>3. QED
      BY <3>1, <3>2, <1>17
  <2>3. \A j \in 1 .. Len(Tail(Top.todo)) : Tail(Top.todo)[j] \in 1 .. Len(Top.args)
    <3>1. ASSUME NEW j \in 1 .. Len(Tail(Top.todo)) PROVE Tail(Top.todo)[j] \in 1 .. Len(Top.args)
      <4>1. Len(Tail(Top.todo)) = Len(Top.todo) - 1 /\ Len(Top.todo) \in Nat
        BY <1>4, ItemIn
      <4>2. j + 1 \in 1 .. Len(Top.todo) /\ Tail(Top.todo)[j] = Top.todo[j + 1]
        BY <4>1, <1>4
      <4>3. QED
        BY <4>2, <1>4
    <3>2. QED
      BY <3>1
  <2>4. Top.args[Top.todo[2]] \in F
    <3>1. 2 \in 1 .. Len(Top.todo)
      BY <2>2
    <3>2. QED
      BY <3>1, <1>4, ElementIn
  <2>5. ctl' \in Controls(W, F, m) /\ ctl'.mode # "rewrite"
    BY <2>1, <2>4, <1>4, EvalIs DEF Eval
  <2>6. w(stored) \in ArgWaits(W, F, m)
    <3>1. Top \in [k : {"args"}, f : Functions1(W, F, m), args : Seq(F), todo : Seq(Nat),
                   env : Envs(m), vals : Seq(W)]
      BY <1>13 DEF ArgWaits
    <3>2. /\ w(stored) \in [k : {"args"}, f : Functions1(W, F, m), args : Seq(F), todo : Seq(Nat),
                            env : Envs(m), vals : Seq(W)]
          /\ w(stored).f = Top.f /\ w(stored).args = Top.args
          /\ w(stored).vals = stored /\ w(stored).todo = Tail(Top.todo)
      BY <3>1, <2>2, <1>11 DEF w
    <3>3. QED
      BY <3>2, <2>2, <2>3, <1>4, <1>11 DEF ArgWaits
  <2>7. w(stored) \in Waits(W, F, m)
    BY <2>6 DEF Waits
  <2>8. kont' \in Seq(Waits(W, F, m))
    BY <2>1, <2>7, <1>13, PushIs
  <2>9. Typed(W, F)'
    BY <1>10, <1>14, <2>1, <2>5, <2>8, ControlStep
  <2>10. QED
    BY <2>9
<1>18. QED
  BY <1>15, <1>16, <1>17

LEMMA LapplyStep ==
  ASSUME NEW V, NEW F, Typed(V, F), siod_lapply
  PROVE  \E W : Typed(W, F)'
<1> DEFINE f == ctl.f
           args == Taken(f, ctl.args)
           m == Len(frames)
           c == closures[f.id]
<1>1. ctl.mode = "apply" /\ UNCHANGED <<lets, vcell, closures, session>>
  BY DEF siod_lapply
<1>2. ctl \in Controls(V, F, m) /\ kont \in Seq(Waits(V, F, m)) /\ AllValues(V, Len(closures))
      /\ NIL \in V /\ Error \in V
  BY InvFacts
<1>3. ctl \in Applies(V)
  BY <1>1, <1>2, ControlKinds
<1>4. f \in V /\ ctl.args \in Seq(V)
  BY <1>3 DEF Applies
<1>5. UNCHANGED <<program, lets, closures, torn>> /\ vcell' = vcell
  BY <1>1 DEF session
<1>6. frames' = frames => UNCHANGED <<program, data>>
  BY <1>5 DEF data
<1>7. CASE f.t = "closure" /\ ~c.traced
  <2>1. EnterBody(c.body, c.formals, ctl.args, c.env, Append(kont, Wait("apply")))
    BY <1>7 DEF siod_lapply
  <2>2. c.formals \in Formals /\ c.body \in F /\ c.env \in Envs(m)
    BY <1>4, <1>7, FunctionIs
  <2>3. Append(kont, Wait("apply")) \in Seq(Waits(V, F, m))
    BY <1>2, WaitIs
  <2> HIDE DEF c
  <2>4. PICK below \in Seq(Waits(V, F, m)) : EnterBody(c.body, c.formals, ctl.args, c.env, below)
    BY <2>1, <2>3
  <2>5. QED
    BY <1>4, <1>5, <2>2, <2>4, EnterBodyStep
<1>8. CASE f.t = "subr"
  <2>1. f \in Builtins
    BY <1>4, <1>8, FunctionIs
  <2>2. args \in Seq(V) /\ Enough(f, Len(args))
    BY <1>2, <1>4, <2>1, TakenIs
  <2>3. /\ ctl' = CASE f.fn = "apply" -> Applying(args)
                    [] f.type = "2n" -> Return(Combined(f.fn, args))
                    [] OTHER -> Return(Primitive(f.fn, args))
        /\ kont' = kont /\ frames' = frames
    BY <1>8 DEF siod_lapply
  <2> HIDE DEF args
  <2>4. CASE f.fn = "apply"
    <3>1. f.type # "2n" /\ Len(args) = 2
      BY <2>1, <2>2, <2>4, BuiltinsAre DEF Enough
    <3>2. ctl' = Applying(args)
      BY <2>3, <2>4, <3>1
    <3>3. ctl' \in Controls(V, F, m) /\ ctl'.mode # "rewrite"
      BY <2>2, <3>1, <3>2, ApplyingIs
    <3>4. Typed(V, F)'
      BY <1>2, <1>5, <1>6, <2>3, <3>3, ControlStep
    <3>5. QED
      BY <3>4
  <2>5. CASE f.fn # "apply" /\ f.type = "2n"
    <3>1. f.fn = "+" /\ args # <<>>
      <4>1. f.fn = "+" /\ Len(args) >= 2
        BY <2>1, <2>2, <2>5, <1>8, BuiltinsAre DEF Enough
      <4>2. QED
        BY <4>1
    <3>2. ctl' = Return(Combined("+", args))
      BY <2>3, <2>5, <3>1
    <3>3. IsValue(Combined("+", args), V, Len(closures))
      BY <1>2, <2>2, <3>1, CombinedIsValue
    <3>4. kont' \in Seq(Waits(V, F, m))
      BY <1>2, <2>3
    <3>5. QED
      BY <1>5, <1>6, <2>3, <3>2, <3>3, <3>4, ValueReturned
  <2>6. CASE f.fn # "apply" /\ f.type # "2n"
    <3>1. ctl' = Return(Primitive(f.fn, args))
      BY <2>3, <2>6
    <3>2. IsValue(Primitive(f.fn, args), V, Len(closures))
      BY <1>2, <2>1, <2>2, <2>6, SubrIsValue
    <3>3. kont' \in Seq(Waits(V, F, m))
      BY <1>2, <2>3
    <3>4. QED
      BY <1>5, <1>6, <2>3, <3>1, <3>2, <3>3, ValueReturned
  <2>7. QED
    BY <2>4, <2>5, <2>6
<1>9. CASE ~(f.t = "closure" /\ ~c.traced) /\ f.t # "subr"
  <2>1. ctl' = Return(Error) /\ kont' = kont /\ frames' = frames
    BY <1>9 DEF siod_lapply
  <2>2. ctl' \in Controls(V, F, m) /\ ctl'.mode # "rewrite"
    BY <2>1, <1>2, ReturnIs DEF Return
  <2>3. Typed(V, F)'
    BY <1>2, <1>5, <1>6, <2>1, <2>2, ControlStep
  <2>4. QED
    BY <2>3
<1>10. QED
  BY <1>7, <1>8, <1>9

LEMMA BodyReturnsStep ==
  ASSUME NEW V, NEW F, Typed(V, F), BodyReturns
  PROVE  Typed(V, F)'
<1>1. Returns({"apply", "traced"}) /\ kont' = Below /\ ctl' = ctl /\ UNCHANGED <<program, data>> /\ torn' = torn
  BY DEF BodyReturns, data, session
<1>2. Below \in Seq(Waits(V, F, Len(frames))) /\ ctl \in Controls(V, F, Len(frames)) /\ ctl.mode = "return"
  BY <1>1, Waiting, InvFacts DEF Returns
<1>3. QED
  BY <1>1, <1>2, ControlStep

(* A traced procedure has a new body. *)
LEMMA TraceStep ==
  ASSUME NEW V, NEW F, Typed(V, F), siod_ltrace_1
  PROVE  \E G : Typed(V, G)'
<1> DEFINE n == ctl.x.name
           f == Value(n, ctl.env)
           c == closures[f.id]
           mark == Const([t |-> "symbol", name |-> n])
           b == TraceBody(n, c.body)
           d == [c EXCEPT !.traced = TRUE, !.body = b]
           m == Len(frames)
<1>1. ctl.mode = "eval" /\ ctl.x.op = "trace" /\ UNCHANGED <<lets, vcell, frames, kont, session>>
  BY DEF siod_ltrace_1, Evaluates
<1>2. IsForm(ctl.x, F, Constants, Len(lets)) /\ ctl.env \in Envs(m)
  BY <1>1, Evaluating
<1>3. n \in Names
  BY <1>1, <1>2 DEF IsForm, Sequential
<1>4. IsValue(f, V, Len(closures)) /\ kont \in Seq(Waits(V, F, m)) /\ NIL \in V /\ Error \in V
  BY <1>2, <1>3, InvFacts, ValueIsValue
<1>5. CASE f.t # "closure"
  <2>1. ctl' = Return(Error) /\ closures' = closures
    BY <1>5 DEF siod_ltrace_1
  <2>2. ctl' \in Controls(V, F, m) /\ ctl'.mode # "rewrite"
    BY <2>1, <1>4, ReturnIs DEF Return
  <2>3. UNCHANGED <<program, data>> /\ torn' = torn /\ kont' = kont
    BY <1>1, <2>1 DEF data, session
  <2>4. Typed(V, F)'
    BY <2>2, <2>3, <1>4, ControlStep
  <2>5. QED
    BY <2>4
<1>6. CASE f.t = "closure"
  <2>1. PICK G : G = F \union {b}
    OBVIOUS
  <2>2. f.id \in 1 .. Len(closures) /\ closures \in Seq(Procedures(F, m))
    BY <1>4, <1>6, InvFacts DEF IsValue, HeapTyped
  <2>3. c \in Procedures(F, m)
    BY <2>2, ElementIn
  <2>4. c.body \in F
    BY <2>3 DEF Procedures
  <2>5. IsForm(b, F, Constants, Len(lets))
    <3>1. AllTexts(F, Len(lets)) /\ mark \in F
      BY <1>3, InvFacts DEF AllTexts, Constants
    <3>2. IsForm(c.body, F, Constants, Len(lets))
      BY <2>4, <3>1 DEF AllTexts
    <3> HIDE DEF mark
    <3>3. <<mark, c.body>> \in Seq(F)
      BY <2>4, <3>1
    <3>4. b \in {c.body, Special("begin", <<mark, c.body>>)}
      BY DEF TraceBody, mark
    <3>5. IsForm(Special("begin", <<mark, c.body>>), F, Constants, Len(lets))
      BY <3>3 DEF Special, IsForm, Sequential
    <3> HIDE DEF b, c
    <3>6. QED
      BY <3>2, <3>4, <3>5
  <2>6. ctl' = Return(NIL) /\ closures' = [closures EXCEPT ![f.id] = d]
    BY <1>6, <2>2, <2>3 DEF siod_ltrace_1
  <2> HIDE DEF b
  <2>7. Typed(V, G) /\ b \in G /\ F \subseteq G
    BY <2>1, <2>5, AddText
  <2>8. HeapTyped(V, G) /\ StackTyped(V, G) /\ Rewritten /\ closures \in Seq(Procedures(G, m))
    BY <2>7 DEF Typed, HeapTyped
  <2>9. d \in Procedures(G, m)
    BY <2>3, <2>7 DEF Procedures
  <2> HIDE DEF d, f
  <2>10. closures' \in Seq(Procedures(G, m)) /\ Len(closures') = Len(closures)
    <3> DEFINE S == Procedures(G, m)
    <3> HIDE DEF S
    <3>1. closures \in Seq(S) /\ d \in S
      BY <2>8, <2>9 DEF S
    <3>2. closures' \in Seq(S) /\ Len(closures') = Len(closures)
      BY <2>2, <2>6, <3>1, ReplaceIn
    <3>3. QED
      BY <3>2 DEF S
  <2>11. lets' = lets /\ vcell' = vcell /\ frames' = frames /\ kont' = kont /\ program' = program /\ torn' = torn
    BY <1>1 DEF session
  <2>12. closures' \in Seq(Procedures(G, Len(frames')))
    BY <2>10, <2>11
  <2>13. HeapTyped(V, G)'
    BY <2>8, <2>10, <2>11, <2>12 DEF HeapTyped, main
  <2>14. ctl' \in Controls(V, G, m) /\ ctl'.mode # "rewrite"
    BY <1>4, <2>6, ReturnIs DEF Return
  <2>15. StackTyped(V, G)'
    BY <2>8, <2>11, <2>14 DEF StackTyped
  <2>16. Rewritten'
    BY <2>8, <2>11, <2>14 DEF Rewritten
  <2>17. Typed(V, G)'
    BY <2>13, <2>15, <2>16 DEF Typed
  <2>18. QED
    BY <2>17
<1>7. QED
  BY <1>5, <1>6

-----------------------------------------------------------------------------
(* let and its macros. *)

LEMMA LetIs ==
  ASSUME NEW V, NEW F, Typed(V, F), ctl.mode = "eval", ctl.x.op = "let"
  PROVE  /\ ctl.x \in F /\ ctl.env \in Envs(Len(frames))
         /\ ctl.x.id \in 1 .. Len(lets)
         /\ lets \in Seq(Lets(LetOps, F))
         /\ lets[ctl.x.id].op \in LetOps
         /\ lets[ctl.x.id].second \in Seq(Binds(F))
         /\ lets[ctl.x.id].rest \in Seq(F) /\ lets[ctl.x.id].rest # <<>>
<1>1. ctl.x \in F /\ ctl.env \in Envs(Len(frames)) /\ IsForm(ctl.x, F, Constants, Len(lets))
  BY Evaluating
<1>2. ctl.x.id \in 1 .. Len(lets)
  BY <1>1 DEF IsForm, Sequential
<1>3. lets \in Seq(Lets(LetOps, F))
  BY InvFacts DEF HeapTyped
<1>4. lets[ctl.x.id] \in Lets(LetOps, F)
  BY <1>2, <1>3, ElementIn
<1>5. QED
  BY <1>1, <1>2, <1>3, <1>4 DEF Lets

LEMMA NamesOfBinds ==
  ASSUME NEW F, NEW s \in Seq(Binds(F))
  PROVE  /\ \A i \in 1 .. Len(s) : s[i].name \in Names /\ s[i].init \in F
         /\ [i \in DOMAIN s |-> s[i].name] \in Seq(Names)
         /\ [i \in DOMAIN s |-> s[i].init] \in Seq(F)
         /\ DOMAIN s = 1 .. Len(s) /\ Len(s) \in Nat
<1>1. DOMAIN s = 1 .. Len(s) /\ Len(s) \in Nat
  OBVIOUS
<1>2. \A i \in 1 .. Len(s) : s[i] \in Binds(F)
  BY ElementIn
<1>3. \A i \in 1 .. Len(s) : s[i].name \in Names /\ s[i].init \in F
  BY <1>2 DEF Binds
<1>4. [i \in 1 .. Len(s) |-> s[i].name] \in Seq(Names)
  BY <1>1, <1>3
<1>5. [i \in 1 .. Len(s) |-> s[i].init] \in Seq(F)
  BY <1>1, <1>3
<1>6. QED
  BY <1>1, <1>3, <1>4, <1>5

LEMMA LetStep ==
  ASSUME NEW V, NEW F, Typed(V, F), leval_let
  PROVE  \E W : Typed(W, F)'
<1> DEFINE l == lets[ctl.x.id]
           f == [t |-> "let", vars |-> [i \in DOMAIN l.second |-> l.second[i].name],
                 body |-> l.rest[2], env |-> ctl.env]
           m == Len(frames)
<1>1. /\ ctl.mode = "eval" /\ ctl.x.op = "let" /\ l.op = "let-internal"
      /\ Apply(f, Inits(l.rest[1]), ctl.env, kont)
      /\ UNCHANGED <<lets, vcell, closures, session>>
  BY DEF leval_let, Evaluates
<1>2. /\ ctl.env \in Envs(m) /\ ctl.x.id \in 1 .. Len(lets)
      /\ l.second \in Seq(Binds(F)) /\ l.rest \in Seq(F)
  BY <1>1, LetIs
<1>3. Len(l.rest) = 2
  BY <1>1, <1>2, InvFacts DEF Rewritten
<1>4. l.rest[1] \in F /\ l.rest[2] \in F
  <2>1. 1 \in 1 .. Len(l.rest) /\ 2 \in 1 .. Len(l.rest)
    BY <1>3
  <2> HIDE DEF l
  <2>2. QED
    BY <1>2, <2>1, ElementIn
<1>5. f \in Functions1(V, F, m)
  <2>1. [i \in DOMAIN l.second |-> l.second[i].name] \in Seq(Names)
    BY <1>2, NamesOfBinds
  <2>2. QED
    BY <1>2, <1>4, <2>1 DEF Functions1
<1>6. Inits(l.rest[1]) \in Seq(F)
  <2>1. IsForm(l.rest[1], F, Constants, Len(lets))
    BY <1>4, InvFacts DEF AllTexts
  <2>2. l.rest[1].op = "call" => l.rest[1].items \in Seq(F)
    BY <2>1 DEF IsForm, Sequential
  <2>3. <<>> \in Seq(F)
    OBVIOUS
  <2> HIDE DEF l
  <2>4. QED
    BY <2>2, <2>3 DEF Inits
<1>7. kont \in Seq(Waits(V, F, m))
  BY InvFacts
<1>8. PICK forms : forms = Inits(l.rest[1])
  OBVIOUS
<1> HIDE DEF f, l
<1>9. Apply(f, forms, ctl.env, kont) /\ forms \in Seq(F)
  BY <1>1, <1>6, <1>8
<1>10. QED
  BY <1>1, <1>2, <1>5, <1>7, <1>9, ApplyStep

LEMMA AddTexts ==
  ASSUME NEW F, NEW n \in Nat, AllTexts(F, n), NEW p \in Nat, n <= p,
         NEW X, \A x \in X : IsForm(x, F, Constants, p)
  PROVE  AllTexts(F \union X, p)
<1>1. F \subseteq F \union X
  OBVIOUS
<1>2. ASSUME NEW y \in F \union X PROVE IsForm(y, F \union X, Constants, p)
  <2>1. CASE y \in F
    <3>1. IsForm(y, F, Constants, n)
      BY <2>1 DEF AllTexts
    <3>2. QED
      BY <1>1, <3>1, IsFormGrows
  <2>2. CASE y \in X
    <3>1. IsForm(y, F, Constants, p) /\ p <= p
      BY <2>2
    <3>2. QED
      BY <1>1, <3>1, IsFormGrows
  <2>3. QED
    BY <2>1, <2>2
<1>3. QED
  BY <1>1, <1>2 DEF AllTexts

(* A step that rewrites a form in place, with new parts. *)
LEMMA RewriteStep ==
  ASSUME NEW V, NEW F, Typed(V, F), UNCHANGED <<vcell, frames, closures, kont, session>>,
         NEW G, F \subseteq G, lets' \in Seq(Lets(LetOps, G)), Len(lets) <= Len(lets'),
         AllTexts(G, Len(lets')),
         ctl' \in Controls(V, G, Len(frames)), Rewritten'
  PROVE  Typed(V, G)'
<1> DEFINE m == Len(frames)
<1>1. vcell' = vcell /\ frames' = frames /\ closures' = closures /\ kont' = kont
      /\ program' = program /\ torn' = torn
  BY DEF session
<1>2. HeapTyped(V, F) /\ StackTyped(V, F) /\ m \in Nat /\ m <= m /\ V \subseteq V
  BY InvFacts DEF Typed
<1>3. Seq(Procedures(F, m)) \subseteq Seq(Procedures(G, m))
  <2> HIDE DEF m
  <2>1. Procedures(F, m) \subseteq Procedures(G, m)
    BY <1>2, DataGrows
  <2>2. QED
    BY <2>1, SeqWiden
<1>4. Seq(Waits(V, F, m)) \subseteq Seq(Waits(V, G, m))
  <2> HIDE DEF m
  <2>1. Waits(V, F, m) \subseteq Waits(V, G, m)
    BY <1>2, WaitsGrow
  <2>2. QED
    BY <2>1, SeqWiden
<1>5. HeapTyped(V, G)'
  <2>1. closures' \in Seq(Procedures(G, Len(frames')))
    BY <1>1, <1>2, <1>3 DEF HeapTyped
  <2>2. QED
    BY <1>1, <1>2, <2>1 DEF HeapTyped, main
<1>6. StackTyped(V, G)'
  BY <1>1, <1>2, <1>4 DEF StackTyped
<1>7. QED
  BY <1>5, <1>6 DEF Typed

LEMMA RewritingIs ==
  ASSUME NEW V, NEW F, NEW G, F \subseteq G, NEW m, ctl.x \in F, ctl.x.op = "let", ctl.env \in Envs(m),
         NEW to \in {"let", "let-internal"}
  PROVE  /\ Rewriting(to) \in Controls(V, G, m)
         /\ Rewriting(to).mode = "rewrite" /\ Rewriting(to).x = ctl.x /\ Rewriting(to).to = to
BY DEF Rewriting, Rewrites, Controls

LEMMA UnsetIs ==
  ASSUME NEW F, NEW n, AllTexts(F, n), NEW s \in Seq(Binds(F))
  PROVE  Unset(s) \in Seq(Binds(F))
<1>1. Const(NIL) \in F
  BY DEF AllTexts, Constants
<1>2. DOMAIN s = 1 .. Len(s) /\ Len(s) \in Nat /\ \A i \in 1 .. Len(s) : s[i].name \in Names
  BY NamesOfBinds
<1>3. \A i \in 1 .. Len(s) : Binding(s[i].name, Const(NIL)) \in Binds(F)
  BY <1>1, <1>2 DEF Binding, Binds
<1>4. [i \in 1 .. Len(s) |-> Binding(s[i].name, Const(NIL))] \in Seq(Binds(F))
  BY <1>2, <1>3
<1>5. QED
  BY <1>2, <1>4 DEF Unset

LEMMA ReverseIs ==
  ASSUME NEW S, NEW s \in Seq(S)
  PROVE  Reverse(s) \in Seq(S)
<1>1. Len(s) \in Nat /\ \A i \in 1 .. Len(s) : (Len(s) - i) + 1 \in 1 .. Len(s)
  OBVIOUS
<1>2. \A i \in 1 .. Len(s) : s[(Len(s) - i) + 1] \in S
  BY <1>1, ElementIn
<1>3. [i \in 1 .. Len(s) |-> s[(Len(s) - i) + 1]] \in Seq(S)
  BY <1>1, <1>2
<1>4. QED
  BY <1>3 DEF Reverse

Renewed(l, second, rest) == [l EXCEPT !.second = second, !.rest = rest]

LEMMA RenewedIs ==
  ASSUME NEW F, NEW l \in Lets(LetOps, F), NEW second \in Seq(Binds(F)), NEW rest \in Seq(F), rest # <<>>
  PROVE  /\ Renewed(l, second, rest) \in Lets(LetOps, F)
         /\ Renewed(l, second, rest).op = l.op
         /\ Renewed(l, second, rest).rest = rest
BY DEF Lets, Renewed

LEMMA LetsGrow ==
  ASSUME NEW F, NEW G, F \subseteq G
  PROVE  /\ Lets(LetOps, F) \subseteq Lets(LetOps, G)
         /\ Seq(Lets(LetOps, F)) \subseteq Seq(Lets(LetOps, G))
         /\ Seq(Binds(F)) \subseteq Seq(Binds(G))
<1>1. Lets(LetOps, F) \subseteq Lets(LetOps, G)
  <2>1. 0 \in Nat /\ 0 <= 0 /\ {} \subseteq {}
    OBVIOUS
  <2>2. QED
    BY <2>1, DataGrows
<1>2. Binds(F) \subseteq Binds(G)
  BY DEF Binds
<1>3. QED
  BY <1>1, <1>2, SeqWiden

LEMMA LetMacroStep ==
  ASSUME NEW V, NEW F, Typed(V, F), LetStores, lets[ctl.x.id].op = "let"
  PROVE  \E G : Typed(V, G)'
<1> DEFINE i == ctl.x.id
           l == lets[i]
           inits == [j \in DOMAIN l.second |-> l.second[j].init]
           a == IF inits = <<>> THEN Const(NIL) ELSE Call(inits)
           b == Body(l.rest)
           n == Len(lets)
           r == Renewed(l, Unset(l.second), <<a, b>>)
<1>0. PICK G : G = F \union {a, b}
  OBVIOUS
<1>1. /\ ctl.mode = "eval" /\ ctl.x.op = "let"
      /\ UNCHANGED <<vcell, frames, closures, kont, session>>
  BY DEF LetStores, Evaluates
<1>2. lets' = [lets EXCEPT ![i] = let_macro(l)] /\ ctl' = Rewriting("let-internal")
  BY DEF LetStores
<1>3. /\ ctl.x \in F /\ ctl.env \in Envs(Len(frames)) /\ i \in 1 .. n
      /\ lets \in Seq(Lets(LetOps, F)) /\ l.second \in Seq(Binds(F))
      /\ l.rest \in Seq(F) /\ l.rest # <<>>
  BY <1>1, LetIs
<1>4. AllTexts(F, n) /\ n \in Nat /\ n <= n
  BY InvFacts
<1>5. IsForm(a, F, Constants, n)
  <2>1. inits \in Seq(F)
    BY <1>3, NamesOfBinds
  <2>2. IsForm(Const(NIL), F, Constants, n)
    BY <1>4 DEF AllTexts, Constants
  <2> HIDE DEF inits
  <2>3. CASE inits = <<>>
    BY <2>2, <2>3
  <2>4. CASE inits # <<>>
    <3>1. IsForm(Call(inits), F, Constants, n)
      BY <2>1, <2>4 DEF Call, Special, IsForm
    <3>2. QED
      BY <2>4, <3>1
  <2>5. QED
    BY <2>3, <2>4
<1>6. IsForm(b, F, Constants, n)
  BY <1>3, <1>4, BodyIsForm
<1> HIDE DEF a, b, n
<1>7. AllTexts(G, n)
  <2>1. \A x \in {a, b} : IsForm(x, F, Constants, n)
    BY <1>5, <1>6
  <2>2. QED
    BY <1>0, <1>4, <2>1, AddTexts
<1>8. F \subseteq G /\ a \in G /\ b \in G
  BY <1>0
<1>9. lets \in Seq(Lets(LetOps, G)) /\ Unset(l.second) \in Seq(Binds(G))
  <2>1. l.second \in Seq(Binds(G)) /\ lets \in Seq(Lets(LetOps, G))
    BY <1>3, <1>8, LetsGrow
  <2>2. QED
    BY <1>7, <2>1, UnsetIs
<1>10. l \in Lets(LetOps, G)
  <2> HIDE DEF i
  <2>1. QED
    BY <1>3, <1>9, ElementIn DEF n
<1>11. <<a, b>> \in Seq(G) /\ <<a, b>> # <<>> /\ Len(<<a, b>>) = 2
  BY <1>8
<1>12. r \in Lets(LetOps, G) /\ r.op = "let" /\ Len(r.rest) = 2
  <2> HIDE DEF l
  <2>1. l.op = "let"
    BY DEF l
  <2>2. PICK s : s = <<a, b>>
    OBVIOUS
  <2>3. s \in Seq(G) /\ s # <<>> /\ Len(s) = 2 /\ r = Renewed(l, Unset(l.second), s)
    BY <1>11, <2>2
  <2> HIDE DEF l, r
  <2>4. /\ Renewed(l, Unset(l.second), s) \in Lets(LetOps, G)
        /\ Renewed(l, Unset(l.second), s).op = l.op
        /\ Renewed(l, Unset(l.second), s).rest = s
    BY <1>9, <1>10, <2>3, RenewedIs
  <2>5. QED
    BY <2>1, <2>3, <2>4
<1>13. lets' = [lets EXCEPT ![i] = r]
  <2>1. let_macro(l) = r
    BY DEF let_macro, a, b, Renewed
  <2>2. QED
    BY <1>2, <2>1
<1> HIDE DEF r, l
<1>14. lets' \in Seq(Lets(LetOps, G)) /\ Len(lets') = n
  BY <1>3, <1>9, <1>12, <1>13, ReplaceIn DEF n
<1>15. /\ ctl' \in Controls(V, G, Len(frames))
       /\ ctl'.mode = "rewrite" /\ ctl'.x = ctl.x /\ ctl'.to = "let-internal"
  BY <1>1, <1>2, <1>3, <1>8, RewritingIs
<1>16. Rewritten'
  <2>1. lets'[i] = r /\ (\A j \in 1 .. n : j # i => lets'[j] = lets[j])
    BY <1>3, <1>9, <1>13 DEF n
  <2>2. \A j \in 1 .. n : lets[j].op = "let-internal" => Len(lets[j].rest) = 2
    BY InvFacts DEF Rewritten, n
  <2>3. \A j \in 1 .. Len(lets') : lets'[j].op = "let-internal" => Len(lets'[j].rest) = 2
    BY <1>12, <1>14, <2>1, <2>2
  <2>4. Len(lets'[ctl'.x.id].rest) = 2 /\ lets'[ctl'.x.id].op = "let"
    BY <1>12, <1>15, <2>1
  <2>5. QED
    BY <2>3, <2>4 DEF Rewritten
<1>17. AllTexts(G, Len(lets')) /\ Len(lets) <= Len(lets')
  BY <1>4, <1>7, <1>14 DEF n
<1>18. Typed(V, G)'
  BY <1>1, <1>8, <1>14, <1>15, <1>16, <1>17, RewriteStep
<1>19. QED
  BY <1>18

LEMMA LetrecMacroStep ==
  ASSUME NEW V, NEW F, Typed(V, F), LetStores, lets[ctl.x.id].op = "letrec"
  PROVE  \E G : Typed(V, G)'
<1> DEFINE i == ctl.x.id
           l == lets[i]
           sets == [j \in DOMAIN l.second |-> Set(l.second[j].name, l.second[j].init)]
           X == {Set(l.second[j].name, l.second[j].init) : j \in DOMAIN l.second}
           n == Len(lets)
           second == Reverse(Unset(l.second))
           rest == Reverse(sets) \o l.rest
           r == Renewed(l, second, rest)
<1>0. PICK G : G = F \union X
  OBVIOUS
<1>1. /\ ctl.mode = "eval" /\ ctl.x.op = "let"
      /\ UNCHANGED <<vcell, frames, closures, kont, session>>
  BY DEF LetStores, Evaluates
<1>2. lets' = [lets EXCEPT ![i] = letrec_macro(l)] /\ ctl' = Rewriting("let")
  BY DEF LetStores
<1>3. /\ ctl.x \in F /\ ctl.env \in Envs(Len(frames)) /\ i \in 1 .. n
      /\ lets \in Seq(Lets(LetOps, F)) /\ l.second \in Seq(Binds(F))
      /\ l.rest \in Seq(F) /\ l.rest # <<>>
  BY <1>1, LetIs
<1>4. AllTexts(F, n) /\ n \in Nat /\ n <= n
  BY InvFacts
<1>5. DOMAIN l.second = 1 .. Len(l.second) /\ Len(l.second) \in Nat
      /\ \A j \in 1 .. Len(l.second) : l.second[j].name \in Names /\ l.second[j].init \in F
  BY <1>3, NamesOfBinds
<1>6. \A x \in X : IsForm(x, F, Constants, n)
  <2>1. ASSUME NEW x \in X PROVE IsForm(x, F, Constants, n)
    <3>1. PICK j \in 1 .. Len(l.second) : x = Set(l.second[j].name, l.second[j].init)
      BY <1>5
    <3>2. l.second[j].name \in Names /\ <<l.second[j].init>> \in Seq(F)
      BY <1>5
    <3> HIDE DEF l
    <3>3. QED
      BY <3>1, <3>2 DEF Set, IsForm, Sequential
  <2>2. QED
    BY <2>1
<1>7. sets \in Seq(G)
  <2>1. \A j \in 1 .. Len(l.second) : Set(l.second[j].name, l.second[j].init) \in G
    BY <1>0, <1>5
  <2>2. [j \in 1 .. Len(l.second) |-> Set(l.second[j].name, l.second[j].init)] \in Seq(G)
    BY <1>5, <2>1
  <2>3. QED
    BY <1>5, <2>2
<1> HIDE DEF sets, X, n
<1>8. AllTexts(G, n) /\ F \subseteq G
  BY <1>0, <1>4, <1>6, AddTexts
<1>9. lets \in Seq(Lets(LetOps, G)) /\ second \in Seq(Binds(G))
  <2>1. l.second \in Seq(Binds(G)) /\ lets \in Seq(Lets(LetOps, G))
    BY <1>3, <1>8, LetsGrow
  <2>2. Unset(l.second) \in Seq(Binds(G))
    BY <1>8, <2>1, UnsetIs
  <2>3. QED
    BY <2>1, <2>2, ReverseIs
<1>10. l \in Lets(LetOps, G)
  <2> HIDE DEF i
  <2>1. QED
    BY <1>3, <1>9, ElementIn DEF n
<1>11. rest \in Seq(G) /\ rest # <<>>
  <2>1. Reverse(sets) \in Seq(G) /\ l.rest \in Seq(G) /\ l.rest # <<>>
    <3>1. Reverse(sets) \in Seq(G)
      BY <1>7, ReverseIs
    <3>2. l.rest \in Seq(G)
      BY <1>3, <1>8, SeqWiden
    <3>3. QED
      BY <3>1, <3>2, <1>3
  <2>2. PICK p, q : p = Reverse(sets) /\ q = l.rest
    OBVIOUS
  <2>3. p \in Seq(G) /\ q \in Seq(G) /\ q # <<>>
    BY <2>1, <2>2
  <2>4. p \o q \in Seq(G) /\ p \o q # <<>>
    <3>1. p \o q \in Seq(G) /\ Len(p \o q) = Len(p) + Len(q) /\ Len(p) \in Nat /\ Len(q) \in Nat \ {0}
      BY <2>3
    <3>2. Len(p \o q) # 0
      BY <3>1
    <3>3. QED
      BY <3>1, <3>2
  <2>5. QED
    BY <2>2, <2>4
<1>12. r \in Lets(LetOps, G) /\ r.op = "letrec"
  <2>1. l.op = "letrec"
    BY DEF l
  <2> HIDE DEF l, second, rest
  <2>2. QED
    BY <1>9, <1>10, <1>11, <2>1, RenewedIs
<1>13. lets' = [lets EXCEPT ![i] = r]
  <2>1. letrec_macro(l) = r
    BY DEF letrec_macro, sets, Renewed
  <2>2. QED
    BY <1>2, <2>1
<1> HIDE DEF r, l
<1>14. lets' \in Seq(Lets(LetOps, G)) /\ Len(lets') = n
  BY <1>3, <1>9, <1>12, <1>13, ReplaceIn DEF n
<1>15. /\ ctl' \in Controls(V, G, Len(frames))
       /\ ctl'.mode = "rewrite" /\ ctl'.x = ctl.x /\ ctl'.to = "let"
  BY <1>1, <1>2, <1>3, <1>8, RewritingIs
<1>16. Rewritten'
  <2>1. lets'[i] = r /\ (\A j \in 1 .. n : j # i => lets'[j] = lets[j])
    BY <1>3, <1>9, <1>13 DEF n
  <2>2. \A j \in 1 .. n : lets[j].op = "let-internal" => Len(lets[j].rest) = 2
    BY InvFacts DEF Rewritten, n
  <2>3. \A j \in 1 .. Len(lets') : lets'[j].op = "let-internal" => Len(lets'[j].rest) = 2
    BY <1>12, <1>14, <2>1, <2>2
  <2>4. lets'[ctl'.x.id].op = "letrec" /\ ctl'.to # "let-internal"
    BY <1>12, <1>15, <2>1
  <2>5. QED
    BY <2>3, <2>4 DEF Rewritten
<1>17. AllTexts(G, Len(lets')) /\ Len(lets) <= Len(lets')
  BY <1>4, <1>8, <1>14 DEF n
<1>18. Typed(V, G)'
  BY <1>1, <1>8, <1>14, <1>15, <1>16, <1>17, RewriteStep
<1>19. QED
  BY <1>18

(* let* keeps its first binding and leaves the others to a form of its own. *)
LEMMA LetStarMacroStep ==
  ASSUME NEW V, NEW F, Typed(V, F), LetStores, lets[ctl.x.id].op = "let*"
  PROVE  \E G : Typed(V, G)'
<1> DEFINE i == ctl.x.id
           l == lets[i]
           n == Len(lets)
           y == Let(n + 1)
           second == <<Head(l.second)>>
           r == Renewed(l, second, <<y>>)
           q == Renewed(l, Tail(l.second), l.rest)
<1>1. /\ ctl.mode = "eval" /\ ctl.x.op = "let"
      /\ UNCHANGED <<vcell, frames, closures, kont, session>>
  BY DEF LetStores, Evaluates
<1>2. /\ lets' = IF Len(l.second) < 2 THEN lets
                 ELSE Append([lets EXCEPT ![i].second = <<Head(@)>>, ![i].rest = <<Let(n + 1)>>],
                             [l EXCEPT !.second = Tail(@)])
      /\ ctl' = Rewriting("let")
  BY DEF LetStores
<1>3. /\ ctl.x \in F /\ ctl.env \in Envs(Len(frames)) /\ i \in 1 .. n
      /\ lets \in Seq(Lets(LetOps, F)) /\ l.second \in Seq(Binds(F))
      /\ l.rest \in Seq(F) /\ l.rest # <<>>
  BY <1>1, LetIs
<1>4. AllTexts(F, n) /\ n \in Nat /\ n <= n /\ n + 1 \in Nat /\ n <= n + 1
  BY InvFacts
<1>5. \A j \in 1 .. n : lets[j].op = "let-internal" => Len(lets[j].rest) = 2
  BY InvFacts DEF Rewritten
<1>6. CASE Len(l.second) < 2
  <2>1. lets' = lets
    BY <1>2, <1>6
  <2>2. /\ ctl' \in Controls(V, F, Len(frames))
        /\ ctl'.mode = "rewrite" /\ ctl'.x = ctl.x /\ ctl'.to = "let"
    BY <1>1, <1>2, <1>3, RewritingIs
  <2>3. Rewritten'
    BY <2>1, <2>2, <1>5 DEF Rewritten
  <2>4. F \subseteq F /\ lets' \in Seq(Lets(LetOps, F)) /\ Len(lets) <= Len(lets') /\ AllTexts(F, Len(lets'))
    BY <2>1, <1>3, <1>4
  <2>5. Typed(V, F)'
    BY <1>1, <2>2, <2>3, <2>4, RewriteStep
  <2>6. QED
    BY <2>5
<1>7. CASE ~(Len(l.second) < 2)
  <2>0. PICK G : G = F \union {y}
    OBVIOUS
  <2>1. AllTexts(G, n + 1) /\ F \subseteq G /\ y \in G
    <3>1. n + 1 \in 1 .. n + 1
      BY <1>4
    <3> HIDE DEF n
    <3>2. IsForm(Let(n + 1), F, Constants, n + 1)
      BY <3>1 DEF Let, IsForm
    <3>3. \A x \in {y} : IsForm(x, F, Constants, n + 1)
      BY <3>2
    <3> HIDE DEF y
    <3>4. QED
      BY <2>0, <1>4, <3>3, AddTexts
  <2>2. lets \in Seq(Lets(LetOps, G)) /\ l.second \in Seq(Binds(G)) /\ l.rest \in Seq(G)
    BY <1>3, <2>1, LetsGrow, SeqWiden
  <2>3. l \in Lets(LetOps, G)
    <3> HIDE DEF i
    <3>1. QED
      BY <1>3, <2>2, ElementIn
  <2>4. second \in Seq(Binds(G)) /\ Tail(l.second) \in Seq(Binds(G))
    <3>1. PICK s : s = l.second
      OBVIOUS
    <3>2. s \in Seq(Binds(G)) /\ ~(Len(s) < 2)
      BY <1>7, <2>2, <3>1
    <3>3. Head(s) \in Binds(G) /\ Tail(s) \in Seq(Binds(G))
      BY <3>2
    <3>4. <<Head(s)>> \in Seq(Binds(G))
      BY <3>3
    <3>5. QED
      BY <3>1, <3>3, <3>4
  <2>5. <<y>> \in Seq(G) /\ <<y>> # <<>>
    BY <2>1
  <2>6. l.op = "let*"
    OBVIOUS
  <2>7. lets' = Append([lets EXCEPT ![i] = r], q)
    <3>1. lets' = Append([lets EXCEPT ![i].second = <<Head(@)>>, ![i].rest = <<Let(n + 1)>>],
                         [l EXCEPT !.second = Tail(@)])
      BY <1>2, <1>7
    <3>2. [lets EXCEPT ![i].second = <<Head(@)>>, ![i].rest = <<Let(n + 1)>>] = [lets EXCEPT ![i] = r]
      BY <1>3, <2>3 DEF Renewed, Lets
    <3>3. [l EXCEPT !.second = Tail(@)] = q
      BY <2>3 DEF Renewed, Lets
    <3>4. QED
      BY <3>1, <3>2, <3>3
  <2> HIDE DEF l, y, second
  <2>8. r \in Lets(LetOps, G) /\ r.op = "let*" /\ q \in Lets(LetOps, G) /\ q.op = "let*"
    <3>1. PICK s : s = <<y>>
      OBVIOUS
    <3>2. s \in Seq(G) /\ s # <<>> /\ r = Renewed(l, second, s)
      BY <2>5, <3>1
    <3>3. Renewed(l, second, s) \in Lets(LetOps, G) /\ Renewed(l, second, s).op = "let*"
      BY <2>3, <2>4, <2>6, <3>2, RenewedIs
    <3>4. l.rest # <<>>
      BY <1>3 DEF l
    <3>5. q \in Lets(LetOps, G) /\ q.op = "let*"
      <4>1. PICK u, v : u = Tail(l.second) /\ v = l.rest
        OBVIOUS
      <4>2. u \in Seq(Binds(G)) /\ v \in Seq(G) /\ v # <<>> /\ q = Renewed(l, u, v)
        <5>1. l.rest \in Seq(G)
          BY <2>2 DEF l
        <5>2. QED
          BY <2>4, <3>4, <4>1, <5>1
      <4>3. Renewed(l, u, v) \in Lets(LetOps, G) /\ Renewed(l, u, v).op = "let*"
        BY <2>3, <2>6, <4>2, RenewedIs
      <4> HIDE DEF q
      <4>4. QED
        BY <4>2, <4>3
    <3> HIDE DEF r
    <3>6. QED
      BY <3>2, <3>3, <3>5
  <2> HIDE DEF r, q, n
  <2>9. PICK s : s = [lets EXCEPT ![i] = r]
    OBVIOUS
  <2>10. /\ s \in Seq(Lets(LetOps, G)) /\ Len(s) = n
         /\ s[i] = r /\ \A j \in 1 .. n : j # i => s[j] = lets[j]
    <3>1. s \in Seq(Lets(LetOps, G)) /\ Len(s) = n
      BY <1>3, <2>2, <2>8, <2>9, ReplaceIn DEF n
    <3>2. s[i] = r /\ \A j \in 1 .. n : j # i => s[j] = lets[j]
      BY <1>3, <2>2, <2>9 DEF n
    <3>3. QED
      BY <3>1, <3>2
  <2>11. /\ lets' \in Seq(Lets(LetOps, G)) /\ Len(lets') = n + 1 /\ lets'[n + 1] = q
         /\ \A j \in 1 .. n : lets'[j] = s[j]
    <3> DEFINE S == Lets(LetOps, G)
    <3> HIDE DEF S
    <3>1. s \in Seq(S) /\ q \in S /\ lets' = Append(s, q) /\ Len(s) = n /\ n \in Nat
      BY <1>4, <2>7, <2>8, <2>9, <2>10 DEF S
    <3>2. lets' \in Seq(S) /\ Len(lets') = n + 1 /\ lets'[n + 1] = q /\ \A j \in 1 .. n : lets'[j] = s[j]
      BY <3>1
    <3>3. QED
      BY <3>2 DEF S
  <2>12. /\ ctl' \in Controls(V, G, Len(frames))
         /\ ctl'.mode = "rewrite" /\ ctl'.x = ctl.x /\ ctl'.to = "let"
    BY <1>1, <1>2, <1>3, <2>1, RewritingIs
  <2>13. Rewritten'
    <3>1. ASSUME NEW j \in 1 .. n + 1 PROVE lets'[j].op = "let-internal" => Len(lets'[j].rest) = 2
      <4>1. CASE j = n + 1
        BY <4>1, <2>8, <2>11
      <4>2. CASE j # n + 1
        <5>1. j \in 1 .. n
          BY <1>4, <4>2
        <5>2. lets'[j] = r \/ lets'[j] = lets[j]
          BY <5>1, <2>10, <2>11
        <5>3. QED
          BY <5>1, <5>2, <1>5, <2>8 DEF n
      <4>3. QED
        BY <4>1, <4>2
    <3>2. lets'[i].op = "let*"
      BY <1>3, <2>8, <2>10, <2>11
    <3>3. QED
      BY <3>1, <3>2, <2>11, <2>12 DEF Rewritten
  <2>14. AllTexts(G, Len(lets')) /\ Len(lets) <= Len(lets')
    BY <1>4, <2>1, <2>11 DEF n
  <2>15. Typed(V, G)'
    BY <1>1, <2>1, <2>11, <2>12, <2>13, <2>14, RewriteStep
  <2>16. QED
    BY <2>15
<1>8. QED
  BY <1>6, <1>7

LEMMA LetRenamedStep ==
  ASSUME NEW V, NEW F, Typed(V, F), LetRenamed
  PROVE  Typed(V, F)'
<1> DEFINE i == ctl.x.id
           n == Len(lets)
           r == [lets[i] EXCEPT !.op = ctl.to]
<1>1. /\ ctl.mode = "rewrite" /\ lets' = [lets EXCEPT ![i].op = ctl.to] /\ ctl' = Eval(ctl.x, ctl.env)
      /\ UNCHANGED <<vcell, frames, closures, kont, session>>
  BY DEF LetRenamed
<1>2. ctl \in Controls(V, F, Len(frames)) /\ AllTexts(F, n) /\ n \in Nat /\ lets \in Seq(Lets(LetOps, F))
  BY InvFacts DEF HeapTyped
<1>3. ctl \in Rewrites(F, Len(frames))
  BY <1>1, <1>2, ControlKinds
<1>4. /\ ctl.x \in F /\ ctl.x.op = "let" /\ ctl.env \in Envs(Len(frames))
      /\ ctl.to \in {"let", "let-internal"}
  BY <1>3 DEF Rewrites
<1>5. i \in 1 .. n
  <2>1. IsForm(ctl.x, F, Constants, n)
    BY <1>2, <1>4 DEF AllTexts
  <2>2. QED
    BY <2>1, <1>4 DEF IsForm, Sequential
<1>6. lets[i] \in Lets(LetOps, F)
  <2> HIDE DEF i
  <2>1. QED
    BY <1>2, <1>5, ElementIn
<1>7. /\ r \in Lets(LetOps, F) /\ lets' = [lets EXCEPT ![i] = r]
      /\ r.op = ctl.to /\ r.rest = lets[i].rest
  BY <1>1, <1>4, <1>5, <1>6 DEF Lets, LetOps
<1>8. /\ \A j \in 1 .. n : lets[j].op = "let-internal" => Len(lets[j].rest) = 2
      /\ ctl.to = "let-internal" => Len(lets[i].rest) = 2
  BY <1>1, InvFacts DEF Rewritten
<1> HIDE DEF r
<1>9. /\ lets' \in Seq(Lets(LetOps, F)) /\ Len(lets') = n
      /\ lets'[i] = r /\ \A j \in 1 .. n : j # i => lets'[j] = lets[j]
  <2>1. lets' \in Seq(Lets(LetOps, F)) /\ Len(lets') = n
    <3> HIDE DEF i
    <3>1. QED
      BY <1>2, <1>5, <1>7, ReplaceIn
  <2>2. lets'[i] = r /\ \A j \in 1 .. n : j # i => lets'[j] = lets[j]
    BY <1>2, <1>5, <1>7
  <2>3. QED
    BY <2>1, <2>2
<1>10. ctl' \in Controls(V, F, Len(frames)) /\ ctl'.mode = "eval"
  BY <1>1, <1>4, EvalIs DEF Eval
<1>11. Rewritten'
  <2>1. \A j \in 1 .. n : lets'[j].op = "let-internal" => Len(lets'[j].rest) = 2
    BY <1>7, <1>8, <1>9
  <2>2. QED
    BY <2>1, <1>9, <1>10 DEF Rewritten
<1>12. F \subseteq F /\ Len(lets) <= Len(lets') /\ AllTexts(F, Len(lets'))
  BY <1>2, <1>9
<1>13. QED
  BY <1>1, <1>9, <1>10, <1>11, <1>12, RewriteStep

LEMMA LetStoresStep ==
  ASSUME NEW V, NEW F, Typed(V, F), LetStores
  PROVE  \E G : Typed(V, G)'
<1>1. lets[ctl.x.id].op \in {"let", "letrec", "let*"}
  BY DEF LetStores
<1>2. QED
  BY <1>1, LetMacroStep, LetrecMacroStep, LetStarMacroStep

-----------------------------------------------------------------------------
(* Errors, interrupts, and the start. *)

LEMMA ErrStep ==
  ASSUME NEW V, NEW F, Typed(V, F), err
  PROVE  Typed(V, F)'
<1>1. ctl = Return(Error) /\ ctl' = ctl /\ kont' = <<>> /\ UNCHANGED <<program, data>> /\ torn' = torn
  BY DEF err, data, session
<1>2. ctl' \in Controls(V, F, Len(frames)) /\ ctl'.mode # "rewrite"
  BY <1>1, InvFacts DEF Return
<1>3. kont' \in Seq(Waits(V, F, Len(frames)))
  BY <1>1
<1>4. QED
  BY <1>1, <1>2, <1>3, ControlStep

LEMMA InterruptStep ==
  ASSUME NEW V, NEW F, Typed(V, F), Interrupt
  PROVE  Typed(V, F)'
<1>1. /\ ctl' = Eval(main, <<>>) /\ kont' = <<>>
      /\ lets' = lets /\ vcell' = vcell /\ frames' = frames /\ closures' = closures /\ program' = program
      /\ torn' = torn \union (CASE ctl.mode = "define" -> {"define"}
                                [] ctl.mode = "rewrite" -> {lets[ctl.x.id].op}
                                [] OTHER -> {})
  BY DEF Interrupt, data
<1>2. /\ HeapTyped(V, F) /\ Rewritten /\ torn \subseteq {"define", "let", "let*", "letrec"}
      /\ main \in F /\ ctl \in Controls(V, F, Len(frames)) /\ AllTexts(F, Len(lets))
      /\ lets \in Seq(Lets(LetOps, F))
  BY InvFacts DEF HeapTyped
<1>3. ctl.mode = "rewrite" => lets[ctl.x.id].op \in {"let", "let*", "letrec"}
  <2>1. SUFFICES ASSUME ctl.mode = "rewrite" PROVE lets[ctl.x.id].op \in {"let", "let*", "letrec"}
    OBVIOUS
  <2>2. ctl \in Rewrites(F, Len(frames))
    BY <1>2, <2>1, ControlKinds
  <2>3. ctl.x \in F /\ ctl.x.op = "let"
    BY <2>2 DEF Rewrites
  <2>4. IsForm(ctl.x, F, Constants, Len(lets))
    BY <1>2, <2>3 DEF AllTexts
  <2>5. ctl.x.id \in 1 .. Len(lets)
    BY <2>3, <2>4 DEF IsForm, Sequential
  <2>6. lets[ctl.x.id] \in Lets(LetOps, F)
    BY <1>2, <2>5, ElementIn
  <2>7. lets[ctl.x.id].op \in LetOps /\ lets[ctl.x.id].op # "let-internal"
    BY <1>2, <2>1, <2>6 DEF Lets, Rewritten
  <2>8. QED
    BY <2>7 DEF LetOps
<1>4. torn' \subseteq {"define", "let", "let*", "letrec"}
  <2>1. CASE ctl.mode = "define"
    BY <2>1, <1>1, <1>2
  <2>2. CASE ctl.mode = "rewrite"
    BY <2>2, <1>1, <1>2, <1>3
  <2>3. CASE ctl.mode # "define" /\ ctl.mode # "rewrite"
    BY <2>3, <1>1, <1>2
  <2>4. QED
    BY <2>1, <2>2, <2>3
<1>5. HeapTyped(V, F)'
  BY <1>1, <1>2, <1>4 DEF HeapTyped, main
<1>6. ctl' \in Controls(V, F, Len(frames)) /\ ctl'.mode = "eval"
  <2>1. <<>> \in Envs(Len(frames))
    BY DEF Envs
  <2>2. QED
    BY <2>1, <1>1, <1>2, EvalIs DEF Eval
<1>7. kont' \in Seq(Waits(V, F, Len(frames)))
  BY <1>1
<1>8. StackTyped(V, F)' /\ Rewritten'
  BY <1>1, <1>2, <1>6, <1>7 DEF StackTyped, Rewritten
<1>9. QED
  BY <1>5, <1>8 DEF Typed

LEMMA NoStep ==
  ASSUME NEW V, NEW F, Typed(V, F), UNCHANGED vars
  PROVE  Typed(V, F)'
<1>1. /\ program' = program /\ lets' = lets /\ vcell' = vcell /\ frames' = frames
      /\ closures' = closures /\ kont' = kont /\ ctl' = ctl /\ torn' = torn
  BY DEF vars
<1>2. HeapTyped(V, F) /\ StackTyped(V, F) /\ Rewritten
  BY DEF Typed
<1>3. HeapTyped(V, F)'
  BY <1>1, <1>2 DEF HeapTyped, main
<1>4. StackTyped(V, F)'
  BY <1>1, <1>2 DEF StackTyped
<1>5. Rewritten'
  BY <1>1, <1>2 DEF Rewritten
<1>6. QED
  BY <1>3, <1>4, <1>5 DEF Typed

(* To begin with there are the constants and the built-in procedures, and   *)
(* the parts of the program.                                                *)
LEMMA FirstValues ==
  AllValues(Markers \union Constants \union Builtins, 0)
<1> DEFINE V == Markers \union Constants \union Builtins
<1>1. ASSUME NEW v \in Markers PROVE IsValue(v, V, 0)
  BY DEF Markers, NIL, T, Unbound, Error, IsValue, ValueTypes
<1>2. ASSUME NEW v \in Builtins PROVE IsValue(v, V, 0)
  BY BuiltinsAre DEF IsValue, ValueTypes
<1>3. ASSUME NEW v \in Constants PROVE IsValue(v, V, 0)
  <2>1. CASE v \in Literals
    <3>1. v.t \in {"nil", "t", "flonum", "list"} /\ (v.t = "list" => v.items \in Seq(Literals) \ {<<>>})
      BY <2>1, LiteralsAssumption
    <3>2. Seq(Literals) \subseteq Seq(V)
      <4>1. Literals \subseteq V
        BY DEF Constants
      <4>2. QED
        BY <4>1, SeqWiden
    <3> HIDE DEF V
    <3>3. QED
      BY <3>1, <3>2 DEF IsValue, ValueTypes
  <2>2. CASE v = NIL
    BY <2>2 DEF NIL, IsValue, ValueTypes
  <2>3. CASE v \in {[t |-> "symbol", name |-> n] : n \in Names}
    <3>1. v.t = "symbol"
      BY <2>3
    <3>2. QED
      BY <3>1 DEF IsValue, ValueTypes
  <2>4. QED
    BY <2>1, <2>2, <2>3 DEF Constants
<1>4. \A v \in V : IsValue(v, V, 0)
  <2>1. ASSUME NEW v \in V PROVE IsValue(v, V, 0)
    <3>1. v \in Markers \/ v \in Constants \/ v \in Builtins
      OBVIOUS
    <3> HIDE DEF V
    <3>2. QED
      BY <3>1, <1>1, <1>2, <1>3
  <2>2. QED
    BY <2>1
<1>5. QED
  BY <1>4 DEF AllValues

LEMMA FirstTexts ==
  ASSUME NEW p \in DOMAIN Programs
  PROVE  AllTexts(Programs[p].texts \union {Const(c) : c \in Constants}, Len(Programs[p].lets))
<1> DEFINE X == {Const(c) : c \in Constants}
           texts == Programs[p].texts
           F == texts \union X
           n == Len(Programs[p].lets)
<1>1. Seq(texts) \subseteq Seq(F) /\ Literals \subseteq Constants
  BY SeqWiden DEF Constants
<1>2. Seq(texts) \ {<<>>} \subseteq Seq(F) \ {<<>>}
  BY <1>1
<1>3. Seq(Seq(texts) \ {<<>>}) \subseteq Seq(Seq(F) \ {<<>>})
  <2> HIDE DEF F, texts
  <2>1. QED
    BY <1>2, SeqWiden
<1>4. ASSUME NEW x \in texts PROVE IsForm(x, F, Constants, n)
  <2>1. IsForm(x, texts, Literals, n)
    BY ProgramsAssumption
  <2> HIDE DEF F, texts, n
  <2>2. QED
    BY <2>1, <1>1, <1>2, <1>3 DEF IsForm
<1>5. ASSUME NEW x \in X PROVE IsForm(x, F, Constants, n)
  <2>1. PICK c \in Constants : x = Const(c)
    OBVIOUS
  <2> HIDE DEF F, n
  <2>2. QED
    BY <2>1 DEF Const, IsForm
<1>6. QED
  BY <1>4, <1>5 DEF AllTexts

LEMMA InitTyped == Init => EvaluatorInv
<1> SUFFICES ASSUME Init PROVE EvaluatorInv
  OBVIOUS
<1>1. PICK V, F : /\ V = Markers \union Constants \union Builtins
                  /\ F = Programs[program].texts \union {Const(c) : c \in Constants}
  OBVIOUS
<1>2. /\ program \in DOMAIN Programs /\ lets = Programs[program].lets
      /\ vcell = [n \in Names |-> IF n \in DOMAIN Globals THEN Globals[n] ELSE Unbound]
      /\ frames = <<>> /\ closures = <<>> /\ kont = <<>>
      /\ ctl = Eval(main, <<>>) /\ torn = {}
  BY DEF Init, source
<1>3. AllValues(V, 0) /\ AllTexts(F, Len(lets)) /\ Programs[program].texts \subseteq F
  BY <1>1, <1>2, FirstValues, FirstTexts
<1>4. main \in F
  BY <1>2, <1>3, ProgramsAssumption DEF main
<1>5. lets \in Seq(Lets({"let", "let*", "letrec"}, Programs[program].texts))
  BY <1>2, ProgramsAssumption
<1>6. lets \in Seq(Lets(LetOps, F))
  <2>1. Lets({"let", "let*", "letrec"}, Programs[program].texts) \subseteq Lets(LetOps, Programs[program].texts)
    BY DEF Lets, LetOps
  <2>2. lets \in Seq(Lets(LetOps, Programs[program].texts))
    BY <1>5, <2>1, SeqWiden
  <2>3. QED
    BY <2>2, <1>3, LetsGrow
<1>7. vcell \in [Names -> V]
  <2>1. \A n \in Names : (IF n \in DOMAIN Globals THEN Globals[n] ELSE Unbound) \in V
    BY <1>1, GlobalsAssumption DEF Markers
  <2>2. QED
    BY <1>2, <2>1
<1>8. /\ frames \in Seq(Frames(V)) /\ closures \in Seq(Procedures(F, Len(frames)))
      /\ kont \in Seq(Waits(V, F, Len(frames)))
      /\ Len(closures) = 0
  BY <1>2
<1>9. HeapTyped(V, F)
  BY <1>2, <1>3, <1>4, <1>6, <1>7, <1>8 DEF HeapTyped
<1>10. ctl \in Controls(V, F, Len(frames)) /\ ctl.mode = "eval"
  <2>1. <<>> \in Envs(Len(frames))
    BY DEF Envs
  <2>2. QED
    BY <2>1, <1>2, <1>4, EvalIs DEF Eval
<1>11. Rewritten
  <2>1. \A i \in 1 .. Len(lets) : lets[i].op # "let-internal"
    <3>1. ASSUME NEW i \in 1 .. Len(lets) PROVE lets[i].op # "let-internal"
      <4>1. lets[i] \in Lets({"let", "let*", "letrec"}, Programs[program].texts)
        BY <1>5, ElementIn
      <4>2. lets[i].op \in {"let", "let*", "letrec"}
        BY <4>1 DEF Lets
      <4>3. QED
        BY <4>2
    <3>2. QED
      BY <3>1
  <2>2. QED
    BY <2>1, <1>10 DEF Rewritten
<1>12. Typed(V, F)
  BY <1>8, <1>9, <1>10, <1>11 DEF Typed, StackTyped
<1>13. QED
  BY <1>12 DEF EvaluatorInv

LEMMA StepTyped ==
  ASSUME EvaluatorInv, [Next]_vars
  PROVE  EvaluatorInv'
<1>1. PICK V, F : Typed(V, F)
  BY DEF EvaluatorInv
<1>2. SUFFICES \E W, G : Typed(W, G)'
  BY DEF EvaluatorInv
<1>3. CASE leval_const
  BY <1>1, <1>3, ConstStep
<1>4. CASE leval_symbol
  BY <1>1, <1>4, SymbolStep
<1>5. CASE leval_lambda
  BY <1>1, <1>5, LambdaStep
<1>6. CASE leval_special
  BY <1>1, <1>6, SpecialStep
<1>7. CASE leval_prog1
  BY <1>1, <1>7, Prog1Step
<1>8. CASE leval_cond
  BY <1>1, <1>8, CondStep
<1>9. CASE CondReturns
  BY <1>1, <1>9, CondReturnsStep
<1>10. CASE IfReturns
  BY <1>1, <1>10, IfReturnsStep
<1>11. CASE SequenceReturns
  BY <1>1, <1>11, SequenceReturnsStep
<1>12. CASE WhileReturns
  BY <1>1, <1>12, WhileReturnsStep
<1>13. CASE Prog1Returns
  BY <1>1, <1>13, Prog1ReturnsStep
<1>14. CASE leval_setq
  BY <1>1, <1>14, SetqStep
<1>15. CASE leval_define
  BY <1>1, <1>15, DefineStep
<1>16. CASE DefineActual
  BY <1>1, <1>16, DefineActualStep
<1>17. CASE leval_call
  BY <1>1, <1>17, CallStep
<1>18. CASE HeadReturns
  BY <1>1, <1>18, HeadReturnsStep
<1>19. CASE ArgumentReturns
  BY <1>1, <1>19, ArgumentReturnsStep
<1>20. CASE siod_lapply
  BY <1>1, <1>20, LapplyStep
<1>21. CASE BodyReturns
  BY <1>1, <1>21, BodyReturnsStep
<1>22. CASE siod_ltrace_1
  BY <1>1, <1>22, TraceStep
<1>23. CASE leval_let
  BY <1>1, <1>23, LetStep
<1>24. CASE LetStores
  BY <1>1, <1>24, LetStoresStep
<1>25. CASE LetRenamed
  BY <1>1, <1>25, LetRenamedStep
<1>26. CASE err
  BY <1>1, <1>26, ErrStep
<1>27. CASE Interrupt
  BY <1>1, <1>27, InterruptStep
<1>28. CASE UNCHANGED vars
  BY <1>1, <1>28, NoStep
<1>29. QED
  BY <1>3, <1>4, <1>5, <1>6, <1>7, <1>8, <1>9, <1>10, <1>11, <1>12, <1>13, <1>14, <1>15, <1>16, <1>17,
     <1>18, <1>19, <1>20, <1>21, <1>22, <1>23, <1>24, <1>25, <1>26, <1>27, <1>28 DEF Next, Step

(* Whatever the programs are, and wherever interrupts come, there are       *)
(* always sets of values and of forms that hold all there is: siod_leval    *)
(* never makes or keeps a pointer to a frame, a closure or a let form that  *)
(* is not there, a waiting call has the arguments its function needs, and a *)
(* form that is let-internal has its arguments and its body.                *)
THEOREM EvaluatorStaysTyped == Spec => []EvaluatorInv
<1>1. Init => EvaluatorInv
  BY InitTyped
<1>2. EvaluatorInv /\ [Next]_vars => EvaluatorInv'
  BY StepTyped
<1>3. QED
  BY <1>1, <1>2, PTL DEF Spec

LEMMA TypedIsTypeOK ==
  ASSUME NEW V, NEW F, Typed(V, F)
  PROVE  TypeOK
<1> DEFINE m == Len(frames)
<1>1. /\ frames \in Seq(Frames(V)) /\ closures \in Seq(Procedures(F, m)) /\ lets \in Seq(Lets(LetOps, F))
      /\ torn \subseteq {"define", "let", "let*", "letrec"}
      /\ kont \in Seq(Waits(V, F, m)) /\ ctl \in Controls(V, F, m)
  BY InvFacts DEF HeapTyped
<1>2. ASSUME NEW env \in Envs(m) PROVE Range(env) \subseteq DOMAIN frames
  <2>1. DOMAIN frames = 1 .. Len(frames)
    BY <1>1
  <2>2. \A j \in DOMAIN env : env[j] \in 1 .. Len(frames)
    BY DEF Envs
  <2>3. QED
    BY <2>1, <2>2 DEF Range
<1>3. ASSUME NEW i \in DOMAIN closures PROVE Range(closures[i].env) \subseteq DOMAIN frames
  <2>1. i \in 1 .. Len(closures)
    BY <1>1
  <2>2. closures[i] \in Procedures(F, m)
    BY <1>1, <2>1, ElementIn
  <2>3. closures[i].env \in Envs(m)
    BY <2>2 DEF Procedures
  <2>4. QED
    BY <2>3, <1>2
<1>4. "env" \in DOMAIN ctl => Range(ctl.env) \subseteq DOMAIN frames
  <2>1. "env" \in DOMAIN ctl => ctl.env \in Envs(m)
    BY <1>1 DEF Controls, Evals, Yields, Defines, Rewrites, Applies
  <2>2. QED
    BY <2>1, <1>2
<1>5. ASSUME NEW i \in DOMAIN kont, "env" \in DOMAIN kont[i] PROVE Range(kont[i].env) \subseteq DOMAIN frames
  <2>1. i \in 1 .. Len(kont)
    BY <1>1
  <2>2. kont[i] \in Waits(V, F, m)
    BY <1>1, <2>1, ElementIn
  <2>3. ASSUME NEW w \in Waits(V, F, m), "env" \in DOMAIN w PROVE w.env \in Envs(m)
    <3>1. CASE w \in SpecialWaits(F, m)
      BY <3>1 DEF SpecialWaits
    <3>2. CASE w \in Prog1Waits(V, F, m)
      BY <3>2 DEF Prog1Waits
    <3>3. CASE w \in CondWaits(F, m)
      BY <3>3 DEF CondWaits
    <3>4. CASE w \in HeadWaits(F, m)
      BY <3>4 DEF HeadWaits
    <3>5. CASE w \in ArgWaits(V, F, m)
      BY <3>5 DEF ArgWaits
    <3>6. CASE w \in BodyWaits
      BY <3>6, <2>3 DEF BodyWaits
    <3>7. QED
      BY <3>1, <3>2, <3>3, <3>4, <3>5, <3>6 DEF Waits
  <2>4. kont[i].env \in Envs(m)
    BY <1>5, <2>2, <2>3
  <2>5. QED
    BY <2>4, <1>2
<1>6. ASSUME NEW i \in DOMAIN lets
      PROVE  lets[i].op \in {"let", "let*", "letrec", "let-internal"} /\ lets[i].rest # <<>>
  <2>1. i \in 1 .. Len(lets)
    BY <1>1
  <2>2. lets[i] \in Lets(LetOps, F)
    BY <1>1, <2>1, ElementIn
  <2>3. QED
    BY <2>2 DEF Lets, LetOps
<1>7. QED
  BY <1>1, <1>3, <1>4, <1>5, <1>6 DEF TypeOK

(* Environments are made of frames that exist, and a let form always has a  *)
(* body, however often evaluation was interrupted half-way in rewriting it. *)
THEOREM EvaluatorTypesStay == Spec => []TypeOK
<1>1. EvaluatorInv => TypeOK
  BY TypedIsTypeOK DEF EvaluatorInv
<1>2. QED
  BY <1>1, EvaluatorStaysTyped, PTL

-----------------------------------------------------------------------------
(* Names keep their values. *)

BoundIn(n, f) ==
  LET i == InFrame(n, f) IN IF i > 0 THEN f.actuals[i] ELSE IF i = -1 THEN Rest(f) ELSE Unbound

LEMMA BoundIs ==
  ASSUME NEW n, NEW fr
  PROVE  Bound(n, fr) = BoundIn(n, Settled(fr)) /\ Bound(n, fr)' = BoundIn(n, Settled(fr)')
<1>1. Bound(n, fr) = BoundIn(n, Settled(fr))
  BY DEF Bound, BoundIn
<1>2. Bound(n, fr)' = BoundIn(n, Settled(fr)')
  BY DEF Bound, BoundIn
<1>3. QED
  BY <1>1, <1>2

(* The step leaves the frames there are, and no define is half-way. *)
KeepsFrames ==
  /\ ctl.mode # "define" /\ ctl'.mode # "define"
  /\ frames' = frames \/ \E g : frames' = Append(frames, g)

LEMMA KeptFrames ==
  ASSUME NEW S, frames \in Seq(S), KeepsFrames, NEW fr \in DOMAIN frames
  PROVE  Settled(fr)' = Settled(fr)
<1>1. frames'[fr] = frames[fr]
  <2>1. CASE frames' = frames
    BY <2>1
  <2>2. CASE \E g : frames' = Append(frames, g)
    <3>1. PICK g : frames' = Append(frames, g)
      BY <2>2
    <3>2. fr \in 1 .. Len(frames)
      OBVIOUS
    <3>3. QED
      BY <3>1, <3>2
  <2>3. QED
    BY <2>1, <2>2 DEF KeepsFrames
<1>2. Settled(fr) = frames[fr] /\ Settled(fr)' = frames'[fr]
  BY DEF Settled, KeepsFrames
<1>3. QED
  BY <1>1, <1>2

LEMMA FinishKeeps ==
  ASSUME NEW f, f.t = "subr" => f \in Builtins, NEW vals, NEW below, Finish(f, vals, below)
  PROVE  ctl'.mode # "define" /\ (frames' = frames \/ \E g : frames' = Append(frames, g))
<1>1. CASE f.t = "let"
  BY <1>1 DEF Finish, EnterBody, Eval
<1>2. CASE f.t = "closure"
  BY <1>2 DEF Finish, EnterBody, Eval
<1>3. CASE f.t = "subr" /\ f.fn = "apply"
  <2>1. f.type # "2n"
    BY <1>3, BuiltinsAre
  <2>2. ctl' = Applying(vals) /\ frames' = frames
    BY <1>3, <2>1 DEF Finish
  <2>3. QED
    BY <2>2 DEF Applying, Return
<1>4. CASE f.t = "subr" /\ f.fn # "apply" /\ f.type = "2n"
  BY <1>4 DEF Finish, Return
<1>5. CASE ~(f.t = "subr" /\ (f.fn = "apply" \/ f.type = "2n")) /\ f.t # "let" /\ f.t # "closure"
  <2>1. ctl' = Return(Primitive(f.fn, vals)) /\ frames' = frames
    BY <1>5 DEF Finish
  <2>2. QED
    BY <2>1 DEF Return
<1>6. QED
  BY <1>1, <1>2, <1>3, <1>4, <1>5

LEMMA ApplyKeeps ==
  ASSUME NEW f, f.t = "subr" => f \in Builtins, NEW forms, NEW env, NEW below, Apply(f, forms, env, below)
  PROVE  ctl'.mode # "define" /\ (frames' = frames \/ \E g : frames' = Append(frames, g))
<1> DEFINE args == Arguments(f, forms)
<1>1. CASE ~IsFunction(f)
  BY <1>1 DEF Apply, Return
<1>2. CASE IsFunction(f) /\ args = <<>>
  <2>1. Finish(f, <<>>, below)
    BY <1>2 DEF Apply
  <2>2. QED
    BY <2>1, FinishKeeps
<1>3. CASE IsFunction(f) /\ args # <<>>
  <2>1. frames' = frames /\ \E i : ctl' = Eval(args[i], env)
    BY <1>3 DEF Apply
  <2>2. QED
    BY <2>1 DEF Eval
<1>4. QED
  BY <1>1, <1>2, <1>3

LEMMA ValueIsBuiltin ==
  ASSUME NEW V, NEW n, NEW v, IsValue(v, V, n), v.t = "subr"
  PROVE  v \in Builtins
BY DEF IsValue

LEMMA ControlKeeps ==
  ASSUME \/ leval_const \/ leval_symbol \/ leval_lambda \/ leval_special \/ leval_prog1 \/ leval_cond
         \/ CondReturns \/ IfReturns \/ SequenceReturns \/ WhileReturns \/ Prog1Returns
         \/ BodyReturns \/ siod_ltrace_1 \/ LetStores \/ LetRenamed \/ err
  PROVE  KeepsFrames
<1>1. leval_const \/ leval_symbol \/ leval_lambda => KeepsFrames
  BY DEF leval_const, leval_symbol, leval_lambda, KeepsFrames, Evaluates, Return, data
<1>2. leval_special => KeepsFrames
  BY DEF leval_special, Special1, KeepsFrames, Evaluates, Return, Eval, data
<1>3. leval_prog1 => KeepsFrames
  BY DEF leval_prog1, KeepsFrames, Evaluates, Eval, data
<1>4. leval_cond => KeepsFrames
  BY DEF leval_cond, Cond1, KeepsFrames, Evaluates, Return, Eval, data
<1>5. CondReturns => KeepsFrames
  <2>1. SUFFICES ASSUME CondReturns PROVE KeepsFrames
    OBVIOUS
  <2>2. ctl.mode = "return" /\ frames' = frames
    BY <2>1 DEF CondReturns, Returns, data
  <2>3. CASE ctl.val = NIL
    <3>1. Cond1(Tail(Top.clauses), Top.env, Below)
      BY <2>1, <2>3 DEF CondReturns
    <3>2. QED
      BY <2>2, <3>1 DEF Cond1, KeepsFrames, Return, Eval
  <2>4. CASE ctl.val # NIL
    <3>1. ctl' = ctl \/ \E x : ctl' = Eval(x, Top.env)
      BY <2>1, <2>4 DEF CondReturns
    <3>2. QED
      BY <2>2, <3>1 DEF KeepsFrames, Eval
  <2>5. QED
    BY <2>3, <2>4
<1>6. IfReturns => KeepsFrames
  BY DEF IfReturns, KeepsFrames, Returns, Return, Eval, data
<1>7. SequenceReturns => KeepsFrames
  BY DEF SequenceReturns, KeepsFrames, Returns, Eval, data
<1>8. WhileReturns => KeepsFrames
  BY DEF WhileReturns, KeepsFrames, Returns, Return, Eval, data
<1>9. Prog1Returns => KeepsFrames
  BY DEF Prog1Returns, KeepsFrames, Returns, Return, Eval, data
<1>10. BodyReturns => KeepsFrames
  BY DEF BodyReturns, KeepsFrames, Returns, data
<1>11. siod_ltrace_1 => KeepsFrames
  BY DEF siod_ltrace_1, KeepsFrames, Evaluates, Return
<1>12. LetStores => KeepsFrames
  BY DEF LetStores, KeepsFrames, Evaluates, Rewriting
<1>13. LetRenamed => KeepsFrames
  BY DEF LetRenamed, KeepsFrames, Eval
<1>14. err => KeepsFrames
  BY DEF err, KeepsFrames, Return, data
<1>15. QED
  BY <1>1, <1>2, <1>3, <1>4, <1>5, <1>6, <1>7, <1>8, <1>9, <1>10, <1>11, <1>12, <1>13, <1>14

LEMMA CallsKeep ==
  ASSUME NEW V, NEW F, Typed(V, F)
  PROVE  leval_call \/ HeadReturns \/ ArgumentReturns \/ siod_lapply \/ leval_let => KeepsFrames
<1>0. \A v \in V : IsValue(v, V, Len(closures))
  BY InvFacts
<1>1. ASSUME leval_call PROVE KeepsFrames
  <2> DEFINE head == ctl.x.items[1]
             forms == Tail(ctl.x.items)
  <2>1. ctl.mode = "eval" /\ ctl.x.op = "call"
    BY <1>1 DEF leval_call, Evaluates
  <2>2. ctl.env \in Envs(Len(frames)) /\ IsForm(ctl.x, F, Constants, Len(lets))
    BY <2>1, Evaluating
  <2>3. ctl.x.items \in Seq(F) /\ ctl.x.items # <<>>
    BY <2>1, <2>2 DEF IsForm, Sequential
  <2>4. head \in F
    BY <2>3, ItemIn
  <2>5. IsForm(head, F, Constants, Len(lets)) /\ HeapTyped(V, F)
    BY <2>4, InvFacts DEF AllTexts
  <2> HIDE DEF head, forms
  <2>6. CASE head.op = "symbol"
    <3>1. PICK f : f = Value(head.name, ctl.env)
      OBVIOUS
    <3>2. head.name \in Names
      BY <2>5, <2>6 DEF IsForm, Sequential
    <3>3. IsValue(f, V, Len(closures))
      BY <2>2, <2>5, <3>1, <3>2, ValueIsValue
    <3>4. Apply(f, forms, ctl.env, kont)
      BY <1>1, <2>6, <3>1 DEF leval_call, head, forms
    <3>5. QED
      BY <2>1, <3>3, <3>4, ValueIsBuiltin, ApplyKeeps DEF KeepsFrames
  <2>7. CASE head.op = "const"
    <3>1. Apply(head.val, forms, ctl.env, kont)
      BY <1>1, <2>7 DEF leval_call, head, forms
    <3>2. head.val \in V
      BY <2>5, <2>7, InvFacts DEF IsForm, Sequential, AllValues
    <3>3. IsValue(head.val, V, Len(closures))
      BY <1>0, <3>2
    <3>4. QED
      BY <2>1, <3>1, <3>3, ValueIsBuiltin, ApplyKeeps DEF KeepsFrames
  <2>8. CASE head.op # "symbol" /\ head.op # "const"
    <3>1. ctl' = Eval(head, ctl.env) /\ frames' = frames
      BY <1>1, <2>8 DEF leval_call, head
    <3>2. QED
      BY <2>1, <3>1 DEF KeepsFrames, Eval
  <2>9. QED
    BY <2>6, <2>7, <2>8
<1>2. ASSUME HeadReturns PROVE KeepsFrames
  <2>1. Returns({"head"}) /\ Apply(ctl.val, Top.forms, Top.env, Below)
    BY <1>2 DEF HeadReturns
  <2>2. ctl.val \in V /\ ctl.mode = "return"
    BY <2>1, Waiting DEF Returns
  <2>3. IsValue(ctl.val, V, Len(closures))
    BY <1>0, <2>2
  <2>4. QED
    BY <2>1, <2>2, <2>3, ValueIsBuiltin, ApplyKeeps DEF KeepsFrames
<1>3. ASSUME ArgumentReturns PROVE KeepsFrames
  <2>1. Returns({"args"})
    BY <1>3 DEF ArgumentReturns
  <2>2. Top \in Waits(V, F, Len(frames)) /\ Top.k = "args" /\ ctl.mode = "return"
    BY <2>1, Waiting DEF Returns
  <2>3. Top \in ArgWaits(V, F, Len(frames))
    BY <2>2, WaitKinds
  <2>4. Top.f \in Functions1(V, F, Len(frames))
    BY <2>3 DEF ArgWaits
  <2>5. Top.f.t = "subr" => Top.f \in Builtins
    <3>1. Top.f \in V \/ Top.f.t = "let"
      BY <2>4 DEF Functions1
    <3>2. QED
      BY <3>1, FunctionIs
  <2>6. CASE Stored[Top.todo[1]] = Error
    BY <1>3, <2>2, <2>6 DEF ArgumentReturns, Return, KeepsFrames
  <2>7. CASE Stored[Top.todo[1]] # Error /\ Len(Top.todo) = 1
    <3>1. Finish(Top.f, Stored, Below)
      BY <1>3, <2>7 DEF ArgumentReturns
    <3>2. QED
      BY <2>2, <2>5, <3>1, FinishKeeps DEF KeepsFrames
  <2>8. CASE Stored[Top.todo[1]] # Error /\ Len(Top.todo) # 1
    <3>1. frames' = frames /\ ctl' = Eval(Top.args[Top.todo[2]], Top.env)
      BY <1>3, <2>8 DEF ArgumentReturns
    <3>2. QED
      BY <2>2, <3>1 DEF Eval, KeepsFrames
  <2>9. QED
    BY <2>6, <2>7, <2>8
<1>4. ASSUME siod_lapply PROVE KeepsFrames
  <2> DEFINE f == ctl.f
             c == closures[f.id]
             args == Taken(f, ctl.args)
  <2>1. ctl.mode = "apply" /\ ctl \in Controls(V, F, Len(frames))
    BY <1>4, InvFacts DEF siod_lapply
  <2>2. ctl \in Applies(V)
    BY <2>1, ControlKinds
  <2>3. f \in V
    BY <2>2 DEF Applies
  <2>4. CASE f.t = "closure" /\ ~c.traced
    <3>1. EnterBody(c.body, c.formals, ctl.args, c.env, Append(kont, Wait("apply")))
      BY <1>4, <2>4 DEF siod_lapply
    <3> HIDE DEF c
    <3>2. QED
      BY <2>1, <3>1 DEF EnterBody, KeepsFrames, Eval
  <2>5. CASE f.t = "subr"
    <3>1. /\ ctl' = CASE f.fn = "apply" -> Applying(args)
                      [] f.type = "2n" -> Return(Combined(f.fn, args))
                      [] OTHER -> Return(Primitive(f.fn, args))
          /\ frames' = frames
      BY <1>4, <2>5 DEF siod_lapply
    <3>2. f.fn = "apply" => f.type # "2n"
      BY <2>3, <2>5, FunctionIs, BuiltinsAre
    <3> HIDE DEF args
    <3>3. \E v : ctl' = Applying(v) \/ ctl' = Return(v)
      <4>1. CASE f.fn = "apply"
        BY <4>1, <3>1, <3>2
      <4>2. CASE f.fn # "apply" /\ f.type = "2n"
        BY <4>2, <3>1
      <4>3. CASE f.fn # "apply" /\ f.type # "2n"
        BY <4>3, <3>1
      <4>4. QED
        BY <4>1, <4>2, <4>3
    <3>4. QED
      BY <2>1, <3>1, <3>3 DEF Applying, Return, KeepsFrames
  <2>6. CASE ~(f.t = "closure" /\ ~c.traced) /\ f.t # "subr"
    <3>1. ctl' = Return(Error) /\ frames' = frames
      BY <1>4, <2>6 DEF siod_lapply
    <3>2. QED
      BY <2>1, <3>1 DEF Return, KeepsFrames
  <2>7. QED
    BY <2>4, <2>5, <2>6
<1>5. ASSUME leval_let PROVE KeepsFrames
  <2>1. PICK f, forms : f.t = "let" /\ Apply(f, forms, ctl.env, kont)
    BY <1>5 DEF leval_let
  <2>2. ctl.mode = "eval"
    BY <1>5 DEF leval_let, Evaluates
  <2>3. QED
    BY <2>1, <2>2, ApplyKeeps DEF KeepsFrames
<1>6. QED
  BY <1>1, <1>2, <1>3, <1>4, <1>5

LEMMA SameSequence ==
  ASSUME NEW S, NEW s \in Seq(S), NEW t \in Seq(S), Len(s) = Len(t), \A i \in 1 .. Len(s) : s[i] = t[i]
  PROVE  s = t
OBVIOUS

LEMMA SubSeqIs ==
  ASSUME NEW S, NEW s \in Seq(S), NEW k \in Nat
  PROVE  /\ SubSeq(s, k + 1, Len(s)) \in Seq(S)
         /\ Len(SubSeq(s, k + 1, Len(s))) = IF k < Len(s) THEN Len(s) - k ELSE 0
         /\ \A i \in 1 .. Len(s) - k : SubSeq(s, k + 1, Len(s))[i] = s[k + i]
<1>1. Len(s) \in Nat
  OBVIOUS
<1>2. SubSeq(s, k + 1, Len(s)) \in Seq(S)
  BY <1>1
<1>3. Len(SubSeq(s, k + 1, Len(s))) = IF k < Len(s) THEN Len(s) - k ELSE 0
  BY <1>1
<1>4. \A i \in 1 .. Len(s) - k : SubSeq(s, k + 1, Len(s))[i] = s[k + i]
  BY <1>1
<1>5. QED
  BY <1>2, <1>3, <1>4

(* What is left for the rest formal does not see what is in front of it. *)
LEMMA SameRest ==
  ASSUME NEW S, NEW s \in Seq(S), NEW t \in Seq(S), NEW j \in Nat, NEW k \in Nat,
         j <= Len(s), k <= Len(t), Len(s) - j = Len(t) - k,
         \A i \in 1 .. Len(s) - j : s[j + i] = t[k + i]
  PROVE  SubSeq(s, j + 1, Len(s)) = SubSeq(t, k + 1, Len(t))
<1> DEFINE p == SubSeq(s, j + 1, Len(s))
           q == SubSeq(t, k + 1, Len(t))
<1>1. Len(s) \in Nat /\ Len(t) \in Nat
  OBVIOUS
<1>2. p \in Seq(S) /\ Len(p) = Len(s) - j /\ \A i \in 1 .. Len(s) - j : p[i] = s[j + i]
  <2>1. Len(p) = IF j < Len(s) THEN Len(s) - j ELSE 0
    BY SubSeqIs
  <2>2. Len(p) = Len(s) - j
    BY <1>1, <2>1
  <2>3. QED
    BY <2>2, SubSeqIs
<1>3. q \in Seq(S) /\ Len(q) = Len(t) - k /\ \A i \in 1 .. Len(t) - k : q[i] = t[k + i]
  <2>1. Len(q) = IF k < Len(t) THEN Len(t) - k ELSE 0
    BY SubSeqIs
  <2>2. Len(q) = Len(t) - k
    BY <1>1, <2>1
  <2>3. QED
    BY <2>2, SubSeqIs
<1> HIDE DEF p, q
<1>4. Len(p) = Len(q) /\ \A i \in 1 .. Len(p) : p[i] = q[i]
  BY <1>2, <1>3
<1>5. p = q
  BY <1>2, <1>3, <1>4, SameSequence
<1>6. QED
  BY <1>5 DEF p, q

(* Another value in the place of a name. *)
LEMMA AssignKeepsOthers ==
  ASSUME NEW V, NEW f \in Frames(V), NEW n \in Names, InFrame(n, f) > 0,
         NEW a \in Seq(V), Len(a) = Len(f.actuals),
         \A j \in 1 .. Len(f.actuals) : j # InFrame(n, f) => a[j] = f.actuals[j],
         NEW g, g.vars = f.vars, g.rest = f.rest, g.actuals = a,
         NEW other \in Names, other # n
  PROVE  BoundIn(other, g) = BoundIn(other, f)
<1> DEFINE at == InFrame(n, f)
           i == InFrame(other, f)
<1>1. f.vars \in Seq(Names) /\ f.actuals \in Seq(V) /\ Len(f.vars) \in Nat /\ Len(f.actuals) \in Nat
  BY DEF Frames
<1>2. at \in 1 .. Len(f.vars) /\ at \in 1 .. Len(f.actuals) /\ f.vars[at] = n
  BY InFrameIs
<1>3. /\ i \in Int
      /\ i > 0 => i \in 1 .. Len(f.actuals) /\ f.vars[i] = other
      /\ i = -1 => Len(f.vars) <= Len(f.actuals)
  BY InFrameIs
<1>4. a \in Seq(V) /\ Len(a) = Len(f.actuals)
  OBVIOUS
<1>5. \A j \in 1 .. Len(f.actuals) : j # at => a[j] = f.actuals[j]
  OBVIOUS
<1>6. g.vars = f.vars /\ g.rest = f.rest /\ g.actuals = a
  OBVIOUS
<1>7. InFrame(other, g) = i
  BY <1>4, <1>6 DEF InFrame
<1> HIDE DEF at, i
<1>8. CASE i > 0
  <2>1. i # at
    BY <1>2, <1>3, <1>8
  <2>2. BoundIn(other, g) = a[i] /\ BoundIn(other, f) = f.actuals[i]
    BY <1>6, <1>7, <1>8 DEF BoundIn, i
  <2>3. QED
    BY <2>1, <2>2, <1>3, <1>5, <1>8
<1>9. CASE i = -1
  <2>1. BoundIn(other, g) = Rest(g) /\ BoundIn(other, f) = Rest(f)
    BY <1>7, <1>9 DEF BoundIn, i
  <2>2. \A k \in 1 .. Len(a) - Len(f.vars) : a[Len(f.vars) + k] = f.actuals[Len(f.vars) + k]
    <3>1. ASSUME NEW k \in 1 .. Len(a) - Len(f.vars)
          PROVE  a[Len(f.vars) + k] = f.actuals[Len(f.vars) + k]
      <4>1. Len(f.vars) + k \in 1 .. Len(f.actuals) /\ Len(f.vars) + k # at
        <5>1. PICK x, y : x = Len(f.vars) /\ y = Len(f.actuals)
          OBVIOUS
        <5>2. x \in Nat /\ y \in Nat /\ k \in 1 .. y - x /\ at \in 1 .. x
          BY <1>1, <1>2, <1>4, <5>1
        <5>3. x + k \in 1 .. y /\ x + k # at
          BY <5>2
        <5>4. QED
          BY <5>1, <5>3
      <4>2. QED
        BY <4>1, <1>5
    <3>2. QED
      BY <3>1
  <2>3. Len(f.vars) <= Len(a) /\ Len(f.vars) <= Len(f.actuals)
        /\ Len(a) - Len(f.vars) = Len(f.actuals) - Len(f.vars)
    BY <1>3, <1>4, <1>9
  <2>4. SubSeq(a, Len(f.vars) + 1, Len(a)) = SubSeq(f.actuals, Len(f.vars) + 1, Len(f.actuals))
    <3>1. PICK s, m : s = f.actuals /\ m = Len(f.vars)
      OBVIOUS
    <3>2. /\ s \in Seq(V) /\ a \in Seq(V) /\ m \in Nat /\ m <= Len(a) /\ m <= Len(s)
          /\ Len(a) - m = Len(s) - m
          /\ \A k \in 1 .. Len(a) - m : a[m + k] = s[m + k]
      BY <1>1, <1>4, <2>2, <2>3, <3>1
    <3>3. SubSeq(a, m + 1, Len(a)) = SubSeq(s, m + 1, Len(s))
      BY <3>2, SameRest
    <3>4. QED
      BY <3>1, <3>3
  <2>5. QED
    BY <2>1, <2>4, <1>6 DEF Rest
<1>10. CASE ~(i > 0) /\ i # -1
  BY <1>7, <1>10 DEF BoundIn, i
<1>11. QED
  BY <1>8, <1>9, <1>10

(* Another name in front of the formals, and its value in front of the      *)
(* actuals.                                                                 *)
LEMMA IndexShifts ==
  ASSUME NEW names \in Seq(Names), NEW n \in Names, NEW other \in Names, other # n
  PROVE  VarIndex(other, <<n>> \o names) =
           IF VarIndex(other, names) = 0 THEN 0 ELSE VarIndex(other, names) + 1
<1> DEFINE longer == <<n>> \o names
           i == VarIndex(other, names)
           j == VarIndex(other, longer)
<1>1. /\ longer \in Seq(Names) /\ Len(longer) = Len(names) + 1 /\ Len(names) \in Nat
      /\ longer[1] = n /\ \A k \in 1 .. Len(names) : longer[k + 1] = names[k]
  OBVIOUS
<1>2. \/ i = 0 /\ \A k \in 1 .. Len(names) : names[k] # other
      \/ /\ i \in 1 .. Len(names) /\ names[i] = other
         /\ \A k \in 1 .. Len(names) : k < i => names[k] # other
  BY VarIndexIs
<1> HIDE DEF longer
<1>3. \/ j = 0 /\ \A k \in 1 .. Len(longer) : longer[k] # other
      \/ /\ j \in 1 .. Len(longer) /\ longer[j] = other
         /\ \A k \in 1 .. Len(longer) : k < j => longer[k] # other
  BY <1>1, VarIndexIs
<1> HIDE DEF i, j
<1>4. j # 0 => j - 1 \in 1 .. Len(names) /\ names[j - 1] = other
  <2>1. SUFFICES ASSUME j # 0 PROVE j - 1 \in 1 .. Len(names) /\ names[j - 1] = other
    OBVIOUS
  <2>2. j \in 1 .. Len(longer) /\ longer[j] = other
    BY <1>3, <2>1
  <2>3. j # 1
    BY <2>2, <1>1
  <2>4. j - 1 \in 1 .. Len(names) /\ (j - 1) + 1 = j
    BY <1>1, <2>2, <2>3
  <2>5. QED
    BY <1>1, <2>2, <2>4
<1>5. CASE i = 0
  <2>1. j = 0
    BY <1>2, <1>4, <1>5
  <2>2. QED
    BY <2>1, <1>5 DEF i, j, longer
<1>6. CASE i # 0
  <2>1. i \in 1 .. Len(names) /\ names[i] = other /\ \A k \in 1 .. Len(names) : k < i => names[k] # other
    BY <1>2, <1>6
  <2>2. i + 1 \in 1 .. Len(longer) /\ longer[i + 1] = other
    BY <1>1, <2>1
  <2>3. j # 0 /\ j \in 1 .. Len(longer) /\ ~(i + 1 < j)
    BY <1>3, <2>2
  <2>4. ~(j - 1 < i)
    BY <1>4, <2>1, <2>3
  <2>5. j = i + 1
    BY <1>1, <2>1, <2>3, <2>4
  <2>6. QED
    BY <2>5, <1>6 DEF i, j, longer
<1>7. QED
  BY <1>5, <1>6

(* The frame g is f after leval_define has put the name n and a value in
   front of its two lists. *)
Pushed(n, f, g, V) ==
  /\ g.vars = <<n>> \o f.vars /\ g.rest = f.rest
  /\ g.actuals \in Seq(V) /\ Len(g.actuals) = Len(f.actuals) + 1
  /\ \A j \in 1 .. Len(f.actuals) : g.actuals[j + 1] = f.actuals[j]

LEMMA DefineKeepsOthers ==
  ASSUME NEW V, NEW f \in Frames(V), NEW n \in Names, NEW g, Pushed(n, f, g, V),
         NEW other \in Names, other # n
  PROVE  BoundIn(other, g) = BoundIn(other, f)
<1> DEFINE i == InFrame(other, f)
           x == VarIndex(other, f.vars)
           m == Len(f.vars)
           k == Len(f.actuals)
<1>1. f.vars \in Seq(Names) /\ f.actuals \in Seq(V) /\ m \in Nat /\ k \in Nat
  BY DEF Frames
<1>2. g.vars = <<n>> \o f.vars /\ g.rest = f.rest
  BY DEF Pushed
<1>3. /\ Len(g.vars) = m + 1 /\ Len(g.actuals) = k + 1 /\ g.actuals \in Seq(V)
      /\ \A j \in 1 .. k : g.actuals[j + 1] = f.actuals[j]
  BY <1>1, <1>2 DEF Pushed
<1>4. VarIndex(other, g.vars) = IF x = 0 THEN 0 ELSE x + 1
  <2>1. VarIndex(other, <<n>> \o f.vars) =
          IF VarIndex(other, f.vars) = 0 THEN 0 ELSE VarIndex(other, f.vars) + 1
    BY <1>1, IndexShifts
  <2>2. QED
    BY <2>1, <1>2
<1>5. x = 0 \/ x \in 1 .. m
  BY <1>1, VarIndexIs
<1>6. InFrame(other, f) = IF (IF x = 0 THEN m ELSE x) > k THEN -2
                          ELSE IF x # 0 THEN x ELSE IF f.rest = other THEN -1 ELSE 0
  BY DEF InFrame, VarIndex
<1>7. InFrame(other, g) = IF (IF VarIndex(other, g.vars) = 0 THEN m + 1 ELSE VarIndex(other, g.vars)) > k + 1 THEN -2
                          ELSE IF VarIndex(other, g.vars) # 0 THEN VarIndex(other, g.vars)
                          ELSE IF f.rest = other THEN -1 ELSE 0
  BY <1>2, <1>3 DEF InFrame, VarIndex
<1>8. /\ i \in Int
      /\ i > 0 => i \in 1 .. k
      /\ i = -1 => m <= k
  BY InFrameIs
<1> HIDE DEF x, m, k
<1>9. InFrame(other, g) = IF i > 0 THEN i + 1 ELSE i
  BY <1>1, <1>4, <1>5, <1>6, <1>7 DEF m, k
<1> HIDE DEF i
<1>10. CASE i > 0
  <2>1. BoundIn(other, g) = g.actuals[i + 1] /\ BoundIn(other, f) = f.actuals[i]
    <3>1. InFrame(other, g) = i + 1 /\ i + 1 > 0
      BY <1>8, <1>9, <1>10
    <3>2. BoundIn(other, g) = g.actuals[i + 1]
      BY <3>1 DEF BoundIn
    <3>3. BoundIn(other, f) = f.actuals[i]
      BY <1>10 DEF BoundIn, i
    <3>4. QED
      BY <3>2, <3>3
  <2>2. QED
    BY <2>1, <1>3, <1>8, <1>10
<1>11. CASE i = -1
  <2>1. BoundIn(other, g) = Rest(g) /\ BoundIn(other, f) = Rest(f)
    BY <1>9, <1>11 DEF BoundIn, i
  <2>2. \A j \in 1 .. (k + 1) - (m + 1) : g.actuals[(m + 1) + j] = f.actuals[m + j]
    <3>1. ASSUME NEW j \in 1 .. (k + 1) - (m + 1) PROVE g.actuals[(m + 1) + j] = f.actuals[m + j]
      <4>1. m + j \in 1 .. k /\ (m + j) + 1 = (m + 1) + j
        BY <1>1
      <4>2. QED
        BY <4>1, <1>3
    <3>2. QED
      BY <3>1
  <2>3. m <= k /\ m + 1 <= k + 1 /\ (k + 1) - (m + 1) = k - m /\ m + 1 \in Nat /\ m \in Nat
    BY <1>1, <1>8, <1>11 DEF m, k
  <2>4. SubSeq(g.actuals, (m + 1) + 1, Len(g.actuals)) = SubSeq(f.actuals, m + 1, Len(f.actuals))
    <3>1. PICK s, t : s = g.actuals /\ t = f.actuals
      OBVIOUS
    <3>2. /\ s \in Seq(V) /\ t \in Seq(V) /\ Len(s) = k + 1 /\ Len(t) = k
          /\ \A j \in 1 .. (k + 1) - (m + 1) : s[(m + 1) + j] = t[m + j]
      BY <1>1, <1>3, <2>2, <3>1 DEF k
    <3>3. /\ m + 1 \in Nat /\ m \in Nat /\ m + 1 <= Len(s) /\ m <= Len(t)
          /\ Len(s) - (m + 1) = Len(t) - m
          /\ \A j \in 1 .. Len(s) - (m + 1) : s[(m + 1) + j] = t[m + j]
      BY <1>1, <2>3, <3>2
    <3>4. PICK l \in Nat : l = m + 1
      BY <3>3
    <3>5. SubSeq(s, l + 1, Len(s)) = SubSeq(t, m + 1, Len(t))
      BY <3>2, <3>3, <3>4, SameRest
    <3>6. SubSeq(s, (m + 1) + 1, Len(s)) = SubSeq(t, m + 1, Len(t))
      BY <3>4, <3>5
    <3>7. QED
      BY <3>1, <3>6
  <2>5. QED
    BY <2>1, <2>4, <1>3 DEF Rest, m
<1>12. CASE ~(i > 0) /\ i # -1
  <2>1. InFrame(other, g) = i
    BY <1>9, <1>12
  <2>2. QED
    BY <2>1, <1>12 DEF BoundIn, i
<1>13. QED
  BY <1>10, <1>11, <1>12

(* The steps that change frames. *)
Rebinds(n, fr) == Bound(n, fr)' = Bound(n, fr) \/ Assigns(n) \/ "define" \in torn'

LEMMA AssignRebinds ==
  ASSUME NEW V, NEW F, Typed(V, F), NEW o \in {"set!", "define"}, Returns({o}),
         Assign(envlookup(Top.x.name, Top.env), Top.x.name, ctl.val), ctl'.mode # "define",
         NEW fr \in DOMAIN frames, NEW n \in Names
  PROVE  Rebinds(n, fr)
<1> DEFINE name == Top.x.name
           p == envlookup(name, Top.env)
           f == frames[p.frame]
           a == [f.actuals EXCEPT ![p.at] = ctl.val]
           g == [f EXCEPT !.actuals = a]
<1>1. /\ name \in Names /\ Top.env \in Envs(Len(frames)) /\ ctl.val \in V /\ ctl.mode = "return"
      /\ kont # <<>> /\ Top.k = o
  <2>1. kont # <<>> /\ Top.k = o
    BY DEF Returns
  <2>2. QED
    BY <2>1, AssignedName
<1>2. frames \in Seq(Frames(V)) /\ Len(frames) \in Nat
  BY InvFacts DEF HeapTyped
<1>3. CASE n = name
  BY <1>1, <1>3 DEF Rebinds, Assigns
<1>4. CASE n # name
  <2>1. Settled(fr) = frames[fr] /\ Settled(fr)' = frames'[fr]
    BY <1>1 DEF Settled
  <2>2. frames' = IF p.at > 0 THEN [frames EXCEPT ![p.frame].actuals[p.at] = ctl.val] ELSE frames
    BY DEF Assign
  <2>3. \/ p = [frame |-> 0, at |-> 0]
        \/ p.frame \in 1 .. Len(frames) /\ p.at = InFrame(name, f)
    <3> HIDE DEF name
    <3>1. QED
      BY <1>1, <1>2, LookupIs
  <2>4. CASE p.at > 0 /\ fr = p.frame
    <3>1. p.frame \in 1 .. Len(frames) /\ p.at = InFrame(name, f)
      BY <2>3, <2>4
    <3> HIDE DEF p, name
    <3>2. f \in Frames(V)
      BY <1>2, <3>1, ElementIn
    <3>3. f.actuals \in Seq(V)
      BY <3>2 DEF Frames
    <3>4. frames'[fr] = g
      BY <1>2, <2>2, <2>4, <3>1
    <3> HIDE DEF f
    <3>5. p.at \in 1 .. Len(f.actuals)
      BY <2>4, <3>1, <3>2, InFrameIs
    <3>6. /\ a \in Seq(V) /\ Len(a) = Len(f.actuals)
          /\ \A j \in 1 .. Len(f.actuals) : j # p.at => a[j] = f.actuals[j]
      <4>1. PICK s : s = f.actuals
        OBVIOUS
      <4>2. s \in Seq(V) /\ p.at \in 1 .. Len(s)
        BY <3>3, <3>5, <4>1
      <4>3. [s EXCEPT ![p.at] = ctl.val] \in Seq(V) /\ Len([s EXCEPT ![p.at] = ctl.val]) = Len(s)
        BY <1>1, <4>2, ReplaceIn
      <4>4. \A j \in 1 .. Len(s) : j # p.at => [s EXCEPT ![p.at] = ctl.val][j] = s[j]
        BY <4>2
      <4>5. QED
        BY <4>1, <4>3, <4>4
    <3> HIDE DEF a
    <3>7. BoundIn(n, g) = BoundIn(n, f)
      <4>1. g.vars = f.vars /\ g.rest = f.rest /\ g.actuals = a
        BY <3>2 DEF Frames
      <4> HIDE DEF g
      <4>2. InFrame(name, f) > 0 /\ \A j \in 1 .. Len(f.actuals) : j # InFrame(name, f) => a[j] = f.actuals[j]
        BY <2>4, <3>1, <3>6
      <4>3. name \in Names /\ n # name
        BY <1>1, <1>4 DEF name
      <4>4. QED
        BY <3>2, <3>6, <4>1, <4>2, <4>3, AssignKeepsOthers
    <3> HIDE DEF g
    <3>8. frames[fr] = f
      BY <2>4 DEF f
    <3>9. QED
      BY <2>1, <3>4, <3>7, <3>8, BoundIs DEF Rebinds
  <2>5. CASE ~(p.at > 0 /\ fr = p.frame)
    <3>1. frames'[fr] = frames[fr]
      BY <1>2, <2>2, <2>5
    <3>2. QED
      BY <2>1, <3>1, BoundIs DEF Rebinds
  <2>6. QED
    BY <2>4, <2>5
<1>5. QED
  BY <1>3, <1>4

LEMMA DefineRebinds ==
  ASSUME NEW V, NEW F, Typed(V, F), leval_define, NEW fr \in DOMAIN frames, NEW n \in Names
  PROVE  Rebinds(n, fr)
<1> DEFINE name == Top.x.name
           p == envlookup(name, Top.env)
           e == Top.env[1]
           f == frames[fr]
           v == ctl.val
           g == [f EXCEPT !.vars = <<name>> \o f.vars, !.actuals = <<v>> \o f.actuals]
<1>1. Returns({"define"})
  BY DEF leval_define
<1>2. name \in Names /\ Top.env \in Envs(Len(frames)) /\ v \in V /\ ctl.mode = "return"
  BY <1>1, AssignedName
<1>3. frames \in Seq(Frames(V)) /\ Len(frames) \in Nat
  BY InvFacts DEF HeapTyped
<1>4. f \in Frames(V)
  <2>1. fr \in 1 .. Len(frames)
    BY <1>3
  <2>2. QED
    BY <1>3, <2>1, ElementIn
<1>5. CASE p.at = 0 /\ Top.env # <<>>
  <2>1. /\ frames' = [frames EXCEPT ![e].vars = <<name>> \o @]
        /\ ctl' = [mode |-> "define", name |-> name, val |-> v, frame |-> e]
    BY <1>5 DEF leval_define
  <2>2. Settled(fr) = f
    BY <1>2 DEF Settled
  <2>3. CASE n = name
    BY <1>1, <2>3 DEF Rebinds, Assigns, Returns
  <2>4. CASE n # name /\ fr = e
    <3>1. frames'[fr] = [f EXCEPT !.vars = <<name>> \o f.vars]
      BY <1>3, <2>1, <2>4
    <3>2. Settled(fr)' = [frames'[fr] EXCEPT !.actuals = <<v>> \o frames'[fr].actuals]
      BY <2>1, <2>4 DEF Settled
    <3> HIDE DEF f
    <3>3. Settled(fr)' = g
      BY <1>4, <3>1, <3>2 DEF Frames
    <3>4. BoundIn(n, g) = BoundIn(n, f)
      <4>1. g.vars = <<name>> \o f.vars /\ g.rest = f.rest /\ g.actuals = <<v>> \o f.actuals
        BY <1>4 DEF Frames
      <4>2. f.actuals \in Seq(V)
        BY <1>4 DEF Frames
      <4> HIDE DEF g, name, v
      <4>3. /\ g.actuals \in Seq(V) /\ Len(g.actuals) = Len(f.actuals) + 1
            /\ \A j \in 1 .. Len(f.actuals) : g.actuals[j + 1] = f.actuals[j]
        <5>1. PICK s : s = f.actuals
          OBVIOUS
        <5>2. s \in Seq(V) /\ v \in V
          BY <1>2, <4>2, <5>1
        <5>3. /\ <<v>> \o s \in Seq(V) /\ Len(<<v>> \o s) = Len(s) + 1
              /\ \A j \in 1 .. Len(s) : (<<v>> \o s)[j + 1] = s[j]
          BY <5>2
        <5>4. QED
          BY <4>1, <5>1, <5>3
      <4>4. name \in Names /\ n # name
        BY <1>2, <2>4
      <4>5. Pushed(name, f, g, V)
        BY <4>1, <4>3 DEF Pushed
      <4>6. QED
        BY <1>4, <4>4, <4>5, DefineKeepsOthers
    <3>5. QED
      BY <2>2, <3>3, <3>4, BoundIs DEF Rebinds
  <2>5. CASE fr # e
    <3>1. frames'[fr] = f
      BY <1>3, <2>1, <2>5
    <3>2. Settled(fr)' = frames'[fr]
      BY <2>1, <2>5 DEF Settled
    <3>3. QED
      BY <2>2, <3>1, <3>2, BoundIs DEF Rebinds
  <2>6. QED
    BY <2>3, <2>4, <2>5
<1>6. CASE ~(p.at = 0 /\ Top.env # <<>>)
  <2>1. Assign(p, name, v) /\ ctl' = IF p.at = -2 THEN Return(Error) ELSE ctl
    BY <1>6 DEF leval_define
  <2>2. ctl'.mode # "define"
    BY <1>2, <2>1 DEF Return
  <2>3. QED
    BY <1>1, <2>1, <2>2, AssignRebinds
<1>7. QED
  BY <1>5, <1>6

LEMMA SetqRebinds ==
  ASSUME NEW V, NEW F, Typed(V, F), leval_setq, NEW fr \in DOMAIN frames, NEW n \in Names
  PROVE  Rebinds(n, fr)
<1> DEFINE p == envlookup(Top.x.name, Top.env)
<1>1. Returns({"set!"}) /\ Assign(p, Top.x.name, ctl.val) /\ ctl' = IF p.at = -2 THEN Return(Error) ELSE ctl
  BY DEF leval_setq
<1>2. ctl'.mode # "define"
  BY <1>1 DEF Returns, Return
<1>3. QED
  BY <1>1, <1>2, AssignRebinds

(* The second store of a define makes the frame what it was to be. *)
LEMMA DefineActualRebinds ==
  ASSUME NEW V, NEW F, Typed(V, F), DefineActual, NEW fr \in DOMAIN frames, NEW n \in Names
  PROVE  Rebinds(n, fr)
<1>1. /\ ctl.mode = "define" /\ ctl' = Return(ctl.val)
      /\ frames' = [frames EXCEPT ![ctl.frame].actuals = <<ctl.val>> \o @]
  BY DEF DefineActual
<1>2. Settled(fr)' = frames'[fr]
  BY <1>1 DEF Settled, Return
<1>3. Settled(fr)' = Settled(fr)
  <2>1. CASE fr = ctl.frame
    BY <1>1, <1>2, <2>1 DEF Settled
  <2>2. CASE fr # ctl.frame
    BY <1>1, <1>2, <2>2 DEF Settled
  <2>3. QED
    BY <2>1, <2>2
<1>4. QED
  BY <1>3, BoundIs DEF Rebinds

LEMMA InterruptRebinds ==
  ASSUME Interrupt, NEW fr \in DOMAIN frames, NEW n \in Names
  PROVE  Rebinds(n, fr)
<1>1. ctl' = Eval(main, <<>>) /\ frames' = frames
  BY DEF Interrupt, data
<1>2. CASE ctl.mode = "define"
  <2>1. "define" \in torn'
    BY <1>2 DEF Interrupt
  <2>2. QED
    BY <2>1 DEF Rebinds
<1>3. CASE ctl.mode # "define"
  <2>1. Settled(fr)' = Settled(fr)
    BY <1>1, <1>3 DEF Settled, Eval
  <2>2. QED
    BY <2>1, BoundIs DEF Rebinds
<1>4. QED
  BY <1>2, <1>3

LEMMA StepRebinds ==
  ASSUME EvaluatorInv, [Next]_vars, NEW fr \in DOMAIN frames, NEW n \in Names
  PROVE  Rebinds(n, fr)
<1>1. PICK V, F : Typed(V, F)
  BY DEF EvaluatorInv
<1>2. frames \in Seq(Frames(V))
  BY <1>1, InvFacts DEF HeapTyped
<1>3. CASE KeepsFrames
  <2>1. Settled(fr)' = Settled(fr)
    BY <1>2, <1>3, KeptFrames
  <2>2. QED
    BY <2>1, BoundIs DEF Rebinds
<1>4. CASE UNCHANGED vars
  <2>1. Settled(fr)' = Settled(fr)
    BY <1>4 DEF vars, Settled
  <2>2. QED
    BY <2>1, BoundIs DEF Rebinds
<1>5. CASE leval_setq \/ leval_define \/ DefineActual \/ Interrupt
  BY <1>1, <1>5, SetqRebinds, DefineRebinds, DefineActualRebinds, InterruptRebinds
<1>6. KeepsFrames \/ UNCHANGED vars \/ leval_setq \/ leval_define \/ DefineActual \/ Interrupt
  BY <1>1, ControlKeeps, CallsKeep DEF Next, Step
<1>7. QED
  BY <1>3, <1>4, <1>5, <1>6

(* The value a name has in a frame changes only by a set! or define of that *)
(* name: the shift of formals against actuals in siod_leval_define, the     *)
(* let forms rewritten in place and the frames made by calls leave every    *)
(* other binding as it was, unless an interrupt tore a define.              *)
THEOREM NamesKeepValues == Spec => OnlyAssignmentsRebind
<1>1. EvaluatorInv /\ [Next]_vars =>
        [\A fr \in DOMAIN frames, n \in Names :
           Bound(n, fr)' = Bound(n, fr) \/ Assigns(n) \/ "define" \in torn']_vars
  <2>1. SUFFICES ASSUME EvaluatorInv, [Next]_vars, NEW fr \in DOMAIN frames, NEW n \in Names
                 PROVE  Bound(n, fr)' = Bound(n, fr) \/ Assigns(n) \/ "define" \in torn'
    OBVIOUS
  <2>2. Rebinds(n, fr)
    BY <2>1, StepRebinds
  <2>3. QED
    BY <2>2 DEF Rebinds
<1>2. QED
  BY <1>1, EvaluatorStaysTyped, PTL DEF Spec, OnlyAssignmentsRebind
=============================================================================
