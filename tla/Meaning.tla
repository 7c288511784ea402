-------------------------------- MODULE Meaning --------------------------------
(***************************************************************************)
(* What a form means, by recursion on the form: lexical scope with scopes   *)
(* that are maps from names to values.  The reference for Evaluator, which  *)
(* has stacks, lists of formals and actuals, and forms that rewrite         *)
(* themselves.                                                              *)
(*                                                                         *)
(* A state has the global values, the scopes made and the closures made.    *)
(* Three things are SIOD's own: define of a name that is bound further out  *)
(* assigns it; a rest formal cannot be assigned; and in a scope that lacks  *)
(* arguments only the names that got one are of use.                        *)
(***************************************************************************)
EXTENDS Evaluator, FiniteSetsExt, TLC

Result(v, st) == [val |-> v, st |-> st]
Then(r, F(_, _)) == IF r.val = Error THEN r ELSE F(r.val, r.st)

Scope(formals, vals) ==
  LET named == {i \in DOMAIN formals.vars : i <= Len(vals)}
      more == List(SubSeq(vals, Len(formals.vars) + 1, Len(vals)))
      Args == [n \in {formals.vars[i] : i \in named} |->
                 vals[CHOOSE i \in named : formals.vars[i] = n]]
  IN  [map |-> Args @@ IF formals.rest = NoRest THEN <<>> ELSE formals.rest :> more,
       fixed |-> IF formals.rest # NoRest /\ formals.vars # <<>> THEN {formals.rest} ELSE {},
       short |-> Len(vals) < Len(formals.vars)]

(* The innermost scope that decides a name, or 0 for the global one. *)
ScopeOf(n, env, st) ==
  LET i == SelectInSeq(env, LAMBDA s : n \in DOMAIN st.scopes[s].map \/ st.scopes[s].short)
  IN  IF i = 0 THEN 0 ELSE env[i]

Lookup(n, env, st) ==
  LET s == ScopeOf(n, env, st)
  IN  IF s = 0 THEN (IF st.globals[n] = Unbound THEN Error ELSE st.globals[n])
      ELSE IF n \in DOMAIN st.scopes[s].map THEN st.scopes[s].map[n] ELSE Error

Bind(n, v, s, st) ==
  IF s = 0 THEN [st EXCEPT !.globals[n] = v] ELSE [st EXCEPT !.scopes[s].map = n :> v @@ @]

Update(n, v, env, st) ==
  LET s == ScopeOf(n, env, st)
  IN  IF s # 0 /\ n \notin DOMAIN st.scopes[s].map THEN Result(Error, st)
      ELSE IF s # 0 /\ n \in st.scopes[s].fixed THEN Result(v, st)
      ELSE Result(v, Bind(n, v, s, st))

RECURSIVE Means(_, _, _), MeansAll(_, _, _), MeansApply(_, _, _), MeansLetStar(_, _, _, _)

(* The values of forms, in order. *)
All(s) == [t |-> "all", items |-> s]

MeansAll(forms, env, st) ==
  IF forms = <<>> THEN Result(All(<<>>), st)
  ELSE Then(Means(forms[1], env, st), LAMBDA v, s :
       Then(MeansAll(Tail(forms), env, s), LAMBDA vs, s2 : Result(All(<<v>> \o vs.items), s2)))

InScope(body, formals, vals, env, st) ==
  Means(Special("begin", body), <<Len(st.scopes) + 1>> \o env,
        [st EXCEPT !.scopes = Append(@, Scope(formals, vals))])

MeansApply(f, vals, st) ==
  CASE f.t = "closure" -> LET c == st.closures[f.id] IN InScope(c.body, c.formals, vals, c.env, st)
    [] f.t = "subr" /\ f.fn = "apply" ->
         MeansApply(vals[1], IF vals[2] = NIL THEN <<>> ELSE vals[2].items, st)
    [] f.t = "subr" /\ f.type = "2n" ->
         LET both == IF Len(vals) < 2 THEN SubSeq(vals \o <<NIL, NIL>>, 1, 2) ELSE vals
         IN  Result(FoldLeft(LAMBDA a, b : IF a = Error THEN a ELSE Primitive(f.fn, <<a, b>>), both[1], Tail(both)), st)
    [] f.t = "subr" /\ f.type = "lsubr" -> Result(Primitive(f.fn, vals), st)
    [] f.t = "subr" /\ f.type = "fixed" ->
         Result(Primitive(f.fn, SubSeq(vals \o [i \in 1 .. f.arity |-> NIL], 1, f.arity)), st)
    [] OTHER -> Result(Error, st)

MeansLetStar(bindings, body, env, st) ==
  IF Len(bindings) = 0 THEN InScope(body, [vars |-> <<>>, rest |-> NoRest], <<>>, env, st)
  ELSE Then(Means(bindings[1].init, env, st), LAMBDA v, s :
       LET s2 == [s EXCEPT !.scopes = Append(@, Scope([vars |-> <<bindings[1].name>>, rest |-> NoRest], <<v>>))]
           e2 == <<Len(s.scopes) + 1>> \o env
       IN  IF Len(bindings) = 1 THEN Means(Special("begin", body), e2, s2)
           ELSE MeansLetStar(Tail(bindings), body, e2, s2))

MeansLet(l, env, st) ==
  LET names == [i \in DOMAIN l.second |-> l.second[i].name]
      inits == [i \in DOMAIN l.second |-> l.second[i].init]
      formals == [vars |-> names, rest |-> NoRest]
      sets == [i \in DOMAIN names |-> Set(names[i], inits[i])]
  IN  CASE l.op = "let" -> Then(MeansAll(inits, env, st), LAMBDA vs, s : InScope(l.rest, formals, vs.items, env, s))
        [] l.op = "let*" -> MeansLetStar(l.second, l.rest, env, st)
        [] l.op = "letrec" -> InScope(sets \o l.rest, formals, [i \in DOMAIN names |-> NIL], env, st)

Means(x, env, st) ==
  CASE x.op = "const" -> Result(x.val, st)
    [] x.op = "symbol" -> Result(Lookup(x.name, env, st), st)
    [] x.op = "lambda" ->
         Result(Closure(Len(st.closures) + 1),
                [st EXCEPT !.closures = Append(@, [formals |-> x.formals, body |-> x.items, env |-> env])])
    [] x.op = "call" ->
         Then(Means(x.items[1], env, st), LAMBDA f, s :
         IF ~IsFunction(f) THEN Result(Error, s)
         ELSE Then(MeansAll(Arguments(f, Tail(x.items)), env, s), LAMBDA vs, s2 : MeansApply(f, vs.items, s2)))
    [] x.op = "if" ->
         Then(Means(x.items[1], env, st), LAMBDA v, s :
         IF v # NIL THEN Means(x.items[2], env, s)
         ELSE IF Len(x.items) < 3 THEN Result(NIL, s) ELSE Means(x.items[3], env, s))
    [] x.op = "begin" ->
         IF x.items = <<>> THEN Result(NIL, st)
         ELSE Then(MeansAll(x.items, env, st), LAMBDA vs, s : Result(Last(vs.items), s))
    [] x.op = "prog1" -> Then(MeansAll(x.items, env, st), LAMBDA vs, s : Result(Head(vs.items), s))
    [] x.op \in {"and", "or"} ->
         IF x.items = <<>> THEN Result(IF x.op = "and" THEN T ELSE NIL, st)
         ELSE Then(Means(x.items[1], env, st), LAMBDA v, s :
              IF Len(x.items) = 1 \/ (v = NIL) = (x.op = "and") THEN Result(v, s)
              ELSE Means(Special(x.op, Tail(x.items)), env, s))
    [] x.op = "cond" ->
         IF x.clauses = <<>> THEN Result(NIL, st)
         ELSE Then(Means(x.clauses[1][1], env, st), LAMBDA v, s :
              IF v = NIL THEN Means(Cond(Tail(x.clauses)), env, s)
              ELSE IF Len(x.clauses[1]) = 1 THEN Result(v, s)
              ELSE Means(Special("begin", Tail(x.clauses[1])), env, s))
    [] x.op = "while" ->
         Then(Means(x.items[1], env, st), LAMBDA v, s :
         IF v = NIL THEN Result(NIL, s)
         ELSE Then(MeansAll(Tail(x.items), env, s), LAMBDA vs, s2 : Means(x, env, s2)))
    [] x.op = "set!" -> Then(Means(x.items[1], env, st), LAMBDA v, s : Update(x.name, v, env, s))
    [] x.op = "define" ->
         Then(Means(x.items[1], env, st), LAMBDA v, s :
         IF ScopeOf(x.name, env, s) = 0 /\ env # <<>> THEN Result(v, Bind(x.name, v, env[1], s))
         ELSE Update(x.name, v, env, s))
    [] x.op = "trace" -> LET f == Lookup(x.name, env, st) IN Result(IF f.t = "closure" THEN NIL ELSE Error, st)
    [] x.op = "let" -> MeansLet(source[x.id], env, st)

Meaning ==
  Means(main, <<>>, [globals |-> [n \in Names |-> IF n \in DOMAIN Globals THEN Globals[n] ELSE Unbound],
                     scopes |-> <<>>, closures |-> <<>>]).val
(* Whatever happened before, a form that is evaluated to its end has the    *)
(* value it means: the rewritten lets, the loops in place of tail calls and *)
(* a trace do not change it, nor does the order of evaluation of arguments  *)
(* without effects; an interrupt may come anywhere in an earlier evaluation,*)
(* except between the two stores of let_macro or of define (slib.c          *)
(* 1605-1986, trace.c 107-127).                                             *)
ResultsAgree == Done /\ torn \intersect {"let", "define"} = {} => ctl.val = Meaning

RECURSIVE Nesting(_)
Nesting(x) ==
  LET Deepest(s) == 1 + Max({0} \union {Nesting(s[i]) : i \in DOMAIN s})
  IN  CASE x.op \in {"const", "symbol", "trace"} -> 1
        [] x.op = "cond" -> Deepest(FlattenSeq(x.clauses))
        [] x.op = "let" -> 1 + Deepest([i \in DOMAIN source[x.id].second |-> source[x.id].second[i].init]
                                       \o source[x.id].rest)
        [] OTHER -> Deepest(x.items)

(* A call in tail position loops (slib.c 1690, 1697-1702): no matter how    *)
(* often a procedure calls itself there, the calls that wait are never      *)
(* more than the forms that stand around one another in the text.           *)
TailCallsDontNest == Len(kont) <= Nesting(main)
=============================================================================
