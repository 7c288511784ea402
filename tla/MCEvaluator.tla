----------------------------- MODULE MCEvaluator -----------------------------
EXTENDS Meaning

V(n) == Var(n)
N(n) == Const(Num(n))
Nil == Const(NIL)
Args(s) == [vars |-> s, rest |-> NoRest]
Dotted(s, r) == [vars |-> s, rest |-> r]
C(f, s) == Call(<<Var(f)>> \o s)
Begin(s) == Special("begin", s)
If(s) == Special("if", s)
Fun(n, formals, body) == Define(n, Lambda(formals, body))
LetForm(o, bindings, body) == [op |-> o, second |-> bindings, rest |-> body]

(* The parts of a form, and those of all the forms of a program. *)
RECURSIVE Parts(_)
Parts(x) ==
  {x} \union UNION {Parts(y) : y \in IF x.op = "cond" THEN UNION {Range(c) : c \in Range(x.clauses)}
                                    ELSE IF "items" \in DOMAIN x THEN Range(x.items) ELSE {}}
PartsOfLet(l) == UNION {Parts(y) : y \in {b.init : b \in Range(l.second)} \union Range(l.rest)}
Prog(x, ls) == [main |-> x, lets |-> ls, texts |-> Parts(x) \union UNION {PartsOfLet(l) : l \in Range(ls)}]
Trace(n) == [op |-> "trace", name |-> n]

TheGlobals == [n \in {"cons", "car", "cdr", "null?", "+", "list", "list3", "apply"} |->
  CASE n \in {"cons", "apply"} -> Subr(n, "fixed", 2)
    [] n \in {"car", "cdr", "null?"} -> Subr(n, "fixed", 1)
    [] n = "+" -> Subr(n, "2n", 2)
    [] n = "list" -> Subr(n, "lsubr", 0)
    [] n = "list3" -> Subr(n, "fixed", 3)]

TheNames == DOMAIN TheGlobals \union {"f", "g", "h", "a", "b", "c", "r"}

(* A closure keeps its scope; a let shadows. *)
Scopes == Prog(
  Begin(<<Fun("f", Args(<<"a">>), <<Lambda(Args(<<>>), <<V("a")>>)>>), Define("g", C("f", <<N(1)>>)), Let(1)>>),
  <<LetForm("let", <<Binding("a", N(2)), Binding("b", Nil)>>,
            <<Set("b", V("a")), C("list", <<C("g", <<>>), V("a"), V("b")>>)>>)>>)

(* define in a body, seen by a closure made before it. *)
InnerDefine == Prog(
  Begin(<<Fun("f", Args(<<"a", "b">>),
              <<Define("h", Lambda(Args(<<>>), <<C("list3", <<V("a"), V("b"), V("c")>>)>>)),
                Define("c", C("+", <<V("a"), V("b"), N(1)>>)), Set("a", N(5)), C("h", <<>>)>>),
          C("f", <<N(1), N(2)>>)>>), <<>>)

(* define of a name that is bound further out. *)
OuterDefine == Prog(
  Begin(<<Fun("f", Args(<<"a">>), <<Call(<<Lambda(Args(<<"b">>), <<Define("a", V("b"))>>), N(2)>>), V("a")>>),
          C("f", <<N(1)>>)>>), <<>>)

(* A loop of tail calls. *)
Loop == Prog(
  Begin(<<Fun("f", Args(<<"a", "b">>),
              <<If(<<C("null?", <<V("a")>>), V("b"), C("f", <<C("cdr", <<V("a")>>), C("+", <<V("b"), N(1)>>)>>)>>)>>),
          C("f", <<Const(List([i \in 1 .. 9 |-> Num(1)])), N(0)>>)>>), <<>>)

(* let* and letrec in a body that is evaluated twice. *)
Macros == Prog(
  Begin(<<Fun("f", Args(<<"c">>), <<Let(1)>>), C("list", <<C("f", <<N(1)>>), C("f", <<N(2)>>)>>)>>),
  <<LetForm("let*", <<Binding("a", V("c")), Binding("b", C("+", <<V("a"), N(1)>>))>>, <<Let(2)>>),
    LetForm("letrec", <<Binding("g", Lambda(Args(<<"r">>), <<Special("or", <<C("null?", <<V("r")>>), C("h", <<C("cdr", <<V("r")>>)>>)>>)>>)),
                        Binding("h", Lambda(Args(<<"r">>), <<Special("and", <<V("r"), C("g", <<C("cdr", <<V("r")>>)>>)>>)>>))>>,
            <<C("list", <<C("g", <<C("list", <<V("a"), V("b")>>)>>), V("b")>>)>>)>>)

(* Dotted formals, formals that are a symbol, too few and too many arguments. *)
Variadic == Prog(
  Begin(<<Fun("f", Dotted(<<"a">>, "r"), <<Set("r", Nil), C("cons", <<V("a"), V("r")>>)>>),
          Fun("g", Dotted(<<>>, "r"), <<Set("r", C("cdr", <<V("r")>>)), V("r")>>),
          Fun("h", Args(<<"a", "b">>), <<V("a")>>),
          C("list", <<C("f", <<N(1), N(2)>>), C("g", <<N(1), N(2)>>), C("h", <<N(1)>>), C("h", <<N(3), N(2), N(1)>>),
                      C("car", <<>>), C("apply", <<V("f"), Const(List(<<Num(7), Num(8)>>))>>),
                      C("apply", <<V("+"), Const(List(<<Num(1), Num(2), Num(3)>>))>>),
                      C("apply", <<V("apply"), C("list", <<V("+"), Const(List(<<Num(2), Num(3)>>))>>)>>)>>)>>), <<>>)

(* A free name in a body that lacks an argument. *)
TooFew == Prog(
  Begin(<<Fun("f", Args(<<"a", "b">>), <<C("list", <<V("a")>>)>>), C("list", <<C("f", <<N(1)>>)>>)>>), <<>>)

(* cond, while, prog1 and a traced procedure. *)
Control == Prog(
  Begin(<<Fun("f", Args(<<"c">>), <<C("+", <<V("c"), N(1)>>)>>), Trace("f"), Trace("f"),
          Define("a", Const(List(<<Num(1), Num(2)>>))), Define("b", N(0)),
          Special("while", <<V("a"), Set("b", C("+", <<V("b"), C("car", <<V("a")>>)>>)), Set("a", C("cdr", <<V("a")>>))>>),
          Special("prog1", <<Cond(<<<<V("a"), N(9)>>, <<V("b"), Set("a", N(4)), C("f", <<V("b")>>)>>, <<N(8)>>>>),
                             Set("b", Nil)>>)>>), <<>>)

(* cond whose last clause is a test only, or fails; if without else; and,   *)
(* or; + of fewer than two.                                                 *)
Branches == Prog(
  C("list", <<Cond(<<<<Nil, N(1)>>, <<N(2)>>>>), Cond(<<<<Nil>>, <<Nil, N(1)>>>>),
              Cond(<<>>), If(<<Nil, N(1)>>), Special("and", <<>>), Special("or", <<>>),
              Special("and", <<N(1), Nil, C("car", <<N(1)>>)>>), Special("or", <<Nil, N(3), C("car", <<N(1)>>)>>),
              Special("begin", <<>>), C("+", <<>>), C("+", <<N(4)>>)>>), <<>>)

ThePrograms == <<Scopes, InnerDefine, OuterDefine, Loop, Macros, Variadic, TooFew, Control, Branches>>

(* The constants in the programs, and the elements of those that are lists. *)
Constants == {x.val : x \in {y \in UNION {Programs[p].texts : p \in DOMAIN Programs} : y.op = "const"}}
TheLiterals == Constants \union UNION {Range(v.items) : v \in {w \in Constants : w.t = "list"}}
=============================================================================
