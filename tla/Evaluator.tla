------------------------------ MODULE Evaluator ------------------------------
(***************************************************************************)
(* siod_leval: forms, environments, closures, special forms, the macros     *)
(* that rewrite a let in place, and traced closures.  A SIGINT or an error  *)
(* of storage may come between any two steps and abandons the form, which   *)
(* the user then evaluates again.                                           *)
(*                                                                         *)
(* A form is a tree of records; a let form, which is rewritten in place, is *)
(* an index into lets.  kont holds the pending calls of siod_leval and of   *)
(* the special forms, innermost last; a loop back to "loop:" leaves it as   *)
(* it is.  An environment is a sequence of frames, by number, innermost     *)
(* first.                                                                   *)
(***************************************************************************)
EXTENDS Integers, Sequences, FiniteSets, SequencesExt

CONSTANTS
  Programs,       \* a function to forms with their lets and parts, [main, lets, texts]
  Names,          \* the names in them
  Literals,       \* the constants in them, and what these are made of
  Globals,        \* the initial value cells of the built-in names
  MaxInterrupts   \* bound: times the user starts over

NIL == [t |-> "nil"]
T == [t |-> "t"]
Unbound == [t |-> "unbound"]
Error == [t |-> "error"]
Num(n) == [t |-> "flonum", n |-> n]
List(s) == IF s = <<>> THEN NIL ELSE [t |-> "list", items |-> s]
Closure(i) == [t |-> "closure", id |-> i]
Subr(fn, type, arity) == [t |-> "subr", fn |-> fn, type |-> type, arity |-> arity]

Const(v) == [op |-> "const", val |-> v]
Var(n) == [op |-> "symbol", name |-> n]
Special(o, s) == [op |-> o, items |-> s]
Call(s) == Special("call", s)
Cond(s) == [op |-> "cond", clauses |-> s]
Lambda(formals, body) == [op |-> "lambda", formals |-> formals, items |-> body]
Set(n, x) == [op |-> "set!", name |-> n, items |-> <<x>>]
Define(n, x) == [op |-> "define", name |-> n, items |-> <<x>>]
Let(i) == [op |-> "let", id |-> i]

NoRest == ""

(* What the programs are made of: a set of texts has the parts of each.  No *)
(* procedure is a constant and no let is rewritten yet.                     *)
Formals == [vars : Seq(Names), rest : Names \union {NoRest}]
Binds(texts) == [name : Names, init : texts]
Lets(ops, texts) == [op : ops, second : Seq(Binds(texts)), rest : Seq(texts) \ {<<>>}]
Sequential == {"if", "begin", "or", "and", "while", "set!", "define"}

IsForm(x, texts, constants, n) ==
  \/ x.op = "const" /\ x.val \in constants
  \/ x.op \in {"symbol", "trace"} /\ x.name \in Names
  \/ x.op = "lambda" /\ x.formals \in Formals /\ x.items \in Seq(texts)
  \/ x.op \in Sequential /\ x.items \in Seq(texts) /\ (x.op \in {"set!", "define"} => x.name \in Names)
  \/ x.op \in {"prog1", "call"} /\ x.items \in Seq(texts) \ {<<>>}
  \/ x.op = "cond" /\ x.clauses \in Seq(Seq(texts) \ {<<>>})
  \/ x.op = "let" /\ x.id \in 1 .. n

(* The built-in procedures the programs use, as they are made with          *)
(* siod_init_subr_1 and the like; list3 stands for one of three arguments.  *)
Builtins ==
  {Subr(fn, "fixed", 1) : fn \in {"car", "cdr", "null?"}} \union
  {Subr(fn, "fixed", 2) : fn \in {"cons", "apply"}} \union
  {Subr("+", "2n", 2), Subr("list", "lsubr", 0), Subr("list3", "fixed", 3)}

ASSUME NamesAssumption == NoRest \notin Names
ASSUME GlobalsAssumption == \A n \in DOMAIN Globals : Globals[n] \in Builtins
ASSUME LiteralsAssumption ==
  \A v \in Literals :
    /\ v.t \in {"nil", "t", "flonum", "list"}
    /\ v.t = "list" => v.items \in Seq(Literals) \ {<<>>}
ASSUME ProgramsAssumption ==
  \A p \in DOMAIN Programs :
    LET texts == Programs[p].texts
        ls == Programs[p].lets
    IN  /\ Programs[p].main \in texts
        /\ ls \in Seq(Lets({"let", "let*", "letrec"}, texts))
        /\ \A x \in texts : IsForm(x, texts, Literals, Len(ls))

VARIABLES
  program,    \* which of Programs the user evaluates
  lets,       \* let forms: the symbol in front, the bindings, the rest
  vcell,      \* the value cells of symbols
  frames,     \* environment frames: formals, a rest formal, actuals
  closures,   \* closures: formals, body, environment, traced or not
  kont, ctl,  \* the calls of siod_leval: those below, and the one running
  interrupts,
  torn        \* history: where an interrupt left something half done

main == Programs[program].main
source == Programs[program].lets   \* as it was read

vars == <<program, lets, vcell, frames, closures, kont, ctl, interrupts, torn>>

-----------------------------------------------------------------------------
(* Environments. *)

(* siod_extend_env; a symbol in place of the formals gets the list of all.  *)
Frame(formals, actuals) ==
  IF formals.vars = <<>> /\ formals.rest # NoRest
  THEN [vars |-> <<formals.rest>>, rest |-> NoRest, actuals |-> <<List(actuals)>>]
  ELSE [vars |-> formals.vars, rest |-> formals.rest, actuals |-> actuals]

(* Variant: the formals are looked through before the actuals are missed. *)
InFrameLenient(n, f) ==
  LET i == SelectInSeq(f.vars, LAMBDA m : m = n)
  IN  IF i # 0 THEN i ELSE IF f.rest = n THEN -1 ELSE 0

(* Where a name is in a frame: the place of its value, 0 for nowhere, -1    *)
(* for the rest formal and -2 for "too few arguments", which any name gets  *)
(* that is not in front of the first formal without a value.                *)
InFrame(n, f) ==
  LET i == SelectInSeq(f.vars, LAMBDA m : m = n)
      last == IF i = 0 THEN Len(f.vars) ELSE i
  IN  IF last > Len(f.actuals) THEN -2
      ELSE IF i # 0 THEN i
      ELSE IF f.rest = n THEN -1 ELSE 0

envlookup(n, env) ==
  LET k == SelectInSeq(env, LAMBDA j : InFrame(n, frames[j]) # 0)
  IN  IF k = 0 THEN [frame |-> 0, at |-> 0]
      ELSE [frame |-> env[k], at |-> InFrame(n, frames[env[k]])]

Rest(f) == List(SubSeq(f.actuals, Len(f.vars) + 1, Len(f.actuals)))

(* The value of a symbol. *)
Value(n, env) ==
  LET p == envlookup(n, env)
  IN  CASE p.at > 0 -> frames[p.frame].actuals[p.at]
        [] p.at = 0 -> IF vcell[n] = Unbound THEN Error ELSE vcell[n]
        [] p.at = -1 -> Rest(frames[p.frame])
        [] p.at = -2 -> Error

(* Assignment to the place p of a name; the rest formal has none.           *)
Assign(p, n, v) ==
  /\ frames' = IF p.at > 0 THEN [frames EXCEPT ![p.frame].actuals[p.at] = v] ELSE frames
  /\ vcell' = IF p.at = 0 THEN [vcell EXCEPT ![n] = v] ELSE vcell

-----------------------------------------------------------------------------
(* Steps of the machine. *)

Eval(x, env) == [mode |-> "eval", x |-> x, env |-> env]
Return(v) == [mode |-> "return", val |-> v]

Evaluates(ops) == ctl.mode = "eval" /\ ctl.x.op \in ops
Top == kont[Len(kont)]
Below == SubSeq(kont, 1, Len(kont) - 1)
Returns(ks) == ctl.mode = "return" /\ ctl.val # Error /\ kont # <<>> /\ Top.k \in ks
Push(k) == kont' = Append(kont, k)

data == <<lets, vcell, frames, closures>>
session == <<program, interrupts, torn>>

Init ==
  /\ program \in DOMAIN Programs
  /\ lets = source
  /\ vcell = [n \in Names |-> IF n \in DOMAIN Globals THEN Globals[n] ELSE Unbound]
  /\ frames = <<>> /\ closures = <<>> /\ kont = <<>>
  /\ ctl = Eval(main, <<>>)
  /\ interrupts = 0 /\ torn = {}

leval_const ==
  /\ Evaluates({"const"})
  /\ ctl' = Return(ctl.x.val)
  /\ UNCHANGED <<data, kont, session>>

leval_symbol ==
  /\ Evaluates({"symbol"})
  /\ ctl' = Return(Value(ctl.x.name, ctl.env))
  /\ UNCHANGED <<data, kont, session>>

(* The body of a lambda, a define or a let of more than one form. *)
Body(s) == IF Len(s) = 1 THEN s[1] ELSE Special("begin", s)

leval_lambda ==
  /\ Evaluates({"lambda"})
  /\ closures' = Append(closures, [formals |-> ctl.x.formals, body |-> Body(ctl.x.items),
                                   env |-> ctl.env, traced |-> FALSE])
  /\ ctl' = Return(Closure(Len(closures) + 1))
  /\ UNCHANGED <<lets, vcell, frames, kont, session>>

(* A special form evaluates the first form of items and goes on with todo.  *)
(* The last form of begin, or, and takes the place of the whole.            *)
TailForms == {"begin", "or", "and"}

Special1(x, env) ==
  IF x.items = <<>> THEN /\ ctl' = Return(IF x.op = "and" THEN T ELSE NIL)
                         /\ UNCHANGED kont
  ELSE IF x.op \in TailForms /\ Len(x.items) = 1 THEN ctl' = Eval(x.items[1], env) /\ UNCHANGED kont
  ELSE /\ ctl' = Eval(x.items[1], env)
       /\ Push([k |-> x.op, x |-> x, todo |-> Tail(x.items), env |-> env])

leval_special ==
  /\ Evaluates(Sequential)
  /\ Special1(ctl.x, ctl.env)
  /\ UNCHANGED <<data, session>>

leval_prog1 ==
  /\ Evaluates({"prog1"})
  /\ ctl' = Eval(ctl.x.items[1], ctl.env)
  /\ Push([k |-> "prog1", todo |-> Tail(ctl.x.items), env |-> ctl.env, val |-> Unbound])
  /\ UNCHANGED <<data, session>>

(* The clauses of cond; the last one without a body is a tail form. *)
Cond1(clauses, env, below) ==
  IF clauses = <<>> THEN ctl' = Return(NIL) /\ kont' = below
  ELSE /\ ctl' = Eval(clauses[1][1], env)
       /\ kont' = IF Len(clauses) = 1 /\ Len(clauses[1]) = 1 THEN below
                  ELSE Append(below, [k |-> "cond", clauses |-> clauses, env |-> env])

leval_cond ==
  /\ Evaluates({"cond"})
  /\ Cond1(ctl.x.clauses, ctl.env, kont)
  /\ UNCHANGED <<data, session>>

CondReturns ==
  /\ Returns({"cond"})
  /\ LET clause == Top.clauses[1]
     IN  IF ctl.val = NIL THEN Cond1(Tail(Top.clauses), Top.env, Below)
         ELSE /\ kont' = Below
              /\ ctl' = IF Len(clause) = 1 THEN ctl ELSE Eval(Special("begin", Tail(clause)), Top.env)
  /\ UNCHANGED <<data, session>>

IfReturns ==
  /\ Returns({"if"})
  /\ LET i == IF ctl.val # NIL THEN 1 ELSE 2
     IN  ctl' = IF i > Len(Top.todo) THEN Return(NIL) ELSE Eval(Top.todo[i], Top.env)
  /\ kont' = Below
  /\ UNCHANGED <<data, session>>

(* begin drops the value; or and and stop at one that decides. *)
SequenceReturns ==
  /\ Returns(TailForms)
  /\ IF \/ Top.k = "or" /\ ctl.val # NIL
        \/ Top.k = "and" /\ ctl.val = NIL
     THEN ctl' = ctl /\ kont' = Below
     ELSE /\ ctl' = Eval(Top.todo[1], Top.env)
          /\ kont' = IF Len(Top.todo) = 1 THEN Below
                     ELSE Append(Below, [Top EXCEPT !.todo = Tail(@)])
  /\ UNCHANGED <<data, session>>

(* The test is the first of the items; all of todo done, it comes again.    *)
WhileReturns ==
  /\ Returns({"while"})
  /\ LET tested == Len(Top.todo) = Len(Top.x.items) - 1
     IN  IF tested /\ ctl.val = NIL THEN ctl' = Return(NIL) /\ kont' = Below
         ELSE LET todo == IF Top.todo = <<>> THEN Top.x.items ELSE Top.todo
              IN  ctl' = Eval(todo[1], Top.env) /\ kont' = Append(Below, [Top EXCEPT !.todo = Tail(todo)])
  /\ UNCHANGED <<data, session>>

(* Variant: the same form again. *)
Prog1ReturnsAgain ==
  /\ Returns({"prog1"})
  /\ LET val == IF Top.val = Unbound THEN ctl.val ELSE Top.val
     IN  IF Top.todo = <<>> THEN ctl' = Return(val) /\ kont' = Below
         ELSE ctl' = Eval(Top.todo[1], Top.env) /\ kont' = Append(Below, [Top EXCEPT !.val = val])
  /\ UNCHANGED <<data, session>>

Prog1Returns ==
  /\ Returns({"prog1"})
  /\ LET val == IF Top.val = Unbound THEN ctl.val ELSE Top.val
     IN  IF Top.todo = <<>> THEN ctl' = Return(val) /\ kont' = Below
         ELSE /\ ctl' = Eval(Top.todo[1], Top.env)
              /\ kont' = Append(Below, [Top EXCEPT !.todo = Tail(@), !.val = val])
  /\ UNCHANGED <<data, session>>

leval_setq ==
  /\ Returns({"set!"})
  /\ LET p == envlookup(Top.x.name, Top.env)
     IN  /\ Assign(p, Top.x.name, ctl.val)
         /\ ctl' = IF p.at = -2 THEN Return(Error) ELSE ctl
  /\ kont' = Below
  /\ UNCHANGED <<lets, closures, session>>

(* Variant: define looks at its own frame only. *)
DefineHere ==
  /\ Returns({"define"})
  /\ LET n == Top.x.name
         p == envlookup(n, IF Top.env = <<>> THEN <<>> ELSE <<Top.env[1]>>)
     IN  IF p.at = 0 /\ Top.env # <<>>
         THEN /\ frames' = [frames EXCEPT ![Top.env[1]].vars = <<n>> \o @]
              /\ ctl' = [mode |-> "define", name |-> n, val |-> ctl.val, frame |-> Top.env[1]]
              /\ UNCHANGED vcell
         ELSE Assign(p, n, ctl.val) /\ ctl' = IF p.at = -2 THEN Return(Error) ELSE ctl
  /\ kont' = Below
  /\ UNCHANGED <<lets, closures, session>>

(* siod_leval_define assigns a name that has a place, in whatever frame,    *)
(* and otherwise makes one in the innermost frame, first in the formals and *)
(* then, after another siod_cons, in the actuals.                           *)
leval_define ==
  /\ Returns({"define"})
  /\ LET n == Top.x.name
         p == envlookup(n, Top.env)
     IN  IF p.at = 0 /\ Top.env # <<>>
         THEN /\ frames' = [frames EXCEPT ![Top.env[1]].vars = <<n>> \o @]
              /\ ctl' = [mode |-> "define", name |-> n, val |-> ctl.val, frame |-> Top.env[1]]
              /\ UNCHANGED vcell
         ELSE Assign(p, n, ctl.val) /\ ctl' = IF p.at = -2 THEN Return(Error) ELSE ctl
  /\ kont' = Below
  /\ UNCHANGED <<lets, closures, session>>

(* Variant: the value goes after the others. *)
DefineActualLast ==
  /\ ctl.mode = "define"
  /\ frames' = [frames EXCEPT ![ctl.frame].actuals = Append(@, ctl.val)]
  /\ ctl' = Return(ctl.val)
  /\ UNCHANGED <<lets, vcell, closures, kont, session>>

DefineActual ==
  /\ ctl.mode = "define"
  /\ frames' = [frames EXCEPT ![ctl.frame].actuals = <<ctl.val>> \o @]
  /\ ctl' = Return(ctl.val)
  /\ UNCHANGED <<lets, vcell, closures, kont, session>>

-----------------------------------------------------------------------------
(* Calls. *)

(* The forms a function wants evaluated: as many as a subr of fixed arity   *)
(* has arguments, those that are missing NIL; all of them for the others.   *)
Arguments(f, forms) ==
  LET Padded(n) == forms \o [i \in 1 .. n |-> Const(NIL)]
  IN  CASE f.t = "subr" /\ f.type = "fixed" -> SubSeq(Padded(f.arity), 1, f.arity)
        [] f.t = "subr" /\ f.type = "2n" /\ Len(forms) < 2 -> SubSeq(Padded(2), 1, 2)
        [] OTHER -> forms

(* C leaves open in which order the second to fifth argument of a subr are  *)
(* evaluated.                                                               *)
Orders(f, n) ==
  LET inTurn == [i \in 1 .. n |-> i]
  IN  IF f.t = "subr" /\ f.type = "fixed" /\ n > 2
      THEN {inTurn, [i \in 1 .. n |-> IF i = 1 THEN 1 ELSE n + 2 - i]} ELSE {inTurn}

(* The built-in procedures the programs use. *)
Primitive(fn, v) ==
  CASE fn = "cons" -> IF v[2] = NIL THEN List(<<v[1]>>)
                      ELSE IF v[2].t = "list" THEN List(<<v[1]>> \o v[2].items) ELSE Error
    [] fn = "car" -> IF v[1] = NIL THEN NIL ELSE IF v[1].t = "list" THEN v[1].items[1] ELSE Error
    [] fn = "cdr" -> IF v[1] = NIL THEN NIL ELSE IF v[1].t = "list" THEN List(Tail(v[1].items)) ELSE Error
    [] fn = "null?" -> IF v[1] = NIL THEN T ELSE NIL
    [] fn = "+" -> IF v[2] = NIL THEN (IF v[1] = NIL THEN Num(0) ELSE v[1])
                   ELSE IF v[1].t = "flonum" /\ v[2].t = "flonum" THEN Num(v[1].n + v[2].n) ELSE Error
    [] fn \in {"list", "list3"} -> List(v)

IsFunction(f) == f.t \in {"subr", "closure", "let"}

(* Variant: no frame for a body without formals. *)
EnterBodyFrameless(body, formals, vals, env, below) ==
  /\ frames' = IF formals.vars = <<>> THEN frames ELSE Append(frames, Frame(formals, vals))
  /\ ctl' = Eval(body, <<Len(frames) + 1>> \o env)
  /\ kont' = below

(* What becomes of a function and its values; below are the calls that wait.*)
(* The body of a closure takes the place of the call, except under apply    *)
(* and for a traced closure, which wait for its value.                      *)
EnterBody(body, formals, vals, env, below) ==
  /\ frames' = Append(frames, Frame(formals, vals))
  /\ ctl' = Eval(body, <<Len(frames) + 1>> \o env)
  /\ kont' = below

Wait(s) == [k |-> s]

(* apply goes on with siod_lapply; its last argument is a list.            *)
Applying(v) ==
  IF v[2] = NIL THEN [mode |-> "apply", f |-> v[1], args |-> <<>>]
  ELSE IF v[2].t = "list" THEN [mode |-> "apply", f |-> v[1], args |-> v[2].items] ELSE Return(Error)

Finish(f, vals, below) ==
  CASE f.t = "let" -> EnterBody(f.body, [vars |-> f.vars, rest |-> NoRest], vals, f.env, below)
    [] f.t = "closure" ->
         EnterBody(closures[f.id].body, closures[f.id].formals, vals, closures[f.id].env,
                   IF closures[f.id].traced THEN Append(below, Wait("traced")) ELSE below)
    [] f.t = "subr" /\ f.fn = "apply" ->
         ctl' = Applying(vals) /\ kont' = below /\ UNCHANGED frames
    [] f.t = "subr" /\ f.type = "2n" -> ctl' = Return(Last(vals)) /\ kont' = below /\ UNCHANGED frames
    [] OTHER -> ctl' = Return(Primitive(f.fn, vals)) /\ kont' = below /\ UNCHANGED frames

(* A tc_subr_2n combines all of s, from the left. *)
Combined(fn, s) ==
  LET acc[i \in 1 .. Len(s)] ==
        IF i = 1 THEN s[1] ELSE IF acc[i - 1] = Error THEN Error ELSE Primitive(fn, <<acc[i - 1], s[i]>>)
  IN  acc[Len(s)]

(* The values a subr takes from a list of them, NIL for those missing.      *)
Taken(f, args) ==
  IF f.type = "lsubr" \/ (f.type = "2n" /\ Len(args) > 2) THEN args
  ELSE SubSeq(args \o [i \in 1 .. f.arity |-> NIL], 1, f.arity)

siod_lapply ==
  /\ ctl.mode = "apply"
  /\ LET f == ctl.f
         args == Taken(f, ctl.args)
         Returns1(r) == ctl' = r /\ UNCHANGED <<kont, frames>>
     IN  CASE f.t = "closure" /\ ~closures[f.id].traced ->
                EnterBody(closures[f.id].body, closures[f.id].formals, ctl.args, closures[f.id].env,
                          Append(kont, Wait("apply")))
           [] f.t = "subr" ->
                Returns1(CASE f.fn = "apply" -> Applying(args)
                           [] f.type = "2n" -> Return(Combined(f.fn, args))
                           [] OTHER -> Return(Primitive(f.fn, args)))
           [] OTHER -> Returns1(Return(Error))
  /\ UNCHANGED <<lets, vcell, closures, session>>

(* The arguments of f are evaluated in turn. *)
Apply(f, forms, env, below) ==
  LET args == Arguments(f, forms) IN
  IF ~IsFunction(f) THEN ctl' = Return(Error) /\ kont' = below /\ UNCHANGED frames
  ELSE IF args = <<>> THEN Finish(f, <<>>, below)
  ELSE \E todo \in Orders(f, Len(args)) :
         /\ ctl' = Eval(args[todo[1]], env)
         /\ kont' = Append(below, [k |-> "args", f |-> f, args |-> args, todo |-> todo, env |-> env,
                                   vals |-> [i \in DOMAIN args |-> NIL]])
         /\ UNCHANGED frames

leval_call ==
  /\ Evaluates({"call"})
  /\ LET head == ctl.x.items[1]
         forms == Tail(ctl.x.items)
     IN  CASE head.op = "symbol" -> Apply(Value(head.name, ctl.env), forms, ctl.env, kont)
           [] head.op = "const" -> Apply(head.val, forms, ctl.env, kont)
           [] OTHER -> /\ ctl' = Eval(head, ctl.env)
                       /\ Push([k |-> "head", forms |-> forms, env |-> ctl.env])
                       /\ UNCHANGED frames
  /\ UNCHANGED <<lets, vcell, closures, session>>

HeadReturns ==
  /\ Returns({"head"})
  /\ Apply(ctl.val, Top.forms, Top.env, Below)
  /\ UNCHANGED <<lets, vcell, closures, session>>

(* A tc_subr_2n combines its arguments two by two as they come. *)
Stored ==
  LET i == Top.todo[1]
      v == IF Top.f.t = "subr" /\ Top.f.type = "2n" /\ i > 1
           THEN Primitive(Top.f.fn, <<Top.vals[i - 1], ctl.val>>) ELSE ctl.val
  IN  [Top.vals EXCEPT ![i] = v]

(* Variant: the values of the arguments stay under the body. *)
ArgumentReturnsBelow ==
  /\ Returns({"args"})
  /\ IF Len(Top.todo) = 1 THEN Finish(Top.f, Stored, Append(Below, Wait("apply")))
     ELSE /\ ctl' = Eval(Top.args[Top.todo[2]], Top.env)
          /\ kont' = Append(Below, [Top EXCEPT !.vals = Stored, !.todo = Tail(@)])
          /\ UNCHANGED frames
  /\ UNCHANGED <<lets, vcell, closures, session>>

ArgumentReturns ==
  /\ Returns({"args"})
  /\ IF Stored[Top.todo[1]] = Error THEN ctl' = Return(Error) /\ kont' = Below /\ UNCHANGED frames
     ELSE IF Len(Top.todo) = 1 THEN Finish(Top.f, Stored, Below)
     ELSE /\ ctl' = Eval(Top.args[Top.todo[2]], Top.env)
          /\ kont' = Append(Below, [Top EXCEPT !.vals = Stored, !.todo = Tail(@)])
          /\ UNCHANGED frames
  /\ UNCHANGED <<lets, vcell, closures, session>>

BodyReturns ==
  /\ Returns({"apply", "traced"})
  /\ kont' = Below
  /\ UNCHANGED <<data, ctl, session>>

(* (trace f) rewrites the body to (begin 'f body), once, and the type.      *)
TraceBody(n, body) ==
  IF body.op = "begin" /\ Len(body.items) > 0 /\ body.items[1].op = "const" THEN body
  ELSE Special("begin", <<Const([t |-> "symbol", name |-> n]), body>>)

siod_ltrace_1 ==
  /\ Evaluates({"trace"})
  /\ LET f == Value(ctl.x.name, ctl.env)
     IN  IF f.t # "closure" THEN ctl' = Return(Error) /\ UNCHANGED closures
         ELSE /\ closures' = [closures EXCEPT ![f.id].traced = TRUE,
                                             ![f.id].body = TraceBody(ctl.x.name, @)]
              /\ ctl' = Return(NIL)
  /\ UNCHANGED <<lets, vcell, frames, kont, session>>

-----------------------------------------------------------------------------
(* let, let* and letrec name macros, which put what they make in place of   *)
(* the form: first the rest of it, then the symbol in front.                *)

Binding(n, x) == [name |-> n, init |-> x]
Unset(bindings) == [i \in DOMAIN bindings |-> Binding(bindings[i].name, Const(NIL))]
Inits(x) == IF x.op = "call" THEN x.items ELSE <<>>

leval_let ==
  /\ Evaluates({"let"})
  /\ LET l == lets[ctl.x.id]
         f == [t |-> "let", vars |-> [i \in DOMAIN l.second |-> l.second[i].name],
               body |-> l.rest[2], env |-> ctl.env]
     IN  l.op = "let-internal" /\ Apply(f, Inits(l.rest[1]), ctl.env, kont)
  /\ UNCHANGED <<lets, vcell, closures, session>>

(* What the first store of a macro makes of the form, and the symbol it is  *)
(* to have.  A name alone is a binding to NIL.                              *)
let_macro(l) ==
  LET inits == [i \in DOMAIN l.second |-> l.second[i].init]
  IN  [l EXCEPT !.second = Unset(@),
                !.rest = <<IF inits = <<>> THEN Const(NIL) ELSE Call(inits), Body(@)>>]

letrec_macro(l) ==
  [l EXCEPT !.second = Reverse(Unset(@)),
            !.rest = Reverse([i \in DOMAIN l.second |-> Set(l.second[i].name, l.second[i].init)]) \o @]

Rewriting(to) == [mode |-> "rewrite", x |-> ctl.x, env |-> ctl.env, to |-> to]

LetStores ==
  /\ Evaluates({"let"})
  /\ LET i == ctl.x.id
         l == lets[i]
     IN  \/ /\ l.op = "let"
            /\ lets' = [lets EXCEPT ![i] = let_macro(l)]
            /\ ctl' = Rewriting("let-internal")
         \/ /\ l.op = "letrec"
            /\ lets' = [lets EXCEPT ![i] = letrec_macro(l)]
            /\ ctl' = Rewriting("let")
         \/ /\ l.op = "let*"
            /\ lets' = IF Len(l.second) < 2 THEN lets
                       ELSE Append([lets EXCEPT ![i].second = <<Head(@)>>, ![i].rest = <<Let(Len(lets) + 1)>>],
                                   [l EXCEPT !.second = Tail(@)])
            /\ ctl' = Rewriting("let")
  /\ UNCHANGED <<vcell, frames, closures, kont, session>>

LetRenamed ==
  /\ ctl.mode = "rewrite"
  /\ lets' = [lets EXCEPT ![ctl.x.id].op = ctl.to]
  /\ ctl' = Eval(ctl.x, ctl.env)
  /\ UNCHANGED <<vcell, frames, closures, kont, session>>

-----------------------------------------------------------------------------
(* An error unwinds to the driver; so does an interrupt, after which the    *)
(* user evaluates the form again.                                           *)

Done == ctl.mode = "return" /\ kont = <<>>

err ==
  /\ ctl = Return(Error)
  /\ kont # <<>>
  /\ kont' = <<>>
  /\ UNCHANGED <<data, ctl, session>>

Interrupt ==
  /\ ~Done
  /\ interrupts < MaxInterrupts
  /\ interrupts' = interrupts + 1
  /\ torn' = torn \union (CASE ctl.mode = "define" -> {"define"}
                           [] ctl.mode = "rewrite" -> {lets[ctl.x.id].op}
                           [] OTHER -> {})
  /\ kont' = <<>>
  /\ ctl' = Eval(main, <<>>)
  /\ UNCHANGED <<program, data>>

Step ==
  \/ leval_const \/ leval_symbol \/ leval_lambda \/ leval_special \/ leval_prog1 \/ leval_cond
  \/ CondReturns \/ IfReturns \/ SequenceReturns \/ WhileReturns \/ Prog1Returns
  \/ leval_setq \/ leval_define \/ DefineActual
  \/ leval_call \/ HeadReturns \/ ArgumentReturns \/ siod_lapply \/ BodyReturns \/ siod_ltrace_1
  \/ leval_let \/ LetStores \/ LetRenamed
  \/ err

Next == Step \/ Interrupt

Spec == Init /\ [][Next]_vars
FairSpec == Spec /\ WF_vars(Step)

-----------------------------------------------------------------------------

(* Environments are made of frames that exist, values of closures that      *)
(* exist, and a let form in front of its macro has at least a body.         *)
TypeOK ==
  /\ \A i \in DOMAIN closures : Range(closures[i].env) \subseteq DOMAIN frames
  /\ "env" \in DOMAIN ctl => Range(ctl.env) \subseteq DOMAIN frames
  /\ \A i \in DOMAIN kont : "env" \in DOMAIN kont[i] => Range(kont[i].env) \subseteq DOMAIN frames
  /\ \A i \in DOMAIN lets : lets[i].op \in {"let", "let*", "letrec", "let-internal"} /\ lets[i].rest # <<>>
  /\ torn \subseteq {"define", "let", "let*", "letrec"}

(* A frame as it will be when a define that is half-way is done. *)
Settled(fr) ==
  IF ctl.mode = "define" /\ ctl.frame = fr
  THEN [frames[fr] EXCEPT !.actuals = <<ctl.val>> \o @] ELSE frames[fr]

Bound(n, fr) ==
  LET f == Settled(fr)
      i == InFrame(n, f)
  IN  IF i > 0 THEN f.actuals[i] ELSE IF i = -1 THEN Rest(f) ELSE Unbound

Assigns(n) == kont # <<>> /\ Top.k \in {"set!", "define"} /\ Top.x.name = n

(* The value of a name in an environment that exists changes only by set!   *)
(* and define of that name, although define shifts formals and actuals      *)
(* against each other (slib.c 1849-1861); except for a frame whose define   *)
(* was interrupted between the two stores.                                  *)
OnlyAssignmentsRebind ==
  [][\A fr \in DOMAIN frames, n \in Names :
       Bound(n, fr)' = Bound(n, fr) \/ Assigns(n) \/ "define" \in torn']_vars

(* Evaluation gets to a value or an error whenever the program is one that  *)
(* ends: siod_leval never stops short, whatever an interrupt left behind.   *)
EvaluationEnds == <>Done
=============================================================================
