--------------------------------- MODULE Data ---------------------------------
(***************************************************************************)
(* Lisp data without identity, for procedures that only look at contents.   *)
(* A character is a one-letter string, "NUL" for the byte 0.                *)
(***************************************************************************)
EXTENDS Integers, Sequences, SequencesExt

Nil == [t |-> "nil"]
Num(n) == [t |-> "flonum", num |-> n]
Sym(pname) == [t |-> "symbol", pname |-> pname]
Str(chars) == [t |-> "string", chars |-> chars]
Pair(car, cdr) == [t |-> "cons", car |-> car, cdr |-> cdr]
LispArray(items) == [t |-> "lisp_array", items |-> items]
Error == [t |-> "error"]
T == Sym(<<"t">>)

ListEndingIn(s, end) == FoldRight(Pair, s, end)
List(s) == ListEndingIn(s, Nil)

(* What C sees of a string: up to the first NUL. *)
CString(s) ==
  LET end == SelectInSeq(s, LAMBDA c : c = "NUL") IN IF end = 0 THEN s ELSE SubSeq(s, 1, end - 1)

(* The cars of a list, and what its last cdr is. *)
RECURSIVE Elements(_)
Elements(l) == IF l.t = "cons" THEN <<l.car>> \o Elements(l.cdr) ELSE <<>>
RECURSIVE Ending(_)
Ending(l) == IF l.t = "cons" THEN Ending(l.cdr) ELSE l
=============================================================================
