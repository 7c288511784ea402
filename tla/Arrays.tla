-------------------------------- MODULE Arrays --------------------------------
(***************************************************************************)
(* Arrays of five kinds, and swrite, which fills a template from a hash     *)
(* table.  Numbers are whole; a byte stands for the char of the C code.     *)
(***************************************************************************)
EXTENDS Data

Kinds == {"double", "long", "string", "byte", "lisp"}

siod_cons_array(dim, kind) ==
  IF dim < 0 \/ kind \notin Kinds THEN Error
  ELSE [t |-> kind, data |-> [i \in 1 .. dim |-> CASE kind = "string" -> 32 [] kind = "lisp" -> Nil [] OTHER -> 0]]

(* A char is a byte again when it is read from a string, where it is        *)
(* unsigned, and from a byte array it comes with its sign.                  *)
Char(n) == n % 256
siod_aset1(a, i, v) ==
  IF i < 0 \/ (a.t # "lisp" /\ v.t # "flonum") \/ i >= Len(a.data) THEN Error
  ELSE [a EXCEPT !.data[i + 1] =
          CASE a.t = "lisp" -> v [] a.t \in {"string", "byte"} -> Char(v.num) [] OTHER -> v.num]
Signed(c) == IF c < 128 THEN c ELSE c - 256
siod_aref1(a, i) ==
  IF i < 0 \/ i >= Len(a.data) THEN Error
  ELSE CASE a.t = "lisp" -> a.data[i + 1]
         [] a.t = "byte" -> Num(Signed(a.data[i + 1]))
         [] OTHER -> Num(a.data[i + 1])

-----------------------------------------------------------------------------
(* swrite.  The table is a function from the names it has to what they      *)
(* stand for; st is [table, out].  A name that starts with a point is       *)
(* [t |-> "pointed", name |-> ...].                                         *)

siod_swrite2(name, table) ==
  LET key == IF name.t = "pointed" THEN name.name ELSE name
      value == IF key \in DOMAIN table THEN table[key] ELSE Nil
      next == IF value.t = "cons" /\ name = key THEN value.cdr ELSE Nil
  IN  [shown |-> IF value.t = "cons" THEN value.car ELSE IF value = Nil THEN name ELSE value,
       table |-> IF next.t = "cons" THEN [table EXCEPT ![key] = next] ELSE table]

RECURSIVE siod_swrite(_, _)
siod_swrite(st, data) ==
  CASE data.t \in {"symbol", "pointed"} ->
         LET r == siod_swrite2(data, st.table) IN [table |-> r.table, out |-> Append(st.out, r.shown)]
    [] data.t = "lisp_array" ->
         LET count == siod_swrite2(data.items[1], st.table)
             Body(s) == FoldLeft(siod_swrite, s, Tail(data.items))
         IN  FoldLeft(LAMBDA s, k : Body(s), [st EXCEPT !.table = count.table], [k \in 1 .. count.shown.num |-> k])
    [] data.t = "cons" -> st
    [] OTHER -> [st EXCEPT !.out = Append(@, data)]

-----------------------------------------------------------------------------
(* What is stored comes back from that place and from no other, as far as   *)
(* the kind can hold it.                                                    *)
ArraysAgree(dim, kind, i, j, v) ==
  LET a == siod_cons_array(dim, kind)
      b == siod_aset1(a, i, v)
  IN  /\ b = Error <=> siod_aref1(a, i) = Error \/ (kind # "lisp" /\ v.t # "flonum")
      /\ b # Error =>
           /\ siod_aref1(b, j) = siod_aref1(IF i = j THEN b ELSE a, j)
           /\ LET back == siod_aref1(b, i)
              IN  IF kind \in {"double", "long", "lisp"} THEN back = v
                  ELSE (back.num - v.num) % 256 = 0 /\ (kind = "byte" => back.num \in -128 .. 127)
                                                    /\ (kind = "string" => back.num \in 0 .. 255)

(* A name gives the elements of its list one after the other, the last one  *)
(* again and again, also in templates that are repeated.                    *)
RECURSIVE Unrolled(_)
Unrolled(data) ==
  IF data.t # "lisp_array" THEN <<data>>
  ELSE FlattenSeq([k \in 1 .. data.items[1].num |->
                     FlattenSeq([j \in 1 .. Len(data.items) - 1 |-> Unrolled(data.items[j + 1])])])
TemplateAgrees(data, name, value) ==
  LET uses == Unrolled(data)
      list == Elements(value)
      Used(k) == Cardinality({i \in 1 .. k - 1 : uses[i] = name})
      Nth(n) == list[IF n < Len(list) THEN n + 1 ELSE Len(list)]
  IN  siod_swrite([table |-> (name :> value), out |-> <<>>], data).out
        = [k \in DOMAIN uses |->
             IF uses[k] = name \/ (uses[k].t = "pointed" /\ uses[k].name = name) THEN Nth(Used(k)) ELSE uses[k]]
=============================================================================
