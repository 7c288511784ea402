--------------------------------- MODULE Lists ---------------------------------
(***************************************************************************)
(* Lists: search, access, copies, sorting; equal and the hash of an object. *)
(* Procedures that change a list are given by the list they leave.          *)
(***************************************************************************)
EXTENDS Data, FiniteSets, Bitwise

Inums == 2    \* bound: the numbers below are shared (inums_dim)

(* The rest of the list from the first of the elements looked for; at the   *)
(* end of an improper list an error.                                        *)
RECURSIVE FirstOf(_, _)
FirstOf(l, hits) ==
  IF l.t # "cons" THEN (IF l = Nil THEN Nil ELSE Error)
  ELSE IF l.car \in hits THEN l ELSE FirstOf(l.cdr, hits)
Found(l) == IF l.t = "cons" THEN l.car ELSE l

(* The same object: other numbers, conses, strings are made anew each time. *)
EQ(x, y) == x = y /\ (x.t \in {"nil", "symbol"} \/ (x.t = "flonum" /\ x.num \in 0 .. Inums - 1))
siod_eql(x, y) == EQ(x, y) \/ (x.t = "flonum" /\ x = y)

RECURSIVE siod_equal(_, _)
siod_equal(a, b) ==
  \/ EQ(a, b)
  \/ /\ a.t = b.t
     /\ CASE a.t = "cons" -> siod_equal(a.car, b.car) /\ siod_equal(a.cdr, b.cdr)
          [] a.t = "flonum" -> a.num = b.num
          [] a.t = "string" -> a.chars = b.chars
          [] a.t = "lisp_array" ->
               Len(a.items) = Len(b.items) /\ \A i \in DOMAIN a.items : siod_equal(a.items[i], b.items[i])
          [] OTHER -> FALSE

siod_memq(x, l) == FirstOf(l, {y \in ToSet(Elements(l)) : EQ(x, y)})
siod_memv(x, l) == FirstOf(l, {y \in ToSet(Elements(l)) : siod_eql(x, y)})
siod_member(x, l) == FirstOf(l, {y \in ToSet(Elements(l)) : siod_equal(x, y)})
(* same: the objects that the procedure it is given takes for x. *)
siod_ass(same, alist) == Found(FirstOf(alist, {y \in ToSet(Elements(alist)) : y.t = "cons" /\ y.car \in same}))
Keys(alist) == {y.car : y \in {z \in ToSet(Elements(alist)) : z.t = "cons"}}
siod_assq(x, alist) == siod_ass({y \in Keys(alist) : EQ(x, y)}, alist)
siod_assv(x, alist) == siod_ass({y \in Keys(alist) : siod_eql(x, y)}, alist)

siod_nlength(l) == IF Ending(l) = Nil THEN Len(Elements(l)) ELSE -1
siod_nth(n, l) == IF n < Len(Elements(l)) THEN Elements(l)[n + 1] ELSE Error
RECURSIVE siod_last(_)
siod_last(l) == IF l.t # "cons" THEN Error ELSE IF l.cdr.t = "cons" THEN siod_last(l.cdr) ELSE l
RECURSIVE siod_butlast(_)
siod_butlast(l) ==
  IF l.t # "cons" THEN Error ELSE IF l.cdr = Nil THEN Nil
  ELSE LET rest == siod_butlast(l.cdr) IN IF rest = Error THEN Error ELSE Pair(l.car, rest)

(* The last cons of a is made to point to b. *)
siod_nconc(a, b) == IF a = Nil THEN b ELSE IF a.t # "cons" THEN Error ELSE ListEndingIn(Elements(a), b)
siod_append2(l1, l2) == IF siod_nlength(l1) < 0 \/ siod_nlength(l2) < 0 THEN Error ELSE siod_nconc(l1, l2)
RECURSIVE siod_append(_)
siod_append(ls) ==
  IF ls = <<>> THEN Nil
  ELSE IF Len(ls) = 1 THEN ls[1]
  ELSE LET rest == siod_append(Tail(ls)) IN IF rest = Error THEN Error ELSE siod_append2(ls[1], rest)

siod_reverse(l) == List(Reverse(Elements(l)))
siod_delq(x, l) == IF Ending(l) # Nil THEN Error ELSE List(SelectSeq(Elements(l), LAMBDA y : ~EQ(x, y)))
(* accepted: the elements the procedure it is given returns non-NIL for; f  *)
(* is the function that such a procedure is.                                *)
siod_lsubset(l, accepted) == List(SelectSeq(Elements(l), LAMBDA y : y \in accepted))
siod_mapcar1(f, l) == List([i \in DOMAIN Elements(l) |-> f[Elements(l)[i]]])
siod_mapcar2(f, l1, l2) ==
  LET z == Zip(Elements(l1), Elements(l2)) IN List([i \in DOMAIN z |-> f[z[i]]])

(* siod_lqsort: every list it may return, for every choice of marks;        *)
(* before is the relation of the elements it is given.                      *)
RECURSIVE siod_lqsort(_, _)
siod_lqsort(l, before) ==
  LET s == Elements(l)
      Others(j) == SubSeq(s, 1, j - 1) \o SubSeq(s, j + 1, Len(s))
      Part(j, less) == siod_lqsort(List(Reverse(SelectSeq(Others(j), LAMBDA x : less = (<<x, s[j]>> \in before)))), before)
  IN  IF s = <<>> THEN {Nil}
      ELSE UNION {{siod_nconc(less, Pair(s[j], notless)) : less \in Part(j, TRUE), notless \in Part(j, FALSE)} : j \in DOMAIN s}

(* A property list is kept in the cdr. *)
RECURSIVE siod_getprop(_, _)
siod_getprop(plist, key) ==
  LET l == plist.cdr
  IN  IF l = Nil THEN Nil
      ELSE IF EQ(l.car, key) THEN l.cdr.car
      ELSE siod_getprop(l.cdr, key)

-----------------------------------------------------------------------------
Ascii == ("a" :> 97) @@ ("b" :> 98)
HASH_COMBINE(h1, h2, mod) == ((h1 * 17 + 1) ^^ h2) % mod
HashOf(codes, n) == FoldLeft(LAMBDA h, c : HASH_COMBINE(h, c, n), 0, codes)

RECURSIVE siod_c_sxhash(_, _)
siod_c_sxhash(obj, n) ==
  LET Hashes(s) == [i \in DOMAIN s |-> siod_c_sxhash(s[i], n)]
      Codes(s) == [i \in DOMAIN s |-> Ascii[s[i]]]
  IN
  CASE obj.t = "nil" -> 0
    [] obj.t = "cons" ->
         FoldLeft(LAMBDA h, c : HASH_COMBINE(h, c, n), siod_c_sxhash(obj.car, n),
                  Hashes(Append(Tail(Elements(obj)), Ending(obj))))
    [] obj.t = "symbol" -> HashOf(Codes(obj.pname), n)
    [] obj.t = "flonum" -> obj.num % n
    [] obj.t = "string" -> HashOf(Codes(obj.chars), n)
    [] obj.t = "lisp_array" -> HashOf(Hashes(obj.items), n)

-----------------------------------------------------------------------------
(* Equal objects have equal hashes, within the table. *)
HashAgrees(a, b, n) ==
  /\ siod_c_sxhash(a, n) \in 0 .. n - 1
  /\ siod_equal(a, b) => siod_c_sxhash(a, n) = siod_c_sxhash(b, n)
  /\ siod_equal(a, b) <=> a = b

(* A sorted list has the elements it had, each as often, in order. *)
SortAgrees(l, before) ==
  \A r \in siod_lqsort(l, before) :
    /\ ToBag(Elements(r)) = ToBag(Elements(l))
    /\ \A i, j \in DOMAIN Elements(r) : i < j => <<Elements(r)[j], Elements(r)[i]>> \notin before

(* What the procedures make of a list fits together: last and butlast,      *)
(* append and reverse, nth and length, delq, memq and subset.               *)
ListsAgree(l, m) ==
  Ending(l) = Nil /\ Ending(m) = Nil =>
    LET both == siod_append(<<l, m, l>>) IN
    /\ l # Nil => siod_nconc(siod_butlast(l), siod_last(l)) = l
    /\ siod_reverse(siod_append(<<l, m>>)) = siod_append(<<siod_reverse(m), siod_reverse(l)>>)
    /\ siod_nlength(both) = 2 * siod_nlength(l) + siod_nlength(m)
    /\ \A i \in 0 .. siod_nlength(l) - 1 :
         siod_nth(i, both) = siod_nth(siod_nlength(l) + siod_nlength(m) + i, both)
    /\ \A x \in ToSet(Elements(l)) :
         /\ siod_memq(x, siod_delq(x, l)) = Nil
         /\ siod_delq(x, both) = siod_lsubset(both, {y \in ToSet(Elements(both)) : ~EQ(x, y)})
         /\ siod_memq(x, l) # Nil => siod_memv(x, l) = siod_memq(x, l)
         /\ siod_memv(x, l) # Nil => siod_nlength(siod_memv(x, l)) <= siod_nlength(siod_member(x, l))

(* A search reports an improper list only when it has found nothing; with   *)
(* it an association list gives what the key was paired with.               *)
SearchAgrees(x, l) ==
  /\ siod_member(x, l) = Error => Ending(l) # Nil /\ ~\E y \in ToSet(Elements(l)) : siod_equal(x, y)
  /\ LET alist == siod_mapcar1([y \in ToSet(Elements(l)) |-> Pair(y, x)], l)
     IN  /\ siod_assv(x, alist) # Nil <=> siod_memv(x, List(Elements(l))) # Nil
         /\ alist = LET s == ToSet(Elements(l))
                    IN  siod_mapcar2([z \in s \X {x} |-> Pair(z[1], z[2])], l, List([i \in 1 .. 4 |-> x]))
         /\ siod_assq(x, alist) # Nil => siod_assq(x, alist) = siod_assv(x, alist)
=============================================================================
