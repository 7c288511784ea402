-------------------------------- MODULE FastIO --------------------------------
(***************************************************************************)
(* Binary files: fast-save, which may append to a file and may be cut off   *)
(* by an error, and fast-load.                                              *)
(*                                                                         *)
(* The disk is a sequence of bytes [of, is, byte]: byte number "byte" of    *)
(* the code, character, long or double "is".  The writer and the reader are *)
(* the streams of siod_fast_save and siod_fast_load: a file, a hash table   *)
(* of symbols (unless "hashing" is FALSE, for nohash) and the next number.    *)
(***************************************************************************)
EXTENDS Data, FiniteSets, FiniteSetsExt, TLC

CONSTANTS
  Forms,     \* what is saved
  Width,     \* sizeof(long) and sizeof(double)
  MaxForms,  \* bound: forms saved in one file
  MaxSaves   \* bound: how often the file is opened for writing

VARIABLES
  disk,
  saved,     \* the forms in the file, as far as it is in order
  cutOff,    \* a fast-save ended in the middle of a form
  saves,
  writer,    \* [hashing, ht, next], or None
  reader     \* [pos, ht, loaded, done], or None

fastVars == <<disk, saved, cutOff, saves, writer, reader>>

None == [none |-> TRUE]
Junk == [t |-> "junk"]      \* read from bytes that are something else
Stream == [t |-> "stream"]  \* siod_fast_read returns its argument at the end of the file

Code(c) == <<[of |-> "code", is |-> c, byte |-> 1]>>
Chars(s) == [i \in DOMAIN s |-> [of |-> "char", is |-> s[i], byte |-> 1]]
Long(n) == [i \in 1 .. Width |-> [of |-> "long", is |-> n, byte |-> i]]
Double(n) == [i \in 1 .. Width |-> [of |-> "double", is |-> n, byte |-> i]]
Longs(s) == FlattenSeq([i \in DOMAIN s |-> Long(s[i])])
Doubles(s) == FlattenSeq([i \in DOMAIN s |-> Double(s[i])])

-----------------------------------------------------------------------------
(* Writing.  w is [out, hashing, ht, next]. *)

Put(w, bytes) == [w EXCEPT !.out = @ \o bytes]

(* Variant: the next number stays. *)
FastPrintTableOnce(obj, w) ==
  IF ~w.hashing THEN w
  ELSE [Put(w, Code("store") \o Long(w.next)) EXCEPT !.ht = (obj :> w.next) @@ @]

(* A symbol that is in the table is fetched, another one is stored in it.   *)
IsFetched(obj, w) == w.hashing /\ obj \in DOMAIN w.ht

siod_fast_print_table(obj, w) ==
  IF ~w.hashing THEN w
  ELSE [Put(w, Code("store") \o Long(w.next)) EXCEPT !.ht = (obj :> w.next) @@ @, !.next = @ + 1]

RECURSIVE siod_fast_print(_, _)
siod_fast_print(obj, w) ==
  LET All(s, u) == FoldLeft(LAMBDA v, x : siod_fast_print(x, v), u, s)
      Chunk(bytes) == Put(w, Code(obj.t) \o Long(Len(bytes)) \o bytes)
  IN
  CASE obj.t = "nil" -> Put(w, Code("nil"))
    [] obj.t = "flonum" -> Put(w, Code("flonum") \o Double(obj.num))
    [] obj.t = "cons" ->
         LET s == Elements(obj)
             end == Ending(obj)
         IN  IF Len(s) = 1 THEN All(<<obj.car, obj.cdr>>, Put(w, Code("cons")))
             ELSE IF end = Nil THEN All(s, Put(w, Code("list") \o Long(Len(s))))
             ELSE All(Append(s, end), Put(w, Code("listd") \o Long(Len(s))))
    [] obj.t = "symbol" ->
         IF IsFetched(obj, w) THEN Put(w, Code("fetch") \o Long(w.ht[obj]))
         ELSE Put(siod_fast_print_table(obj, w), Code("symbol") \o Long(Len(obj.pname)) \o Chars(obj.pname))
    [] obj.t \in {"string", "byte_array"} -> Chunk(Chars(obj.chars))
    [] obj.t = "long_array" -> Chunk(Longs(obj.nums))
    [] obj.t = "double_array" -> Chunk(Doubles(obj.nums))
    [] obj.t = "lisp_array" -> All(obj.items, Put(w, Code("lisp_array") \o Long(Len(obj.items))))

(* Four lines of comment, each "#" to the end of the line. *)
Header == FlattenSeq([i \in 1 .. 4 |-> Code("comment") \o Chars(<<"x", "newline">>)])

-----------------------------------------------------------------------------
(* Reading.  r is [pos, ht]; every result is [val, pos, ht]. *)

At(pos) == IF pos \in DOMAIN disk THEN disk[pos] ELSE [of |-> "EOF"]
Whole(of, pos) ==
  \A i \in 0 .. Width - 1 :
    At(pos + i).of = of /\ At(pos + i).byte = i + 1 /\ At(pos + i).is = At(pos).is
Result(val, pos, ht) == [val |-> val, pos |-> pos, ht |-> ht]
Min2(a, b) == IF a <= b THEN a ELSE b
AfterBytes(pos, n) == Min2(pos + n, Len(disk) + 1)

(* fread of n elements: those that are left, the others are junk. *)
CharsAt(pos, n) == [i \in 1 .. n |-> IF At(pos + i - 1).of = "char" THEN At(pos + i - 1).is ELSE "junk"]
NumbersAt(of, pos, n) ==
  [i \in 1 .. n |-> IF Whole(of, pos + (i - 1) * Width) THEN At(pos + (i - 1) * Width).is ELSE -1]

RECURSIVE siod_fast_read(_, _), ReadAll(_, _, _)
siod_fast_read(pos, ht) ==
  LET code == At(pos).is
      long == At(pos + 1).is
      next == pos + 1 + Width
      Array(n, val) == Result(val, AfterBytes(next, n), ht)
  IN
  IF At(pos).of = "EOF" THEN Result(Stream, pos, ht)
  ELSE IF At(pos).of # "code" THEN Result(Junk, Len(disk) + 1, ht)
  ELSE IF code = "comment" THEN
    LET ends == {i \in pos + 1 .. Len(disk) : At(i).of = "char" /\ At(i).is = "newline"}
    IN  IF ends = {} THEN Result(Stream, Len(disk) + 1, ht) ELSE siod_fast_read(Min(ends) + 1, ht)
  ELSE IF code = "nil" THEN Result(Nil, pos + 1, ht)
  ELSE IF code = "cons" THEN
    LET r == ReadAll(2, pos + 1, ht) IN Result(Pair(r.val[1], r.val[2]), r.pos, r.ht)
  ELSE IF code = "flonum" THEN
    Result(IF Whole("double", pos + 1) THEN Num(long) ELSE Junk, AfterBytes(pos + 1, Width), ht)
  ELSE IF ~Whole("long", pos + 1) THEN Result(Junk, Len(disk) + 1, ht)
  ELSE
  CASE code = "fetch" -> Result(IF long \in DOMAIN ht THEN ht[long] ELSE Nil, next, ht)
    [] code = "store" ->
         LET r == siod_fast_read(next, ht) IN Result(r.val, r.pos, (long :> r.val) @@ r.ht)
    [] code = "list" ->
         LET r == ReadAll(long, next, ht) IN Result(List(r.val), r.pos, r.ht)
    [] code = "listd" ->
         LET r == ReadAll(long + 1, next, ht)
         IN  Result(ListEndingIn(Front(r.val), Last(r.val)), r.pos, r.ht)
    [] code = "symbol" -> Array(long, Sym(CharsAt(next, long)))
    [] code \in {"string", "byte_array"} -> Array(long, [t |-> code, chars |-> CharsAt(next, long)])
    [] code = "long_array" -> Array(long * Width, [t |-> code, nums |-> NumbersAt("long", next, long)])
    [] code = "double_array" -> Array(long * Width, [t |-> code, nums |-> NumbersAt("double", next, long)])
    [] code = "lisp_array" ->
         LET r == ReadAll(long, next, ht) IN Result(LispArray(r.val), r.pos, r.ht)

ReadAll(n, pos, ht) ==
  IF n = 0 THEN Result(<<>>, pos, ht)
  ELSE LET r == siod_fast_read(pos, ht)
           rest == ReadAll(n - 1, r.pos, r.ht)
       IN  Result(<<r.val>> \o rest.val, rest.pos, rest.ht)

-----------------------------------------------------------------------------
FastIOInit == disk = <<>> /\ saved = <<>> /\ cutOff = FALSE /\ saves = 0 /\ writer = None /\ reader = None

(* siod_fast_save opens the file with a table of its own, which is empty    *)
(* also when it appends (bound: never to a file that was cut off).          *)
FastSave(append, nohash) ==
  /\ writer = None /\ reader = None /\ saves < MaxSaves
  /\ append => ~cutOff
  /\ disk' = (IF append THEN disk ELSE <<>>) \o Header
  /\ saved' = IF append THEN saved ELSE <<>>
  /\ cutOff' = FALSE
  /\ saves' = saves + 1
  /\ writer' = [hashing |-> ~nohash, ht |-> <<>>, next |-> 0]
  /\ UNCHANGED reader

Printed(form) == siod_fast_print(form, [out |-> <<>>] @@ writer)

SaveForm(form) ==
  /\ writer # None /\ Len(saved) < MaxForms
  /\ LET w == Printed(form) IN
     /\ disk' = disk \o w.out
     /\ writer' = [hashing |-> w.hashing, ht |-> w.ht, next |-> w.next]
  /\ saved' = Append(saved, form)
  /\ UNCHANGED <<cutOff, saves, reader>>

(* An interrupt, or a part that cannot be printed. *)
SaveFails(form) ==
  /\ writer # None
  /\ \E n \in 1 .. Len(Printed(form).out) - 1 : disk' = disk \o SubSeq(Printed(form).out, 1, n)
  /\ writer' = None
  /\ cutOff' = TRUE
  /\ UNCHANGED <<saved, saves, reader>>

SaveCloses ==
  /\ writer # None
  /\ writer' = None
  /\ UNCHANGED <<disk, saved, cutOff, saves, reader>>

FastLoad ==
  /\ writer = None /\ reader = None /\ disk # <<>>
  /\ reader' = [pos |-> 1, ht |-> <<>>, loaded |-> <<>>, done |-> FALSE]
  /\ UNCHANGED <<disk, saved, cutOff, saves, writer>>

LoadForm ==
  /\ reader # None /\ ~reader.done
  /\ LET r == siod_fast_read(reader.pos, reader.ht) IN
     reader' = IF r.val = Stream THEN [reader EXCEPT !.done = TRUE]
               ELSE [pos |-> r.pos, ht |-> r.ht, loaded |-> Append(reader.loaded, r.val), done |-> FALSE]
  /\ UNCHANGED <<disk, saved, cutOff, saves, writer>>

LoadCloses ==
  /\ reader # None /\ reader.done
  /\ reader' = None
  /\ UNCHANGED <<disk, saved, cutOff, saves, writer>>

FastIONext ==
  \/ \E append, nohash \in BOOLEAN : FastSave(append, nohash)
  \/ \E form \in Forms : SaveForm(form) \/ SaveFails(form)
  \/ SaveCloses \/ FastLoad \/ LoadForm \/ LoadCloses

(* What fast-load finds in a file is what was saved there, by one fast-save *)
(* or by several that append, with and without a table of symbols, up to    *)
(* the point where a fast-save was cut off; and nothing else unless one was *)
(* (sliba.c 756-980, 1625-1690).                                            *)
FilesKeepValues ==
  reader # None =>
    /\ \A i \in 1 .. Min2(Len(saved), Len(reader.loaded)) : reader.loaded[i] = saved[i]
    /\ reader.done => Len(reader.loaded) >= Len(saved)
    /\ ~cutOff => Len(reader.loaded) <= Len(saved)
=============================================================================
