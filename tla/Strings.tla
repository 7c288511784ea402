------------------------------- MODULE Strings --------------------------------
(***************************************************************************)
(* The string procedures.  A string is the sequence of the characters of    *)
(* its buffer, dim of them; a C function sees it up to the first "NUL".     *)
(***************************************************************************)
EXTENDS Data, FiniteSetsExt

None == [none |-> TRUE]     \* an argument left out
Ascii == ("NUL" :> 0) @@ ("tab" :> 9) @@ ("newline" :> 10) @@ (" " :> 32) @@ ("-" :> 45) @@ ("." :> 46) @@ ("/" :> 47)
         @@ (":" :> 58) @@ ("=" :> 61) @@ ("A" :> 65) @@ ("B" :> 66) @@ ("a" :> 97) @@ ("b" :> 98)
Upper == ("a" :> "A") @@ ("b" :> "B")
TrimSpace == {" ", "tab", "return", "newline"}

Piece(s, from, to) == SubSeq(s, from + 1, to)    \* as C counts: from .. to - 1
Fold(s) == [i \in DOMAIN s |-> IF s[i] \in DOMAIN Upper THEN Upper[s[i]] ELSE s[i]]

(* strstr: how far into s the marker is, past its end if it is not there. *)
strstr(s, marker) ==
  Min({i \in 0 .. Len(s) - Len(marker) : Piece(s, i, i + Len(marker)) = marker} \union {Len(s) + 1})
strspn(s, set) == Min({i \in 0 .. Len(s) : i = Len(s) \/ s[i + 1] \notin set})
strcmp(a, b) ==
  LET n == Min({i \in 1 .. Len(a) + 1 : i > Len(a) \/ i > Len(b) \/ a[i] # b[i]})
      At(s) == IF n > Len(s) THEN 0 ELSE Ascii[s[n]]
  IN  At(a) - At(b)

-----------------------------------------------------------------------------
siod_string_append(args) == FlattenSeq([i \in DOMAIN args |-> CString(args[i])])
siod_bytes_append(args) == FlattenSeq(args)

siod_substring(s, start, end) ==
  LET e == IF end = None THEN Len(s) ELSE end.num
  IN  IF start < 0 \/ start > e \/ e < 0 \/ e > Len(s) THEN Error ELSE Str(Piece(s, start, e))

siod_string_search(token, s) ==
  LET at == strstr(CString(s), CString(token)) IN IF at > Len(CString(s)) THEN Nil ELSE Num(at)

siod_string_trim_left(s) == Piece(CString(s), strspn(CString(s), TrimSpace), Len(CString(s)))
siod_string_trim_right(s) == Reverse(siod_string_trim_left(Reverse(CString(s))))
siod_string_trim(s) == siod_string_trim_right(siod_string_trim_left(s))
siod_string_upcase(s) == Fold(CString(s))

(* Into a buffer of dim characters: what the copy leaves behind the NUL     *)
(* stays there.                                                             *)
siod_lstrcpy(dest, src) ==
  LET s == CString(src)
  IN  IF Len(s) > Len(dest) THEN Error ELSE Str(SubSeq(s \o <<"NUL">> \o Piece(dest, Len(s) + 1, Len(dest)), 1, Len(dest)))
siod_lstrcat(dest, src) == 
  IF Len(CString(dest)) + Len(CString(src)) > Len(dest) THEN Error
  ELSE siod_lstrcpy(dest, CString(dest) \o CString(src))

(* The pieces before and between the markers; nothing after the last one    *)
(* if it ends the string.                                                   *)
RECURSIVE Breakup(_, _)
Breakup(s, marker) ==
  IF s = <<>> THEN <<>>
  ELSE LET at == strstr(s, marker)
           end == IF at > Len(s) THEN Len(s) ELSE at
       IN  <<Piece(s, 0, end)>> \o Breakup(Piece(s, end + Len(marker), Len(s)), marker)
siod_lstrbreakup(s, marker) == Breakup(CString(s), CString(marker))

(* Variant: the marker also comes first. *)
UnbreakupLeading(elems, marker) ==
  siod_string_append(FlattenSeq([i \in DOMAIN elems |-> <<marker, elems[i]>>]))
siod_lstrunbreakup(elems, marker) ==
  siod_string_append(FlattenSeq([i \in DOMAIN elems |-> IF i = 1 THEN <<elems[1]>> ELSE <<marker, elems[i]>>]))

(* The pieces of b that may match a: one, or none if the bounds are wrong.  *)
Compared(a, b, start, end) ==
  LET s == IF start = None THEN 0 ELSE start.num
      e == IF end = None THEN Len(a) ELSE end.num
  IN  IF s < 0 \/ s > e \/ e < 0 \/ e > Len(b) \/ e - s # Len(a) THEN {} ELSE {Piece(b, s, e)}
siod_substring_equal(a, b, start, end) == a \in Compared(a, b, start, end)
siod_substring_equalcase(a, b, start, end) ==
  \E piece \in Compared(a, b, start, end) : Fold(CString(a)) = Fold(CString(piece))

(* Where load-so finds the init function of a shared object. *)
siod_so_init_name(fname) ==
  LET name == Last(siod_lstrbreakup(fname, <<"/">>))
  IN  <<"init_">> \o siod_lstrunbreakup(Front(siod_lstrbreakup(name, <<".">>)), <<".">>)

(* fgets of at most n characters, and readline on top of it: [line, rest]. *)
siod_lgets(s, n) ==
  LET newline == SelectInSeq(s, LAMBDA c : c = "newline")
      end == Min({n - 1, IF newline = 0 THEN Len(s) ELSE newline})
  IN  [line |-> CString(Piece(s, 0, end)), rest |-> Piece(s, end, Len(s))]
siod_readline(s, n) ==
  LET r == siod_lgets(s, n) IN [r EXCEPT !.line = SelectSeq(@, LAMBDA c : c # "newline")]
RECURSIVE Lines(_, _)
Lines(s, n) == IF s = <<>> THEN <<>> ELSE LET r == siod_readline(s, n) IN <<r.line>> \o Lines(r.rest, n)

-----------------------------------------------------------------------------
(* Pieces put together again give the string, but for one marker at its     *)
(* end; no piece has a marker in it, and the first ends where string-search *)
(* finds the first one.                                                     *)
BreakupAgrees(s, m) ==
  LET pieces == siod_lstrbreakup(s, m)
      again == siod_lstrunbreakup(pieces, m)
      c == CString(s)
      first == siod_string_search(m, s)
  IN  /\ IF IsSuffix(m, c) /\ again # c THEN again \o m = c ELSE again = c
      /\ \A i \in DOMAIN pieces : siod_string_search(m, pieces[i]) = Nil
      /\ c # <<>> => siod_substring(c, 0, IF first = Nil THEN None ELSE first) = Str(pieces[1])

(* readline gives the lines of a text, as a breakup at the newlines does,    *)
(* when they are short enough and without NUL.                              *)
LinesAgree(s, n) ==
  LET lines == siod_lstrbreakup(s, <<"newline">>)
  IN  ~Contains(s, "NUL") /\ (\A i \in DOMAIN lines : Len(lines[i]) < n - 1) => Lines(s, n) = lines

(* trim takes spaces from both ends and nothing else. *)
TrimAgrees(s) ==
  LET c == CString(s)
      t == siod_string_trim(s)
  IN  \E i \in 0 .. Len(c) : \E j \in i .. Len(c) :
        /\ t = Piece(c, i, j)
        /\ ToSet(Piece(c, 0, i)) \union ToSet(Piece(c, j, Len(c))) \subseteq TrimSpace
        /\ t # <<>> => t[1] \notin TrimSpace /\ Last(t) \notin TrimSpace

(* substring-equal? agrees with substring wherever that one is defined, and *)
(* a copy and an append into a buffer with string-append and strcmp.        *)
CopiesAgree(a, b, start, end) ==
  LET copied == siod_lstrcpy(b, a)
      both == siod_lstrcat(b, a)
  IN  /\ siod_substring_equal(a, b, Num(start), end)
           <=> siod_substring(b, start, IF end = None THEN Num(Len(a)) ELSE end) = Str(a)
      /\ siod_substring_equal(a, b, Num(start), end) => siod_substring_equalcase(a, siod_string_upcase(b), Num(start), end)
                                                        \/ Contains(b, "NUL")
      /\ copied # Error => strcmp(CString(copied.chars), CString(a)) = 0
      /\ (both = Error) <=> Len(siod_string_append(<<b, a>>)) > Len(b)
      /\ both # Error => CString(both.chars) = siod_string_append(<<b, a>>)
=============================================================================
