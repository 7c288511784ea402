--------------------------------- MODULE Texts ---------------------------------
(***************************************************************************)
(* The printer and the reader, over files and over strings.  A text is a    *)
(* sequence of characters; a source is "file" or "string".                  *)
(***************************************************************************)
EXTENDS Data, FiniteSetsExt

StackLimit == 12    \* bound: how deep lreadr nests before STACK_CHECK fails

Space == {" ", "newline", "tab", "return"}
Digit == {"0", "1", "2", "3", "4", "5", "6", "7", "8", "9"}
Closing == {"(", ")", "'", "backquote", ",", ";", "\""}   \* what ends a token, besides space

DigitValue == [d \in Digit |-> CHOOSE n \in 0 .. 9 : ToString(n) = d]
Escape == [n |-> "newline", t |-> "tab", r |-> "return", d |-> "eot", N |-> "NUL", s |-> " "]
Unescape == ("newline" :> <<"\\", "n">>) @@ ("return" :> <<"\\", "r">>) @@ ("tab" :> <<"\\", "t">>)
            @@ ("\\" :> <<"\\", "\\">>) @@ ("\"" :> <<"\\", "\"">>)
CharOfCode(n) == CASE n = 0 -> "NUL" [] n = 9 -> "tab" [] n = 10 -> "newline" [] n = 13 -> "return"
                   [] n = 32 -> " " [] n = 34 -> "\"" [] n = 92 -> "\\" [] OTHER -> "other"

-----------------------------------------------------------------------------
(* Printing. *)

(* Variant: a backslash is printed as it is. *)
EscapedQuote(c) == IF c = "\\" THEN <<c>> ELSE IF c \in DOMAIN Unescape THEN Unescape[c] ELSE <<c>>
Escaped(c) == IF c \in DOMAIN Unescape THEN Unescape[c] ELSE <<c>>

RECURSIVE Decimal(_)
Decimal(n) ==
  IF n < 0 THEN <<"-">> \o Decimal(-n)
  ELSE (IF n < 10 THEN <<>> ELSE Decimal(n \div 10)) \o <<ToString(n % 10)>>

Spaced(texts) == FoldLeft(LAMBDA text, x : IF text = <<>> THEN x ELSE text \o <<" ">> \o x, <<>>, texts)

RECURSIVE siod_lprin1g(_)
siod_lprin1g(exp) ==
  LET Texts(s) == Spaced([i \in DOMAIN s |-> siod_lprin1g(s[i])]) IN
  CASE exp.t = "nil" -> <<"(", ")">>
    [] exp.t = "cons" ->
         <<"(">> \o Texts(Elements(exp))
         \o (IF Ending(exp) = Nil THEN <<>> ELSE <<" ", ".", " ">> \o siod_lprin1g(Ending(exp))) \o <<")">>
    [] exp.t = "flonum" -> Decimal(exp.num)
    [] exp.t = "symbol" -> exp.pname
    [] exp.t = "string" ->
         LET s == CString(exp.chars)
         IN  <<"\"">> \o FlattenSeq([i \in DOMAIN s |-> Escaped(s[i])]) \o <<"\"">>
    [] exp.t = "lisp_array" -> <<"#", "(">> \o Texts(exp.items) \o <<")">>

(* siod_print_to_string: into a buffer of dim bytes, behind the text that   *)
(* is there if nostart; what does not fit is an error.                      *)
PrintToString(exp, dim, old, nostart) ==
  LET text == (IF nostart THEN old ELSE <<>>) \o siod_lprin1g(exp)
  IN  [text |-> SubSeq(text, 1, IF Len(text) < dim THEN Len(text) ELSE dim), overflow |-> Len(text) > dim]

-----------------------------------------------------------------------------
(* Reading.  Every result is [val, pos], pos being that of the next         *)
(* character; at the end of the text it is Len(s) + 1.                      *)

CharAt(s, i) == IF i \in DOMAIN s THEN s[i] ELSE "EOF"
Got(val, pos) == [val |-> val, pos |-> pos]
Eof == [t |-> "eof"]
Named(r, F(_)) == IF r.val = Error THEN r ELSE [r EXCEPT !.val = F(@)]

RECURSIVE siod_flush_ws(_, _, _)
siod_flush_ws(s, pos, commentp) ==
  IF pos > Len(s) THEN pos
  ELSE IF commentp THEN siod_flush_ws(s, pos + 1, s[pos] # "newline")
  ELSE IF s[pos] = ";" THEN siod_flush_ws(s, pos + 1, TRUE)
  ELSE IF s[pos] \in Space THEN siod_flush_ws(s, pos + 1, FALSE)
  ELSE pos

(* siod_lreadtk: digits with one point and an exponent are a number. *)
DigitsEnd(s, i) == Min({j \in i .. Len(s) + 1 : CharAt(s, j) \notin Digit})
DecimalValue(s) == FoldLeft(LAMBDA n, d : 10 * n + DigitValue[d], 0, s)
siod_lreadtk(s) ==
  LET start == IF s[1] = "-" THEN 2 ELSE 1
      int == DigitsEnd(s, start)
      frac == IF CharAt(s, int) = "." THEN DigitsEnd(s, int + 1) ELSE int
      sign == IF CharAt(s, frac + 1) \in {"-", "+"} THEN frac + 2 ELSE frac + 1
      exp == IF CharAt(s, frac) = "e" THEN DigitsEnd(s, sign) ELSE frac
      number == /\ \E i \in start .. frac - 1 : s[i] \in Digit
                /\ CharAt(s, frac) = "e" => exp > sign
                /\ exp = Len(s) + 1
  IN  IF ~number THEN Sym(s)
      ELSE IF int <= Len(s) THEN [t |-> "flonum", text |-> s]
      ELSE Num((IF start = 2 THEN -1 ELSE 1) * DecimalValue(SubSeq(s, start, Len(s))))

RECURSIVE siod_lreadstring(_, _, _)
siod_lreadstring(s, pos, chars) ==
  LET c == CharAt(s, pos)
      d == CharAt(s, pos + 1)
  IN
  IF c \in {"\"", "EOF"} THEN Got(Str(chars), IF c = "EOF" THEN pos ELSE pos + 1)
  ELSE IF c # "\\" THEN siod_lreadstring(s, pos + 1, Append(chars, c))
  ELSE IF d = "EOF" THEN Got(Error, pos + 1)
  ELSE IF d = "0" THEN
    LET end == DigitsEnd(s, pos + 2)
        code == FoldLeft(LAMBDA n, x : 8 * n + DigitValue[x], 0, SubSeq(s, pos + 2, end - 1))
    IN  IF end > Len(s) THEN Got(Error, end)
        ELSE siod_lreadstring(s, end, Append(chars, CharOfCode(code)))
  ELSE siod_lreadstring(s, pos + 2, Append(chars, IF d \in DOMAIN Escape THEN Escape[d] ELSE d))

Backquote == Sym(<<"+siod_internal-backquote">>)
Comma(c) == CASE c = "@" -> Sym(<<"+siod_internal-comma-atsign">>)
              [] c = "." -> Sym(<<"+siod_internal-comma-dot">>)
              [] OTHER -> Sym(<<"+siod_internal-comma">>)

(* Going back at the end: a string steps back over its last character, a    *)
(* file stays.                                                              *)
UngetEof(s, source) == IF source = "string" THEN Len(s) ELSE Len(s) + 1

RECURSIVE siod_lreadr(_, _, _, _), siod_lreadparen(_, _, _, _)
siod_lreadr(s, pos, depth, source) ==
  LET p == siod_flush_ws(s, pos, FALSE)
      c == CharAt(s, p)
      d == CharAt(s, p + 1)
      Next(q) == siod_lreadr(s, q, depth + 1, source)
      end == Min({j \in p + 1 .. Len(s) + 1 : CharAt(s, j) \in Space \union Closing \union {"EOF"}})
  IN
  IF depth = StackLimit THEN Got(Error, p)
  ELSE CASE c \in {"EOF", ")"} -> Got(Error, p)
    [] c = "(" -> siod_lreadparen(s, p + 1, depth + 1, source)
    [] c = "'" -> Named(Next(p + 1), LAMBDA x : List(<<Sym(<<"quote">>), x>>))
    [] c = "backquote" -> Named(Next(p + 1), LAMBDA x : Pair(Backquote, x))
    [] c = "," -> Named(Next(IF d \in {"@", "."} THEN p + 2 ELSE IF d = "EOF" THEN UngetEof(s, source) ELSE p + 1),
                        LAMBDA x : Pair(Comma(d), x))
    [] c = "\"" -> siod_lreadstring(s, p + 1, <<>>)
    [] c = "#" ->
         CASE d = "(" -> Named(Next(p + 1), LAMBDA x : IF Ending(x) = Nil THEN LispArray(Elements(x)) ELSE Error)
           [] d = "." -> Named(Next(p + 2), LAMBDA x : [t |-> "evaluated", form |-> x])
           [] d = "f" -> Got(Nil, p + 2)
           [] d = "t" -> Got(Num(1), p + 2)
           [] OTHER -> Got(Error, p + 2)
    [] OTHER -> Got(siod_lreadtk(SubSeq(s, p, end - 1)), IF CharAt(s, end) \in Space THEN end + 1 ELSE end)

siod_lreadparen(s, pos, depth, source) ==
  LET p == siod_flush_ws(s, pos, FALSE)
      r == siod_lreadr(s, p, depth + 1, source)
      end == siod_flush_ws(s, r.pos, FALSE)
      rest == siod_lreadparen(s, r.pos, depth + 1, source)
  IN
  IF p > Len(s) THEN Got(Error, p)
  ELSE IF s[p] = ")" THEN Got(Nil, p + 1)
  ELSE IF r.val = Error THEN r
  ELSE IF r.val # Sym(<<".">>) THEN Named(rest, LAMBDA x : Pair(r.val, x))
  ELSE LET tail == siod_lreadr(s, r.pos, depth + 1, source)
           close == siod_flush_ws(s, tail.pos, FALSE)
       IN  IF tail.val # Error /\ CharAt(s, close) = ")" THEN Got(tail.val, close + 1) ELSE Got(Error, close)

siod_readtl(s, pos, source) ==
  LET p == siod_flush_ws(s, pos, FALSE)
  IN  IF p > Len(s) THEN Got(Eof, p) ELSE siod_lreadr(s, p, 0, source)

(* Everything a text holds, up to its end or the first error. *)
RECURSIVE ReadFrom(_, _, _)
ReadFrom(s, pos, source) ==
  LET r == siod_readtl(s, pos, source)
  IN  IF r.val \in {Error, Eof} THEN <<r.val>> ELSE <<r.val>> \o ReadFrom(s, r.pos, source)

-----------------------------------------------------------------------------
(* What printing loses: the rest of a string after a NUL. *)
RECURSIVE Shown(_)
Shown(v) ==
  CASE v.t = "string" -> Str(CString(v.chars))
    [] v.t = "cons" -> Pair(Shown(v.car), Shown(v.cdr))
    [] v.t = "lisp_array" -> LispArray([i \in DOMAIN v.items |-> Shown(v.items[i])])
    [] OTHER -> v

ReadsBack(v, w, source) ==
  ReadFrom(siod_lprin1g(v) \o <<"newline">> \o siod_lprin1g(w), 1, source) = <<Shown(v), Shown(w), Eof>>
=============================================================================
