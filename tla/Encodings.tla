------------------------------- MODULE Encodings -------------------------------
(***************************************************************************)
(* base64, hexadecimal, url and html encodings, and how MD5 cuts what it is *)
(* given into blocks.  A string is a sequence of the numbers of its bytes.  *)
(***************************************************************************)
EXTENDS Integers, Sequences, SequencesExt, FiniteSetsExt

Failed == <<-1>>     \* NIL, for what is not an encoding

CString(s) == LET end == SelectInSeq(s, LAMBDA c : c = 0) IN IF end = 0 THEN s ELSE SubSeq(s, 1, end - 1)

Digits == 48 .. 57
UpperCase == 65 .. 90
LowerCase == 97 .. 122

-----------------------------------------------------------------------------
(* base64: "=" is entry 64 of the table, which is no digit. *)

Table(i) == IF i < 26 THEN 65 + i ELSE IF i < 52 THEN 71 + i ELSE IF i < 62 THEN i - 4
            ELSE IF i = 62 THEN 43 ELSE IF i = 63 THEN 47 ELSE 61
DecodeTable(c) == IF \E i \in 0 .. 64 : Table(i) = c THEN CHOOSE i \in 0 .. 64 : Table(i) = c ELSE -1

Item1(x) == Table(x \div 4)
Item2(x, y) == Table((x % 4) * 16 + y \div 16)
Item3(x, y) == Table((x % 16) * 4 + y \div 64)
Item4(x) == Table(x % 64)

siod_base64encode(s) ==
  LET Chunk(k) ==
        LET x == s[3 * k - 2]
            y == s[3 * k - 1]
            z == s[3 * k]
        IN  <<Item1(x), Item2(x, y), Item3(y, z), Item4(z)>>
      n == Len(s)
  IN  FlattenSeq([k \in 1 .. n \div 3 |-> Chunk(k)])
      \o CASE n % 3 = 0 -> <<>>
           [] n % 3 = 1 -> <<Item1(s[n]), Item2(s[n], 0), Table(64), Table(64)>>
           [] n % 3 = 2 -> <<Item1(s[n - 1]), Item2(s[n - 1], s[n]), Item3(s[n], 0), Table(64)>>

(* Variant: the last four are decoded as if they had no padding. *)
LeftoverNone(s) == 0
Leftover(s) == IF Last(s) # Table(64) THEN 0 ELSE IF s[Len(s) - 1] # Table(64) THEN 2 ELSE 1

siod_base64decode(in) ==
  LET s == CString(in)
      left == Leftover(s)
      used == IF left = 0 THEN Len(s) ELSE Len(s) - 3 + left
      item == [i \in 1 .. used |-> DecodeTable(s[i])]
      Byte(j) ==      \* byte j has bits of the characters i and i + 1
        LET i == j + 1 + j \div 3
            shift == <<4, 16, 64>>[(j % 3) + 1]
        IN  (item[i] * shift + item[i + 1] \div (64 \div shift)) % 256
  IN  IF s = <<>> THEN <<>>
      ELSE IF Len(s) % 4 # 0 THEN Failed
      ELSE IF \E i \in 1 .. used : item[i] \notin 0 .. 63 THEN Failed
      ELSE [k \in 1 .. (IF left = 0 THEN (3 * Len(s)) \div 4 ELSE 3 * (Len(s) \div 4 - 1) + left) |-> Byte(k - 1)]

-----------------------------------------------------------------------------
(* Hexadecimal. *)

LowerHex(d) == IF d < 10 THEN 48 + d ELSE 87 + d
UpperHex(d) == IF d < 10 THEN 48 + d ELSE 55 + d
IsXDigit(c) == c \in Digits \union 65 .. 70 \union 97 .. 102
XDigitValue(c) == IF c \in Digits THEN c - 48 ELSE IF c \in 65 .. 70 THEN c - 55 ELSE IF c \in 97 .. 102 THEN c - 87 ELSE 0

siod_hexstr(s) == FlattenSeq([i \in DOMAIN s |-> <<LowerHex(s[i] \div 16), LowerHex(s[i] % 16)>>])
siod_hexstr2bytes(in) ==
  LET s == CString(in) IN [i \in 1 .. Len(s) \div 2 |-> XDigitValue(s[2 * i - 1]) * 16 + XDigitValue(s[2 * i])]

-----------------------------------------------------------------------------
(* URLs and HTML.  The first pass counts the bytes of the result, which is  *)
(* the size of the string that the second one fills.                        *)

Plain(c) == c \in Digits \union UpperCase \union LowerCase \union {42, 45, 46, 95, 64}
Count(s, set) == Len(SelectSeq(s, LAMBDA c : c \in set))

UrlSize(s) == Len(s) + 2 * Count(s, {c \in 0 .. 255 : c # 32 /\ ~Plain(c)})
siod_url_encode(in) ==
  LET s == CString(in)
      Encoded(c) == IF c = 32 THEN <<43>> ELSE IF Plain(c) THEN <<c>>
                    ELSE <<37, UpperHex(c \div 16), UpperHex(c % 16)>>
  IN  IF UrlSize(s) = Len(s) /\ ~Contains(s, 32) THEN in ELSE FlattenSeq([i \in DOMAIN s |-> Encoded(s[i])])

RECURSIVE UrlDecoded(_)
UrlDecoded(s) ==
  IF s = <<>> THEN <<>>
  ELSE IF s[1] = 37 THEN <<XDigitValue(s[2]) * 16 + XDigitValue(s[3])>> \o UrlDecoded(SubSeq(s, 4, Len(s)))
  ELSE <<IF s[1] = 43 THEN 32 ELSE s[1]>> \o UrlDecoded(Tail(s))
siod_url_decode(in) ==
  LET s == CString(in)
      At(i) == IF i \in DOMAIN s THEN s[i] ELSE 0
  IN  IF \E i \in DOMAIN s : s[i] = 37 /\ ~(IsXDigit(At(i + 1)) /\ IsXDigit(At(i + 2))) THEN Failed
      ELSE IF ~Contains(s, 37) /\ ~Contains(s, 43) THEN in
      ELSE UrlDecoded(s)

Entity(c) == CASE c = 62 -> <<38, 103, 116, 59>> [] c = 60 -> <<38, 108, 116, 59>>
               [] c = 38 -> <<38, 97, 109, 112, 59>> [] c = 34 -> <<38, 113, 117, 111, 116, 59>>
               [] OTHER -> <<c>>
HtmlSize(s) == Len(s) + 3 * Count(s, {60, 62}) + 4 * Count(s, {38})
               + 5 * Count(s, {34})
siod_html_encode(in) ==
  LET s == CString(in)
  IN  IF HtmlSize(s) = Len(s) THEN in ELSE FlattenSeq([i \in DOMAIN s |-> Entity(s[i])])

-----------------------------------------------------------------------------
(* MD5.  A context is [count, buffer, blocks]: the two words of the number  *)
(* of bits, Word large (2^32 in C; the model takes it small, so that they   *)
(* overflow), the last bytes, and the blocks that MD5Transform was given,   *)
(* which the digest is a function of.                                       *)

Block == 64
Word == 512

MD5Init == [count |-> <<0, 0>>, buffer |-> <<>>, blocks |-> <<>>]

(* Variant: the carry of the bit count is lost. *)
CountWithoutCarry(count, len) == <<(count[1] + (len * 8)) % Word, (count[2] + ((len * 8) \div Word)) % Word>>
CountBits(count, len) ==
  LET low == (count[1] + ((len * 8) % Word)) % Word
      carry == IF low < (len * 8) % Word THEN 1 ELSE 0
  IN  <<low, (count[2] + carry + ((len * 8) \div Word)) % Word>>

MD5Update(ctx, input) ==
  LET index == (ctx.count[1] \div 8) % Block
      partLen == Block - index
      len == Len(input)
      whole == IF len >= partLen THEN (len - partLen) \div Block ELSE 0
      From(i) == SubSeq(input, i + 1, len)
      held == SubSeq(ctx.buffer, 1, index)
  IN  [count |-> CountBits(ctx.count, len),
       buffer |-> IF len >= partLen THEN From(partLen + whole * Block) ELSE held \o input,
       blocks |-> IF len >= partLen
                  THEN ctx.blocks \o <<held \o SubSeq(input, 1, partLen)>>
                       \o [k \in 1 .. whole |-> SubSeq(From(partLen), (k - 1) * Block + 1, k * Block)]
                  ELSE ctx.blocks]

(* Encode: the four bytes of each word, the lowest first. *)
Encode(words) ==
  FlattenSeq([i \in DOMAIN words |-> <<words[i] % 256, (words[i] \div 256) % 256, (words[i] \div 65536) % 256, words[i] \div 16777216>>])
Padding(n) == [i \in 1 .. n |-> IF i = 1 THEN 128 ELSE 0]
MD5Final(ctx) ==
  LET index == (ctx.count[1] \div 8) % Block
      padLen == IF index < 56 THEN 56 - index ELSE 120 - index
  IN  MD5Update(MD5Update(ctx, Padding(padLen)), Encode(ctx.count)).blocks

(* siod_md5_update of the first n bytes of a string, and of a file that is  *)
(* read into a buffer of dim bytes again and again.                         *)
siod_md5_update(ctx, s, n) == IF n \in 0 .. Len(s) THEN MD5Update(ctx, SubSeq(s, 1, n)) ELSE ctx
RECURSIVE siod_md5_update_from_file(_, _, _)
siod_md5_update_from_file(ctx, s, dim) ==
  LET n == IF Len(s) < dim THEN Len(s) ELSE dim
  IN  IF n = 0 THEN ctx
      ELSE siod_md5_update_from_file(MD5Update(ctx, SubSeq(s, 1, n)), SubSeq(s, n + 1, Len(s)), dim)

-----------------------------------------------------------------------------
(* What is decoded is what was encoded. *)
Inverts(s) ==
  LET base64 == siod_base64encode(s)
  IN  /\ siod_base64decode(base64) = s
      /\ Len(base64) = 4 * ((Len(s) + 2) \div 3)
      /\ siod_hexstr2bytes(siod_hexstr(s)) = s
      /\ CString(siod_url_decode(siod_url_encode(s))) = CString(s)

(* What is encoded is made of the characters that encodings are made of,    *)
(* and fills the string that was made for it.                               *)
Fits(s) ==
  LET url == CString(siod_url_encode(s))
      html == CString(siod_html_encode(s))
  IN  /\ Len(url) = UrlSize(CString(s)) /\ \A i \in DOMAIN url : Plain(url[i]) \/ url[i] \in {37, 43}
      /\ Len(html) = HtmlSize(CString(s)) /\ ToSet(html) \intersect {34, 60, 62} = {}

(* What decodes at all is an encoding: encoding the result gives it back,   *)
(* but for the bits of the last character that padding leaves unused.       *)
Accepts(s) ==
  LET bytes == siod_base64decode(s)
      c == CString(s)
  IN  bytes = Failed \/ Contains(bytes, -1) \/
      LET again == siod_base64encode(bytes)
      IN  /\ Len(again) = Len(c)
          /\ \A i \in DOMAIN c : again[i] = c[i] \/ (Leftover(c) > 0 /\ i = Len(c) - 3 + Leftover(c))

(* RFC 1321, 3.1 and 3.2: the message, one bit, zeros up to 56 modulo 64    *)
(* bytes, and the length in bits.                                           *)
Padded(s) ==
  LET bits == 8 * Len(s)
      zeros == (55 - Len(s)) % Block
      all == s \o <<128>> \o [i \in 1 .. zeros |-> 0] \o Encode(<<bits % Word, bits \div Word>>)
  IN  [k \in 1 .. Len(all) \div Block |-> SubSeq(all, (k - 1) * Block + 1, k * Block)]

(* The blocks depend on the bytes, and not on the calls they come in. *)
BlocksAgree(a, b, dim) ==
  LET ctx == siod_md5_update(MD5Init, a, Len(a))
  IN  /\ MD5Final(siod_md5_update(ctx, b, Len(b))) = Padded(a \o b)
      /\ MD5Final(siod_md5_update_from_file(ctx, b, dim)) = Padded(a \o b)
=============================================================================
