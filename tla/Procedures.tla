------------------------------ MODULE Procedures ------------------------------
(***************************************************************************)
(* The procedures on data, as a program calls them: one call at a time,     *)
(* with any of the given arguments, and the reading and writing of a file   *)
(* of saved data between them.                                              *)
(***************************************************************************)
EXTENDS FastIO

CONSTANTS
  Strings,     \* sequences of characters
  Markers,     \* the ones a string is broken up at
  Values,      \* for the printer
  ListValues,  \* for the procedures on lists
  Templates,   \* for swrite, with the values of the name x
  Written,     \* texts for the reader
  Bytes,       \* strings as sequences of numbers
  Messages,    \* for MD5, in two parts
  Scripts,     \* files with a script in them, perhaps
  Arguments,   \* command lines
  HashDim,     \* the dimension sxhash is asked for
  Indices      \* into strings and arrays

VARIABLE call   \* what was called and its arguments, or Idle

Str_ == INSTANCE Strings
Lst_ == INSTANCE Lists
Txt_ == INSTANCE Texts
Enc_ == INSTANCE Encodings
Arr_ == INSTANCE Arrays
Scr_ == INSTANCE Script

Idle == [of |-> "none"]
vars == <<call, fastVars>>

Init == call = Idle /\ FastIOInit

(* Calls come while no file is in use, which they have nothing to do with.  *)
Free == call = Idle /\ saves = 0
Call(of, args) ==
  /\ call' = [of |-> of, args |-> args]
  /\ UNCHANGED fastVars

CallStrings ==
  /\ Free
  /\ \E s \in Strings, m \in Markers, n \in Indices : Call("strings", [s |-> s, m |-> m, n |-> n])
CallLists ==
  /\ Free
  /\ \E l \in ListValues, m \in {x \in ListValues : Len(Elements(x)) <= 1} : Call("lists", [l |-> l, m |-> m])
CallPrinter ==
  /\ Free
  /\ \E v, w \in Values : Call("printer", [v |-> v, w |-> w])
CallReader ==
  /\ Free
  /\ \E s \in Written : Call("reader", [s |-> s])
CallEncodings ==
  /\ Free
  /\ \E s \in Bytes : Call("encodings", [s |-> s])
CallMD5 ==
  /\ Free
  /\ \E a, b \in Messages, dim \in {1, 60, 64, 100} : Call("md5", [a |-> a, b |-> b, dim |-> dim])
CallArrays ==
  /\ Free
  /\ \E kind \in {"double", "long", "string", "byte", "lisp"}, dim, i, j \in Indices, v \in {Num(-1), Num(200), Nil} :
    Call("arrays", [kind |-> kind, dim |-> dim, i |-> i, j |-> j, v |-> v])
CallTemplates ==
  /\ Free
  /\ \E data \in Templates, value \in {x \in ListValues : Elements(x) # <<>> /\ Ending(x) = Nil} :
    Call("templates", [data |-> data, value |-> value])
CallScript ==
  /\ Free
  /\ \E f \in Scripts : Call("script", [f |-> f])
CallMain ==
  /\ Free
  /\ \E argv \in Arguments : Call("main", [argv |-> argv])

Return ==
  /\ call # Idle
  /\ call' = Idle
  /\ UNCHANGED fastVars

UseFiles == call = Idle /\ FastIONext /\ UNCHANGED call

Next ==
  \/ CallStrings \/ CallLists \/ CallPrinter \/ CallReader \/ CallEncodings
  \/ CallMD5 \/ CallArrays \/ CallTemplates \/ CallScript \/ CallMain
  \/ Return \/ UseFiles

Spec == Init /\ [][Next]_vars

-----------------------------------------------------------------------------
(* What is printed can be read: two forms one after the other in a file or  *)
(* a string give the forms again, but for what follows a NUL in a string;   *)
(* and any text at all means the same in both, also where it ends too soon  *)
(* (slib.c 2033-2094, 2140-2249; sliba.c 101-232, 485-553).                 *)
TextsReadBack ==
  /\ call.of = "printer" =>
       \A source \in {"file", "string"} : Txt_!ReadsBack(call.args.v, call.args.w, source)
  /\ call.of = "reader" => Txt_!ReadFrom(call.args.s, 1, "file") = Txt_!ReadFrom(call.args.s, 1, "string")

(* What is encoded decodes to what it was, base64, hexadecimal and url; it  *)
(* fills the string that was made for it; nothing decodes that is not an    *)
(* encoding; and MD5 gets the message of RFC 1321 in its blocks whatever    *)
(* the pieces it is given (sliba.c 1230-1332, 1792-1821; slibu.c 597-634,   *)
(* 1345-1446; md5.c 104-185).                                               *)
EncodingsInvert ==
  /\ call.of = "encodings" =>
       LET s == call.args.s IN Enc_!Inverts(s) /\ Enc_!Fits(s) /\ Enc_!Accepts(s)
  /\ call.of = "md5" => Enc_!BlocksAgree(call.args.a, call.args.b, call.args.dim)

SortOrders == {{<<Num(0), Num(1)>>, <<Num(0), Num(3)>>, <<Num(1), Num(3)>>}, {<<Num(1), Num(0)>>, <<Num(3), Num(0)>>}}

(* What the procedures make of the same data fits together: breakup and     *)
(* unbreakup, substring, search and trim; append, reverse, last and nth;    *)
(* equal and sxhash; sort; aref and aset; swrite; position-script and the   *)
(* load that follows; options one by one and in one argument (sliba.c       *)
(* 234-483, 555-703, 1072-1605, 1692-1740; slibu.c 2004-2172).              *)
ProceduresAgree ==
  CASE call.of = "strings" ->
         LET s == call.args.s
             m == call.args.m
             n == call.args.n
         IN  /\ Str_!BreakupAgrees(s, m)
             /\ Str_!TrimAgrees(s)
             /\ Str_!LinesAgree(s, n + 2)
             /\ Str_!CopiesAgree(m, s, n, None)
             /\ Str_!CopiesAgree(m, s, n, Num(n + 1))
    [] call.of = "lists" ->
         LET l == call.args.l
             m == call.args.m
         IN  /\ Lst_!HashAgrees(l, m, HashDim)
             /\ Lst_!ListsAgree(l, m)
             /\ Lst_!SearchAgrees(m, l)
             /\ Ending(l) = Nil => \A before \in SortOrders : Lst_!SortAgrees(l, before)
    [] call.of = "arrays" ->
         LET a == call.args IN Arr_!ArraysAgree(a.dim, a.kind, a.i, a.j, a.v)
    [] call.of = "templates" ->
         Arr_!TemplateAgrees(call.args.data, Sym(<<"x">>), call.args.value)
    [] call.of = "script" -> Scr_!ScriptAgrees(call.args.f)
    [] call.of = "main" ->
         LET argv == call.args.argv
         IN  /\ Scr_!OptionsAgree(argv)
             /\ Scr_!MainAgrees(argv)
             /\ \A i \in DOMAIN argv : Scr_!RequiresName(argv[i])
    [] OTHER -> TRUE

(* "shuffle arguments in the same way that the unix exec siod_loader would  *)
(* do for a #!/xxx script execution" (slibu.c 2130): there are arguments    *)
(* from the file exactly when its first line has some.                      *)
ShufflesAsExec == call.of = "script" => Scr_!ShufflesLikeExec(call.args.f)
=============================================================================
