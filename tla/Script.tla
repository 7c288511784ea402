-------------------------------- MODULE Script --------------------------------
(***************************************************************************)
(* The command line: options, what ulsiod_main runs, and scripts: a file    *)
(* with "#!/" somewhere in it, run by handing its name with an offset to    *)
(* the interpreter.  Arguments and files are sequences of characters.       *)
(***************************************************************************)
EXTENDS Texts

S == INSTANCE Strings

ScriptLimit == 250000
Settings == {"l", "h", "o", "i", "n", "g", "s", "v"}
Absent == [absent |-> TRUE]    \* a file that is not there

IsOption(arg) == arg # <<>> /\ arg[1] = "-"
atol(s) == DecimalValue(SubSeq(s, 1, DigitsEnd(s, 1) - 1))

-----------------------------------------------------------------------------
(* siod_position_script: where "#!/" is, and the arguments it gives: from   *)
(* the next space on, wherever that is, to the end of its line.             *)
Step(st, c) ==
  CASE st.found -> st
    [] ~st.found /\ c = "#" -> [seen |-> "#", pos |-> st.offset, offset |-> st.offset + 1, found |-> FALSE]
    [] ~st.found /\ c = "!" -> [st EXCEPT !.seen = IF @ = "#" THEN "!" ELSE "", !.offset = @ + 1]
    [] ~st.found /\ c = "/" -> [st EXCEPT !.seen = "", !.offset = @ + 1, !.found = st.seen = "!"]
    [] OTHER -> [st EXCEPT !.seen = "", !.offset = @ + 1]
Scan(f) == FoldLeft(Step, [seen |-> "", pos |-> -1, offset |-> 0, found |-> FALSE],
                    SubSeq(f, 1, IF Len(f) < ScriptLimit THEN Len(f) ELSE ScriptLimit))

AfterSpace(f, from) == Min({i \in from .. Len(f) : i = Len(f) \/ (i > from /\ f[i] = " ")})
Blank(s) == \A i \in DOMAIN s : s[i] \in {" ", "tab", "return"}
LineAt(f, from) ==
  S!Piece(f, from, Min({i \in from .. Len(f) : i = Len(f) \/ f[i + 1] = "newline"}))

siod_position_script(f) ==
  LET st == Scan(f)
      flags == LineAt(f, AfterSpace(f, st.offset))
  IN  IF st.found THEN [pos |-> st.pos, flags |-> IF Blank(flags) THEN <<>> ELSE flags] ELSE [pos |-> -1, flags |-> <<>>]
siod_lsiod_position_script(f) ==
  LET r == siod_position_script(f) IN IF r.pos < 0 THEN Nil ELSE Pair(Num(r.pos), Str(r.flags))

(* ulsiod_shuffle_args: f is the contents of argv[0]. *)
ulsiod_shuffle_args(argv, f) ==
  LET r == siod_position_script(f) IN
  IF f = Absent THEN argv
  ELSE IF r.pos < 0 THEN argv
  ELSE <<<<"siod.exe">>>> \o (IF r.flags = <<>> THEN <<>> ELSE <<r.flags>>)
       \o <<Decimal(r.pos) \o <<"|">> \o argv[1]>> \o Tail(argv)

(* The start of siod_vload: over the offset, then over the lines that start *)
(* with "#" or ";".                                                         *)
Offset(name) == IF Contains(name, "|") THEN atol(name) ELSE 0
RECURSIVE AfterHeader(_, _)
AfterHeader(f, from) ==
  IF CharAt(f, from + 1) \notin {"#", ";"} THEN from
  ELSE AfterHeader(f, LET end == from + Len(LineAt(f, from)) IN IF end = Len(f) THEN end ELSE end + 1)
siod_vload(name, f) == ReadFrom(f, AfterHeader(f, Offset(name)) + 1, "file")

-----------------------------------------------------------------------------
(* Options: several in one argument are joined by ",-". *)
Initially == [o \in Settings \union {"nheaps"} |-> <<>>]
ulsiod_process_cla(settings, option) ==
  LET value == S!Piece(option, 2, Len(option))
      colon == SelectInSeq(value, LAMBDA c : c = ":")
  IN  IF Len(option) < 2 THEN settings
      ELSE IF option[2] \notin Settings THEN settings
      ELSE IF option[2] # "h" \/ colon = 0 THEN [settings EXCEPT ![option[2]] = value]
      ELSE [settings EXCEPT !["h"] = SubSeq(value, 1, colon - 1), !["nheaps"] = S!Piece(value, colon, Len(value))]

RECURSIVE Pieces(_)
Pieces(arg) ==
  LET end == S!strstr(arg, <<",", "-">>)
  IN  IF arg = <<>> THEN <<>> ELSE IF end > Len(arg) THEN <<arg>>
      ELSE <<S!Piece(arg, 0, end)>> \o Pieces(S!Piece(arg, end + 1, Len(arg)))

(* What main has when it has seen its options: [settings, mainflag, plain]. *)
TakeOption(st, option) ==
  LET value == S!Piece(option, 2, Len(option))
      letter == IF Len(option) < 2 THEN "" ELSE option[2]
  IN  [settings |-> IF letter = "m" THEN st.settings ELSE ulsiod_process_cla(st.settings, option),
       mainflag |-> IF letter = "m" THEN atol(value) ELSE st.mainflag,
       plain |-> st.plain \/ (letter = "v" /\ atol(value) > 0 /\ value[1] # "0")]
Options(argv) ==
  FoldLeft(TakeOption, [settings |-> Initially, mainflag |-> 0, plain |-> FALSE],
           FlattenSeq([j \in 1 .. Len(argv) - 1 |-> IF IsOption(argv[j + 1]) THEN Pieces(argv[j + 1]) ELSE <<>>]))

(* An argument that asks for the interactive loop. *)
AsksRepl(value) ==
  LET word == <<"s", "i", "o", "d", "_", "r", "e", "p", "l">> IN value \in {word, <<"(">> \o word \o <<")">>}

(* siod_htqs_arg: the text that is read for an argument, which is a form or *)
(* the name of a file to require.                                           *)
siod_htqs_arg(value) ==
  LET Escaped1(c) == IF c \in {"\\", "\""} THEN <<"\\", c>> ELSE <<c>>
      name == FlattenSeq([i \in DOMAIN value |-> Escaped1(value[i])])
  IN  IF Contains(value, "(") THEN value
      ELSE <<"(", "r", "e", "q", "u", "i", "r", "e", " ", "\"">> \o name \o <<"\"", ")">>

(* What ulsiod_main runs; an argument in fails stops those behind it, but   *)
(* not the main procedure.                                                  *)
ulsiod_main(argv, fails) ==
  LET st == Options(argv)
      limit == IF st.mainflag >= 2 /\ Len(argv) > 3 THEN 3 ELSE Len(argv)
      args == SelectSeq(Tail(SubSeq(argv, 1, limit)), LAMBDA a : ~IsOption(a))
      stop == SelectInSeq(args, LAMBDA a : a \in fails)
      main == IF st.mainflag = 0 THEN <<>>
              ELSE IF st.mainflag > 2 /\ ~st.plain THEN <<[run |-> "cgi_main", text |-> Decimal(st.mainflag)]>>
              ELSE <<[run |-> "main", text |-> <<>>]>>
  IN  [st |-> st,
       runs |-> IF \A j \in 2 .. Len(argv) : IsOption(argv[j]) THEN <<[run |-> "repl", text |-> <<>>]>>
                ELSE LET some == IF stop = 0 THEN args ELSE SubSeq(args, 1, stop)
                     IN  [i \in DOMAIN some |-> IF AsksRepl(some[i]) THEN [run |-> "repl", text |-> <<>>]
                                                     ELSE [run |-> "arg", text |-> siod_htqs_arg(some[i])]] \o main]

-----------------------------------------------------------------------------
(* position-script finds the first "#!/", and loading the script reads what *)
(* follows its line.                                                        *)
ScriptAgrees(f) ==
  LET first == S!strstr(f, <<"#", "!", "/">>)
      r == siod_position_script(f)
      name == Last(ulsiod_shuffle_args(<<<<"x">>>>, f))
      body == first + Len(LineAt(f, first)) + 2
  IN  IF first > Len(f) THEN r.pos = -1 /\ siod_lsiod_position_script(f) = Nil
      ELSE r.pos = first /\ (CharAt(f, body) \notin {"#", ";"} => siod_vload(name, f) = ReadFrom(f, body, "file"))

(* Options joined with commas mean what they mean one by one. *)
OptionsAgree(argv) ==
  LET options == SelectSeq(Tail(argv), IsOption)
      joined == FoldLeft(LAMBDA text, o : IF text = <<>> THEN o ELSE text \o <<",">> \o o, <<>>, options)
  IN  options # <<>> => Options(<<argv[1], joined>>) = Options(<<argv[1]>> \o options)

(* An argument that fails keeps those behind it from being run and nothing  *)
(* else; with -m2 and more the arguments of a script are its own.           *)
MainAgrees(argv) ==
  LET runs == ulsiod_main(argv, {}).runs
      st == Options(argv)
      mains == IF st.mainflag = 0 \/ \A j \in 2 .. Len(argv) : IsOption(argv[j]) THEN 0 ELSE 1
      IsScript == Len(argv) >= 3 /\ IsOption(argv[2]) /\ ~IsOption(argv[3])
  IN  /\ \A j \in DOMAIN argv :
           LET some == ulsiod_main(argv, {argv[j]}).runs
           IN  /\ IsPrefix(SubSeq(some, 1, Len(some) - mains), runs)
               /\ mains = 1 => Last(some) = Last(runs)
      /\ IsScript /\ st.mainflag >= 2 => Len(runs) = 2 /\ runs[1].text \in {<<>>, siod_htqs_arg(argv[3])}

(* The name of a file reaches require as it is. *)
RequiresName(value) ==
  ~Contains(value, "(") =>
     ReadFrom(siod_htqs_arg(value), 1, "string")
       = <<List(<<Sym(<<"r", "e", "q", "u", "i", "r", "e">>), Str(value)>>), Eof>>

(* What exec does with "#!interpreter argument". *)
ExecArgument(f) ==
  LET line == LineAt(f, 0)
      space == SelectInSeq(line, LAMBDA c : c = " ")
  IN  IF space = 0 THEN <<>> ELSE S!siod_string_trim(S!Piece(line, space, Len(line)))
ShufflesLikeExec(f) ==
  IsPrefix(<<"#", "!", "/">>, f) =>
    LET flags == siod_position_script(f).flags
    IN  (flags = <<>>) <=> (ExecArgument(f) = <<>>)
=============================================================================
