----------------------------- MODULE MCProcedures -----------------------------
EXTENDS Procedures

UpTo(set, n) == UNION {[1 .. k -> set] : k \in 0 .. n}
A == Sym(<<"a">>)
B == Sym(<<"b">>)
X == Sym(<<"x">>)
Y == Sym(<<"y">>)

TheForms == {A, List(<<A, B>>), Pair(B, LispArray(<<A, Nil>>)), ListEndingIn(<<Num(1), A>>, Str(<<"s", "newline">>))}

TheStrings == UpTo({"a", "B", " ", "newline", "NUL"}, 4) \union UpTo({"a", "/"}, 5)
TheMarkers == {<<"a">>, <<"/">>, <<"a", "a">>, <<"newline">>, <<"a", "/">>}

Atoms == {Nil, Num(0), Num(3), Num(-12), A, Str(<<>>), Str(<<"a", "\"">>), Str(<<"\\", "n">>),
          Str(<<"newline", "tab", "return">>), Str(<<"a", "NUL", "b">>), Str(<<"0", "(", ";">>)}
TheValues == Atoms \union {List(<<x, y>>) : x, y \in Atoms} \union {Pair(A, x) : x \in Atoms}
             \union {LispArray(<<x, Num(1)>>) : x \in Atoms} \union {List(<<List(<<A>>), Pair(Nil, A)>>), LispArray(<<>>)}

Elems == {Num(0), Num(1), Num(3), A, Str(<<"a", "b">>)}
TheListValues == {List(s) : s \in UpTo(Elems, 3)} \union {ListEndingIn(s, B) : s \in UpTo(Elems, 2)}
                 \union {List(<<A, Num(1), A, Num(0)>>), List(<<LispArray(<<A>>), LispArray(<<A>>)>>)}

Uses == {X, Y, [t |-> "pointed", name |-> X]}
TheTemplates == {LispArray(<<Num(n)>> \o s) : n \in 0 .. 2, s \in UpTo(Uses, 3)}
                \union {LispArray(<<Num(2), X, LispArray(<<Num(2), u, X>>)>>) : u \in Uses}

TheWritten == UpTo({"(", ")", ".", "a", ",", "\"", "\\"}, 4)
              \union UpTo({"(", ")", "1", "'", "#", " ", "newline", ";", "0", "-", "\\", "\"", "backquote"}, 3)

TheBytes == UpTo({0, 32, 37, 43, 60, 65, 255}, 3) \union UpTo({65, 43, 47, 61, 51}, 4)
            \union {<<65, 65, 65, 65>> \o s : s \in UpTo({61, 66}, 4)}
TheMessages == {[i \in 1 .. n |-> i] : n \in {0, 1, 55, 56, 63, 64, 65, 128}}

TheScripts == UpTo({"#", "!", "/", " ", "newline"}, 4) \union
              {s \o <<"#", "!", "/">> \o t : s \in UpTo({"#", "a", "newline"}, 1), t \in UpTo({" ", "newline", "a", "(", ")"}, 4)}

TheArguments ==
  {<<<<"s">>>> \o s :
     s \in UpTo({<<"-">>, <<"-", "v", "1", ",", "-", "m", "2">>, <<"-", "h", "9", ":", "2", ",", "-">>, <<"-", "m", "3">>, <<"-", "z">>,
                 <<"a", "\"", "\\">>, <<"(", "a", ")">>, <<"s", "i", "o", "d", "_", "r", "e", "p", "l">>}, 3)}
=============================================================================
