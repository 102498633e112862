----------------------------- MODULE MCNashfmt -----------------------------
(* Statements for Nashfmt, alone, two by two and in the blocks of others.  *)
EXTENDS Nashfmt

Commands ==
  {<<"ls", "-l", "/p">>, <<"(", "ls", "-l", ")">>, <<"-x", "-l", "-x">>,
   <<"(", "\n", "ls", "-l", "a", "-x", "-l", "b", "\n", "f", ")">>,
   <<"(", "ls", "a", ">", "[", "2", "]", "/p", ">", "/p", ")">>,
   <<"(", "ls", ">", "[", "1", "=", "1", "]", ">", "[", "2", "]", "/p", ">", "Q", ")">>,
   <<"ls", "-l", "|", "f">>, <<"(", "ls", "|", "f", ")">>,
   <<"(", "ls", "a", "-l", "|", "\n", "f", "a", "b", ")">>,
   <<"ls", ">", "[", "2", "=", "1", "]">>, <<"ls", ">", "[", "2", "=", "]", ">", "/p">>,
   <<"ls", ">", "[", "1", "=", "1", "]", "/p">>, <<"ls", ">", "a", "+", "$x">>,
   <<"ls", "Q", "+", "a">>, <<"ls", "a", "+", "$x">>, <<"ls", "a+b">>, <<"ls", "$x", "...">>}

Assignments ==
  {<<"x", "=", "Q">>, <<"x", "=", "(", "a", "b", ")">>, <<"x", "=", "(", ")">>,
   <<"x", "=", "(", "a", "b", "\n", "f", "Q", ")">>,
   <<"x", "=", "(", "(", "a", ")", "b", ")">>, <<"x", ",", "a", "=", "Q", ",", "$x">>,
   <<"x", ",", "a", ",", "b", "=", "Q", ",", "Q", ",", "Q">>,
   <<"x", "[", "0", "]", "=", "$x", "[", "$x", "]">>, <<"x", "=", "$x", "+", "Q", "+", "1">>,
   <<"x", "=", "$x", "+", "1", "+", "Q">>, <<"x", "=", "Q", "+", "a">>,
   <<"x", "=", "Q", "+", "f", "(", ")">>,
   <<"x", "<=", "ls", "-l">>, <<"x", "<=", "(", "ls", "a", "-l", "-x", ")">>,
   <<"x", ",", "a", "<=", "f", "(", "Q", ",", "$x", "...", ")">>, <<"x", "<=", "ls", "|", "f">>,
   <<"setenv", "x">>, <<"setenv", "x", "=", "Q">>, <<"setenv", "x", "<=", "ls">>,
   <<"var", "x", "=", "Q">>, <<"var", "x", "<=", "ls">>}

Others ==
  {<<"f", "(", ")">>, <<"f", "(", "(", "a", "b", ")", ",", "$x", ")">>,
   <<"f", "(", "(", "a", ")", "...", ")">>, <<"$x", "(", "Q", ")">>,
   <<"import", "/p">>, <<"import", "Q">>, <<"bindfn", "f", "ls">>,
   <<"return">>, <<"return", "$x">>, <<"return", "(", "a", "b", ")", ",", "Q">>,
   <<"return", "f", "(", ")">>, <<"rfork", "a">>, <<"#c">>, <<"#!">>,
   <<"for", "{", "ls", "}">>, <<"for", "x", "in", "(", "a", "b", ")", "{", "\n", "}">>,
   <<"for", "x", "in", "f", "(", ")", "{", "}">>, <<"fn", "f", "(", ")", "{", "}">>,
   <<"fn", "(", "x", ")", "{", "\n", "}">>, <<"fn", "(", ")", "{", "}">>,
   <<"if", "$x", "==", "Q", "{", "ls", "}">>, <<"ls", "a">> \o <<"#c">>, <<"x", "=", "Q", "#c">>,
   <<"x", "=">>, <<"ls", "}">>}

(* Strings with a tab or a carriage return, as it is or escaped. *)
Controls ==
  {<<"x", "=", "Q\t">>, <<"ls", "Q\\t", "+", "a">>, <<"x", "=", "Q\r">>,
   <<"import", "Q\\015">>, <<"f", "(", "Q\\r", ",", "Q\r", ")">>,
   <<"ls", ">", "[", "2", "]", "Q\\r">>,
   <<"if", "Q\t", "==", "Q\\t", "{", "ls", "Q\\015", "}">>}

Statements == Commands \cup Assignments \cup Others \cup Controls

(* One of each sort, for the statement before or behind another. *)
Neighbours ==
  {<<"#c">>, <<"#!">>, <<"ls">>, <<"(", "ls", "a", "-l", "-x", ")">>, <<"x", "=", "Q">>,
   <<"x", "=", "(", "(", "a", ")", ")">>, <<"var", "x", "=", "Q">>, <<"f", "(", ")">>,
   <<"fn", "f", "(", "x", ",", "b", "...", ")", "{", "ls", "}">>}

Gaps == {<<"\n">>, <<"\n", "\n">>}

Blocks ==
  {<< <<"fn", "f", "(", "x", ")", "{">>, <<"\n", "}">> >>,
   << <<"rfork", "a", "{", "\n">>, <<"\n", "}", "\n">> >>,
   << <<"for", "x", "in", "$x", "{", "\n">>, <<"\n", "\n", "}">> >>,
   << <<"if", "$x", "==", "Q", "+", "a", "{", "\n">>,
      <<"\n", "}", "else", "if", "a", "+", "Q", "!=", "$x", "{", "}">> >>,
   << <<"if", "$x", "!=", "f", "(", ")", "{", "ls", "}", "else", "{">>, <<"\n", "}">> >>}

MCTexts ==
  LET Two == {<<s, t>> : s \in Statements, t \in Neighbours}
             \cup {<<t, s>> : s \in Statements, t \in Neighbours}
  IN  Statements
      \cup {p[1] \o g \o p[2] \o <<"\n">> : p \in Two, g \in Gaps}
      \cup {b[1] \o s \o b[2] : s \in Statements, b \in Blocks}
      \cup {<<"#c", "\n">> \o b[1] \o <<"#c">> \o g \o s \o b[2] :
              s \in Statements, b \in Blocks, g \in Gaps}
=============================================================================
