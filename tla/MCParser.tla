------------------------------- MODULE MCParser -------------------------------
(***************************************************************************)
(* Policy texts for Parser: every short line of quotes, escapes, blanks    *)
(* and comments; every short matcher; every pair of parts of a rule; and   *)
(* every order of a few lines.                                             *)
(***************************************************************************)
EXTENDS Parser

SomeWords == {"allow", "deny", "ask", "default", "action", "agent", "reason", "n", "5"}

SomeSymbols == SomeWords \cup Operators \cup Marks \cup {"("}

Lines(symbols, n) == UNION {[1..k -> symbols] : k \in 0..n}

Layouts == Lines({"n", " ", "\"", "\\", "#"}, 6)

\* Pieces of a rule, and what stands after its effect.
Matchers ==
  {<<"action", ":", "n">>, <<"agent", ":", "\"", "#", "\"">>, <<"n", "=", "5">>,
   <<"n", "!=", "n">>, <<"n", "n", "<", "5">>, <<"n", "~", "\"", "\\", "\"", "\"">>}
Odd ==
  {<<"reason", ":", "n">>, <<"reason", ":">>, <<"n">>, <<"n", ">", "n">>, <<"n", "~", "(">>,
   <<"agent", "=", "n">>, <<"n", ":", "5">>, <<"\"", "\"">>, <<"#", "n">>}

Pieces  == Matchers \cup Odd
Effect  == {<<"allow">>, <<"\"", "deny", "\"">>, <<"n">>}
Shapes  == {<<"ask", " ">> \o t : t \in Lines({"action", "reason", "n", "5", ":", "=", "<", "~", "("}, 4)}
Pairs   == {e \o <<" ">> \o p \o <<" ">> \o q : e \in Effect, p \in Pieces, q \in Pieces}

SomeLines ==
  {<<>>, <<"#", "n">>, <<"default", " ", "deny">>, <<"default", " ", "ask", " ">>, <<"default">>,
   <<"default", " ", "n">>, <<"allow", " ", "n", "=", "5", "#", "n">>,
   <<"deny", " ", " ", "action", ":", "n", " ", "reason", ":", "n">>}

SomeTexts ==
  {<<l>> : l \in Layouts \cup Shapes \cup Pairs} \cup Lines(SomeLines, 3)

SomeNumbers    == {<<"5">>}
SomeBadRegexes == {<<"(">>}

=============================================================================
