-------------------------------- MODULE Parser --------------------------------
(***************************************************************************)
(* policy.Parse: splitTokens over each line, byte by byte, then setDefault *)
(* or parseRule on the line's tokens.  A behaviour parses one policy text. *)
(*                                                                         *)
(* A run of bytes that keyRe accepts whole is one symbol (a word), as is   *)
(* an operator; a line is a sequence of symbols, and so are a token and a  *)
(* value.                                                                  *)
(***************************************************************************)
EXTENDS Integers, Sequences

CONSTANTS
  Texts,         \* policy texts: sequences of lines
  Symbols,       \* what a line is made of
  Words,         \* symbols made of bytes a key may hold
  Numbers,       \* values strconv.ParseFloat accepts
  BadRegexes     \* values regexp.Compile refuses

Effects   == {"allow", "deny", "ask"}
Operators == {"=", "!=", "~", "<", ">"}
Reserved  == {"action", "agent", "reason"}

Marks     == {":", "#", " ", "\"", "\\"}

ASSUME WordAssumption ==
  /\ Effects \cup Reserved \cup {"default"} \subseteq Words
  /\ Words \cap (Operators \cup Marks) = {}
  /\ Words \cup Operators \cup Marks \subseteq Symbols

ASSUME TextAssumption == \A tx \in Texts : tx \in Seq(Seq(Symbols))

VARIABLES
  text, line,       \* Parse's argument and the number of the line it is at
  at,               \* splitTokens: the next symbol of the line
  toks, cur,        \* the tokens so far, and the one being built
  inQuote, started,
  policy,           \* rules, default and defaultLine so far
  answer            \* "running", "ok" or "error"

scan == <<toks, cur, inQuote, started>>
vars == <<text, line, at, toks, cur, inQuote, started, policy, answer>>

Init ==
  /\ text \in Texts
  /\ line = 1 /\ at = 1
  /\ toks = <<>> /\ cur = <<>>
  /\ inQuote = FALSE /\ started = FALSE
  /\ policy = [rules |-> <<>>, default |-> "ask", defaultLine |-> 0]
  /\ answer = "running"

-----------------------------------------------------------------------------
\* splitTokens: one symbol of the line, by the first case that holds.

raw == text[line]
InLine == answer = "running" /\ line <= Len(text)
Scanning == InLine /\ at <= Len(raw)
c == raw[at]

\* Inside quotes a backslash escapes a quote and itself; before anything else it stays.
Escape ==
  /\ Scanning /\ inQuote /\ c = "\\" /\ at < Len(raw)
  /\ IF raw[at + 1] \in {"\"", "\\"}
     THEN cur' = Append(cur, raw[at + 1]) /\ at' = at + 2
     ELSE cur' = Append(cur, c) /\ at' = at + 1
  /\ UNCHANGED <<text, line, toks, inQuote, started, policy, answer>>

ToggleQuote ==
  /\ Scanning /\ c = "\""
  /\ inQuote' = ~inQuote
  /\ started' = TRUE
  /\ at' = at + 1
  /\ UNCHANGED <<text, line, toks, cur, policy, answer>>

\* Mutant: a '#' is a comment inside quotes too.
CommentAnywhere ==
  /\ Scanning /\ c = "#"
  /\ at' = Len(raw) + 1
  /\ UNCHANGED <<text, line, scan, policy, answer>>

Comment ==
  /\ Scanning /\ ~inQuote /\ c = "#"
  /\ at' = Len(raw) + 1
  /\ UNCHANGED <<text, line, scan, policy, answer>>

\* Mutant: the token being built is not reset.
BlankKeeps ==
  /\ Scanning /\ ~inQuote /\ c = " "
  /\ toks' = IF started THEN Append(toks, cur) ELSE toks
  /\ started' = FALSE
  /\ at' = at + 1
  /\ UNCHANGED <<text, line, cur, inQuote, policy, answer>>

Blank ==
  /\ Scanning /\ ~inQuote /\ c = " "
  /\ toks' = IF started THEN Append(toks, cur) ELSE toks
  /\ cur' = <<>>
  /\ started' = FALSE
  /\ at' = at + 1
  /\ UNCHANGED <<text, line, inQuote, policy, answer>>

Special(quoted) == IF quoted THEN {"\"", "\\"} ELSE {"\"", "#", " "}

Copy ==
  /\ Scanning
  /\ c \notin Special(inQuote) \/ (inQuote /\ c = "\\" /\ at = Len(raw))
  /\ cur' = Append(cur, c)
  /\ started' = TRUE
  /\ at' = at + 1
  /\ UNCHANGED <<text, line, toks, inQuote, policy, answer>>

-----------------------------------------------------------------------------
\* parseMatcher.

\* keyRe.FindString: the longest run of words at the start.
KeyLength(tok) ==
  CHOOSE k \in 0..Len(tok) :
    /\ \A j \in 1..k : tok[j] \in Words
    /\ k < Len(tok) => tok[k + 1] \notin Words

Bad == [kind |-> "error"]

ParseMatcher(tok) ==
  LET k     == KeyLength(tok)
      key   == SubSeq(tok, 1, k)
      op    == tok[k + 1]
      value == SubSeq(tok, k + 2, Len(tok))
      named == \E w \in Reserved : key = <<w>>
  IN IF k = 0 \/ k = Len(tok) THEN Bad
     ELSE CASE op = ":" ->
                 IF value # <<>> /\ named THEN [kind |-> key[1], value |-> value] ELSE Bad
            [] op \in Operators /\ ~named /\ value # <<>> ->
                 IF \/ op = "~" /\ value \in BadRegexes
                    \/ op \in {"<", ">"} /\ value \notin Numbers
                 THEN Bad
                 ELSE [kind |-> "param", key |-> key, op |-> op, value |-> value]
            [] OTHER -> Bad

\* parseEffect
IsEffect(tok) == \E w \in Effects : tok = <<w>>

\* What a loop that goes through s, and takes what is at the positions in P, has
\* taken up to each of them; and when it is through.
Picking(s, P) ==
  LET picked[i \in 0..Len(s)] ==
        IF i = 0 THEN <<>>
        ELSE IF i \in P THEN Append(picked[i - 1], s[i]) ELSE picked[i - 1]
  IN  picked

Picks(s, P) == Picking(s, P)[Len(s)]

\* parseRule: what its tokens after the effect are, or an error.
Parts(ts) == [j \in 1..(Len(ts) - 1) |-> ParseMatcher(ts[j + 1])]

ReasonsIn(ps)  == Picks(ps, {j \in DOMAIN ps : ps[j].kind = "reason"})
MatchersIn(ps) == Picks(ps, {j \in DOMAIN ps : ps[j].kind \in {"action", "agent", "param"}})

RuleOK(ts) ==
  /\ IsEffect(ts[1])
  /\ \A j \in DOMAIN Parts(ts) : Parts(ts)[j] # Bad
  /\ Len(ReasonsIn(Parts(ts))) <= 1
  /\ MatchersIn(Parts(ts)) # <<>>

\* Mutant: lines are numbered from 0.
ParseRuleFromZero(ts) ==
  [effect   |-> ts[1][1],
   line     |-> line - 1,
   reason   |-> ReasonsIn(Parts(ts)),
   matchers |-> MatchersIn(Parts(ts))]

ParseRule(ts) ==
  [effect   |-> ts[1][1],
   line     |-> line,
   reason   |-> ReasonsIn(Parts(ts)),
   matchers |-> MatchersIn(Parts(ts))]

\* Mutant: the last default wins.
DefaultAnyTime(ts) == Len(ts) = 2 /\ IsEffect(ts[2])

\* setDefault
DefaultOK(ts) == policy.defaultLine = 0 /\ Len(ts) = 2 /\ IsEffect(ts[2])

-----------------------------------------------------------------------------
\* Parse, at the end of a line: all its tokens, or the first error.

AtEnd == InLine /\ at > Len(raw)
Tokens == IF started THEN Append(toks, cur) ELSE toks
IsDefault(ts) == ts[1] = <<"default">>

NextLine ==
  /\ line' = line + 1
  /\ at' = 1
  /\ toks' = <<>> /\ cur' = <<>>
  /\ started' = FALSE
  /\ UNCHANGED <<text, inQuote, answer>>

Fail ==
  /\ answer' = "error"
  /\ UNCHANGED <<text, line, at, scan, policy>>

Unterminated == AtEnd /\ inQuote /\ Fail

SkipLine ==
  /\ AtEnd /\ ~inQuote /\ Tokens = <<>>
  /\ NextLine
  /\ UNCHANGED policy

SetDefault ==
  /\ AtEnd /\ ~inQuote /\ Tokens # <<>> /\ IsDefault(Tokens)
  /\ \/ /\ DefaultOK(Tokens)
        /\ policy' = [policy EXCEPT !.default = Tokens[2][1], !.defaultLine = line]
        /\ NextLine
     \/ ~DefaultOK(Tokens) /\ Fail

AddRule ==
  /\ AtEnd /\ ~inQuote /\ Tokens # <<>> /\ ~IsDefault(Tokens)
  /\ \/ /\ RuleOK(Tokens)
        /\ policy' = [policy EXCEPT !.rules = Append(@, ParseRule(Tokens))]
        /\ NextLine
     \/ ~RuleOK(Tokens) /\ Fail

Finish ==
  /\ answer = "running" /\ line > Len(text)
  /\ answer' = "ok"
  /\ UNCHANGED <<text, line, at, scan, policy>>

Next ==
  \/ Escape \/ ToggleQuote \/ Comment \/ Blank \/ Copy
  \/ Unterminated \/ SkipLine \/ SetDefault \/ AddRule \/ Finish

Spec == Init /\ [][Next]_vars

-----------------------------------------------------------------------------
(***************************************************************************)
(* The same language as docs/policy.md tells it, except that a reason may  *)
(* stand anywhere after the effect, as it may in the code (parse.go:97);   *)
(* the grammar there has it last.  First a line's tokens, from what each   *)
(* of its symbols is part of.                                              *)
(***************************************************************************)
Modes(l) ==
  LET mode[i \in 0..Len(l)] ==
        IF i = 0 THEN "plain"
        ELSE LET before == mode[i - 1] IN
             CASE before = "escape" -> "quoted"
               [] /\ before = "quoted" /\ l[i] = "\\"
                  /\ i < Len(l) /\ l[i + 1] \in {"\"", "\\"} -> "escape"
               [] before = "quoted" /\ l[i] = "\"" -> "plain"
               [] before = "plain"  /\ l[i] = "\"" -> "quoted"
               [] before = "plain"  /\ l[i] = "#"  -> "comment"
               [] OTHER -> before
  IN  mode

Unclosed(l) == Modes(l)[Len(l)] = "quoted"

Separates(l, i) ==
  \/ i = 0
  \/ Modes(l)[i] = "comment"
  \/ Modes(l)[i - 1] = "plain" /\ l[i] = " "

\* Neither a quote that opens or closes, nor the backslash of an escape.
IsText(l, i) ==
  \/ Modes(l)[i - 1] = "escape"
  \/ Modes(l)[i - 1] = Modes(l)[i] /\ ~Separates(l, i)

Positions(l) == [i \in 1..Len(l) |-> i]

\* The text from i up to the next symbol that separates.
TextFrom(l, i) == {j \in i..Len(l) : IsText(l, j) /\ \A k \in i..j : ~Separates(l, k)}

Starts(l) == {i \in 1..Len(l) : ~Separates(l, i) /\ Separates(l, i - 1)}

TokensOf(l) ==
  LET starts == Picks(Positions(l), Starts(l))
  IN  [j \in DOMAIN starts |-> Picks(l, TextFrom(l, starts[j]))]

\* Then the grammar, over tokens.
IsMatcherToken(t) ==
  \E k \in 1..(Len(t) - 2) :
    LET op == t[k + 1]  value == SubSeq(t, k + 2, Len(t)) IN
    /\ \A j \in 1..k : t[j] \in Words
    /\ \/ op = ":" /\ k = 1 /\ t[1] \in {"action", "agent"}
       \/ /\ op \in Operators
          /\ k = 1 => t[1] \notin Reserved
          /\ op = "~" => value \notin BadRegexes
          /\ op \in {"<", ">"} => value \in Numbers

IsReasonToken(t) == Len(t) > 2 /\ t[1] = "reason" /\ t[2] = ":"

EmptyLine(ts)   == ts = <<>>
DefaultLine(ts) == ts \in {<<<<"default">>, <<e>>>> : e \in Effects}
RuleLine(ts) ==
  /\ Len(ts) > 1 /\ ts[1] \in {<<e>> : e \in Effects}
  /\ \A j \in 2..Len(ts) : IsMatcherToken(ts[j]) \/ IsReasonToken(ts[j])
  /\ \E j \in 2..Len(ts) : IsMatcherToken(ts[j])
  /\ \A j, k \in 2..Len(ts) : IsReasonToken(ts[j]) /\ IsReasonToken(ts[k]) => j = k

Grammatical(tx) ==
  /\ \A n \in DOMAIN tx :
       /\ ~Unclosed(tx[n])
       /\ LET ts == TokensOf(tx[n]) IN EmptyLine(ts) \/ DefaultLine(ts) \/ RuleLine(ts)
  /\ \A m, n \in DOMAIN tx : DefaultLine(TokensOf(tx[m])) /\ DefaultLine(TokensOf(tx[n])) => m = n

\* The token a matcher was read from.
Written(m) ==
  IF m.kind = "param" THEN m.key \o <<m.op>> \o m.value ELSE <<m.kind, ":">> \o m.value

MatcherTokens(ts) == Picks(ts, {j \in 2..Len(ts) : IsMatcherToken(ts[j])})
ReasonTokens(ts)  == Picks(ts, {j \in 2..Len(ts) : IsReasonToken(ts[j])})

\* ps are what these tokens say.
Says(ps, tokens) == [j \in DOMAIN ps |-> Written(ps[j])] = tokens

\* The scan stays inside the line, a token that has not begun is empty, and no rule
\* that would hold of every request is ever made.
TypeOK ==
  /\ line \in 1..(Len(text) + 1)
  /\ InLine => at \in 1..(Len(raw) + 1)
  /\ ~started => cur = <<>>
  /\ inQuote => started
  /\ \A k \in DOMAIN policy.rules : policy.rules[k].matchers # <<>>
  /\ policy.default \in Effects
  /\ answer \in {"running", "ok", "error"}

\* At its end a line is split as its quotes, escapes, blanks and comment say: no
\* symbol of a value is lost, moved to another token or read as a comment.
SplitRight ==
  AtEnd =>
    /\ inQuote <=> Unclosed(raw)
    /\ ~inQuote => Tokens = TokensOf(raw)

\* A text is a policy when every line of it is grammatical and one at most sets the
\* default; anything else is an error, never a policy with a line left out.
AllOrNothing == answer # "running" => (answer = "ok" <=> Grammatical(text))

\* The policy says what the text says: the rules of its rule lines in their order,
\* each matcher and the reason as they were written, under its own line number; and
\* its default.
PolicyRead ==
  answer = "ok" =>
    LET ruleLines == Picks(Positions(text), {n \in DOMAIN text : RuleLine(TokensOf(text[n]))})
        defaults  == {n \in DOMAIN text : DefaultLine(TokensOf(text[n]))}
    IN /\ Len(policy.rules) = Len(ruleLines)
       /\ \A k \in DOMAIN ruleLines :
            LET ts == TokensOf(text[ruleLines[k]])  r == policy.rules[k] IN
            /\ r.line = ruleLines[k]
            /\ <<r.effect>> = ts[1]
            /\ Says(r.matchers, MatcherTokens(ts))
            /\ Says(r.reason, ReasonTokens(ts))
       /\ IF defaults = {} THEN policy.default = "ask"
          ELSE \E n \in defaults : <<policy.default>> = TokensOf(text[n])[2]

=============================================================================
