------------------------------- MODULE MCPolicy -------------------------------
(***************************************************************************)
(* Small policies and requests for Policy: every operator, on a top-level  *)
(* key and on a nested one, against every kind of JSON value.              *)
(***************************************************************************)
EXTENDS Policy

Numerals == [t \in {"5", "5.0", "on", "true", "null"} |->
               IF t \in {"5", "5.0"} THEN 5 ELSE NotANumber]
Numbers  == [n \in {5} |-> "5"]

Str(t)     == [kind |-> "string", text |-> t]
Num(n)     == [kind |-> "number", num |-> n]
Bool(b)    == [kind |-> "bool", bool |-> b]
Null       == [kind |-> "null"]
Array      == [kind |-> "array"]
Object(fs) == [kind |-> "object", fields |-> fs]

Amounts == {Str("5"), Str("on"), Num(5), Bool(TRUE), Null, Array}
Users   == {Str("on"), Object([k \in {} |-> Null])}
             \cup {Object([k \in {"role"} |-> v]) : v \in {Str("5"), Num(5), Null}}

ParamSets ==
  {Object([k \in {} |-> Null])}
    \cup {Object([k \in {"amount"} |-> a]) : a \in Amounts}
    \cup {Object([k \in {"user"} |-> u]) : u \in Users}
    \cup {Object([k \in {"amount", "user"} |-> IF k = "user" THEN u ELSE a]) :
            a \in Amounts, u \in Users}

SomeValues == Amounts \cup Users \cup ParamSets

SomeRequests ==
  {[agent |-> "bot", action |-> a, params |-> p] : a \in {"pay", "ship"}, p \in ParamSets}

Param(path, op) == [kind |-> "param", path |-> path, op |-> op]

Paths == {<<"amount">>, <<"user", "role">>}

Literals(op) == IF op = "=" THEN {"5.0", "on", "true", "null"} ELSE {"5.0", "on"}

Compared == UNION {{[kind |-> "param", path |-> p, op |-> op, value |-> t] :
                      p \in Paths, t \in Literals(op)} : op \in {"=", "!="}}
Searched == {[kind |-> "param", path |-> p, op |-> "~", texts |-> ts] :
               p \in Paths, ts \in {{"5"}, {"on", "true", "null"}}}
Bounds(op) == {5, NotANumber, IF op = "<" THEN 6 ELSE 4}
Ranged   == UNION {{[kind |-> "param", path |-> p, op |-> op, num |-> n] :
                      p \in Paths, n \in Bounds(op)} : op \in {"<", ">"}}
Named    == {[kind |-> "action", covers |-> {"pay"}], [kind |-> "agent", covers |-> {"ci"}]}

Matchers == Compared \cup Searched \cup Ranged \cup Named

RuleOf(effect, ms) == [effect |-> effect, matchers |-> ms]

\* One rule with one or two matchers, or two rules with one each.
SomePolicies ==
  LET one == {<<RuleOf("allow", <<m>>)>> : m \in Matchers}
      and == {<<RuleOf("allow", <<m, n>>)>> : m, n \in Matchers}
      two == {<<RuleOf("deny", <<m>>), RuleOf("allow", <<n>>)>> : m, n \in Matchers}
  IN  {[rules |-> rs, default |-> "ask"] : rs \in one \cup and \cup two}

=============================================================================
