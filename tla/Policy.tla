-------------------------------- MODULE Policy --------------------------------
(***************************************************************************)
(* Policy.Evaluate: rules from top to bottom, a rule's matchers from left  *)
(* to right, a dotted path key by key through the request's JSON params.   *)
(* A behaviour evaluates one request against one parsed policy.            *)
(*                                                                         *)
(* What the walk tells apart is kept: the kind of a JSON value, the text   *)
(* of a rule literal, the number either stands for.  A glob is the set of  *)
(* names it covers (module Glob says how) and a regexp the set of texts it *)
(* finds a match in.                                                       *)
(***************************************************************************)
EXTENDS Integers, Sequences

CONSTANTS
  Policies,      \* parsed policies: [rules, default]
  Values,        \* JSON values that a request's params may hold
  Requests,      \* requests: [agent, action, params]
  NumberOf,      \* strconv.ParseFloat of a literal, or NotANumber
  TextOf,        \* strconv.FormatFloat(x, 'f', -1, 64)
  NotANumber     \* a parse error; NaN too, which no comparison is true of

Effects == {"allow", "deny", "ask"}

Kinds   == {"string", "number", "bool", "null", "array", "object"}

\* A parameter's path has one key at least (strings.Split).
IsMatcher(m) ==
  /\ m.kind \in {"action", "agent", "param"}
  /\ m.kind = "param" => m.path \in Seq(STRING) /\ m.path # <<>>

IsRule(r) ==
  /\ r.effect \in Effects
  /\ r.matchers \in Seq({r.matchers[j] : j \in DOMAIN r.matchers}) /\ r.matchers # <<>>
  /\ \A j \in DOMAIN r.matchers : IsMatcher(r.matchers[j])

ASSUME PolicyAssumption ==
  \A p \in Policies :
    /\ p.default \in Effects
    /\ p.rules \in Seq({p.rules[k] : k \in DOMAIN p.rules})
    /\ \A k \in DOMAIN p.rules : IsRule(p.rules[k])

\* A decoded JSON value is a string, number, bool, null, array or object, and what
\* an object holds are values.
ASSUME ValueAssumption ==
  \A v \in Values :
    /\ v.kind \in Kinds
    /\ v.kind = "number" => v.num \in DOMAIN TextOf
    /\ v.kind = "object" => \A key \in DOMAIN v.fields : v.fields[key] \in Values

ASSUME RequestAssumption ==
  \A r \in Requests : r.params \in Values /\ r.params.kind = "object"

\* The shortest text of a float parses back to it.
ASSUME NumberAssumption == \A x \in DOMAIN TextOf : NumberOf[TextOf[x]] = x

VARIABLES
  policy, in,    \* the receiver and the argument
  rule,          \* Evaluate's index
  matcher,       \* Matches' index
  depth, cur,    \* lookup's: keys walked, value reached
  answer         \* "running", or the effect decided

vars == <<policy, in, rule, matcher, depth, cur, answer>>

Init ==
  /\ policy \in Policies
  /\ in \in Requests
  /\ rule = 1 /\ matcher = 1
  /\ depth = 0 /\ cur = in.params
  /\ answer = "running"

-----------------------------------------------------------------------------
\* The matchers, on a value that was found.

TextOfBool(b) == IF b THEN "true" ELSE "false"

\* Mutant: numbers are compared by their text.
ScalarEqByText(v, want) ==
  \/ v.kind = "string" /\ v.text = want
  \/ v.kind = "number" /\ TextOf[v.num] = want
  \/ v.kind = "bool"   /\ TextOfBool(v.bool) = want
  \/ v.kind = "null"   /\ want = "null"

ScalarEq(v, want) ==
  \/ v.kind = "string" /\ v.text = want
  \/ v.kind = "number" /\ NumberOf[want] = v.num
  \/ v.kind = "bool"   /\ TextOfBool(v.bool) = want
  \/ v.kind = "null"   /\ want = "null"

ScalarString(v) ==
  CASE v.kind = "string" -> {v.text}
    [] v.kind = "number" -> {TextOf[v.num]}
    [] v.kind = "bool"   -> {TextOfBool(v.bool)}
    [] OTHER             -> {}

Compare(m, v) ==
  \/ m.op = "="  /\ ScalarEq(v, m.value)
  \/ m.op = "!=" /\ ~ScalarEq(v, m.value)
  \/ m.op = "~"  /\ ScalarString(v) \cap m.texts # {}
  \/ m.op = "<"  /\ v.kind = "number" /\ m.num # NotANumber /\ v.num < m.num
  \/ m.op = ">"  /\ v.kind = "number" /\ m.num # NotANumber /\ v.num > m.num

-----------------------------------------------------------------------------
Rule    == policy.rules[rule]
Running == answer = "running"
InRules == Running /\ rule <= Len(policy.rules)
AtMatcher == InRules /\ matcher <= Len(Rule.matchers)
M == Rule.matchers[matcher]

\* Mutant: the next path is walked from where the last one ended.
NextMatcherFromHere ==
  /\ matcher' = matcher + 1
  /\ depth' = 0
  /\ UNCHANGED <<rule, cur>>

NextMatcher ==
  /\ matcher' = matcher + 1
  /\ depth' = 0
  /\ cur' = in.params
  /\ UNCHANGED rule

\* One matcher that does not hold is enough to leave the rule.
NextRule ==
  /\ rule' = rule + 1
  /\ matcher' = 1
  /\ depth' = 0
  /\ cur' = in.params

\* action: and agent: are globs on the request's own fields.
MatchName ==
  /\ AtMatcher /\ M.kind \in {"action", "agent"}
  /\ IF in[M.kind] \in M.covers THEN NextMatcher ELSE NextRule
  /\ UNCHANGED <<policy, in, answer>>

Walking == AtMatcher /\ M.kind = "param" /\ depth < Len(M.path)

Found(v, key) == v.kind = "object" /\ key \in DOMAIN v.fields

Walk ==
  /\ Walking
  /\ Found(cur, M.path[depth + 1])
  /\ cur' = cur.fields[M.path[depth + 1]]
  /\ depth' = depth + 1
  /\ UNCHANGED <<policy, in, rule, matcher, answer>>

\* Mutant: a key that is not there is not equal to anything.
WalkFailsOpen ==
  /\ Walking
  /\ ~Found(cur, M.path[depth + 1])
  /\ IF M.op = "!=" THEN NextMatcher ELSE NextRule
  /\ UNCHANGED <<policy, in, answer>>

\* A key that is not there, or a step through something that is not an object.
WalkFails ==
  /\ Walking
  /\ ~Found(cur, M.path[depth + 1])
  /\ NextRule
  /\ UNCHANGED <<policy, in, answer>>

MatchParam ==
  /\ AtMatcher /\ M.kind = "param" /\ depth = Len(M.path)
  /\ IF Compare(M, cur) THEN NextMatcher ELSE NextRule
  /\ UNCHANGED <<policy, in, answer>>

\* Every matcher held.
Decide ==
  /\ InRules /\ matcher > Len(Rule.matchers)
  /\ answer' = Rule.effect
  /\ UNCHANGED <<policy, in, rule, matcher, depth, cur>>

Default ==
  /\ Running /\ rule > Len(policy.rules)
  /\ answer' = policy.default
  /\ UNCHANGED <<policy, in, rule, matcher, depth, cur>>

Next == MatchName \/ Walk \/ WalkFails \/ MatchParam \/ Decide \/ Default

Spec == Init /\ [][Next]_vars

-----------------------------------------------------------------------------
(***************************************************************************)
(* The same language as docs/policy.md tells it: what a matcher means for  *)
(* a request, and which rule decides.                                      *)
(***************************************************************************)
IsScalar(v) == v.kind \notin {"array", "object"}

Canonical(v) ==
  CASE v.kind = "null" -> {"null"} [] OTHER -> ScalarString(v)

Equal(v, want) ==
  /\ IsScalar(v)
  /\ \/ want \in Canonical(v)
     \/ v.kind = "number" /\ NumberOf[want] = v.num

\* The values n keys down a path: one, or none.
Reach(params, path) ==
  LET reach[n \in 0..Len(path)] ==
        IF n = 0 THEN {params}
        ELSE {v.fields[path[n]] : v \in {o \in reach[n - 1] :
                o.kind = "object" /\ path[n] \in DOMAIN o.fields}}
  IN  reach

At(params, path) == Reach(params, path)[Len(path)]

Means(m, r) ==
  IF m.kind # "param" THEN r[m.kind] \in m.covers
  ELSE \E v \in At(r.params, m.path) :
         \/ m.op = "="  /\ Equal(v, m.value)
         \/ m.op = "!=" /\ ~Equal(v, m.value)
         \/ m.op = "~"  /\ v.kind # "null" /\ IsScalar(v) /\ Canonical(v) \subseteq m.texts
         \/ /\ m.op \in {"<", ">"} /\ v.kind = "number" /\ m.num # NotANumber
            /\ IF m.op = "<" THEN v.num < m.num ELSE v.num > m.num

Applies(k, r) ==
  \A j \in DOMAIN policy.rules[k].matchers : Means(policy.rules[k].matchers[j], r)

\* Whether rule k decides request r; the one after the last stands for default.
Decides(k, r) ==
  /\ k \in 1..(Len(policy.rules) + 1)
  /\ k <= Len(policy.rules) => Applies(k, r)
  /\ \A j \in 1..(k - 1) : ~Applies(j, r)

\* The walk stays inside the policy and restarts from the params every time.
TypeOK ==
  /\ rule \in 1..(Len(policy.rules) + 1)
  /\ InRules => matcher \in 1..(Len(Rule.matchers) + 1)
  /\ AtMatcher /\ M.kind = "param" =>
       depth \in 0..Len(M.path) /\ cur \in Reach(in.params, M.path)[depth]
  /\ answer \in {"running"} \cup Effects

\* The first rule whose matchers all hold decides, whatever the matchers before
\* it, the values they met and the place they failed at; no rule: the default.
FirstMatchDecides ==
  ~Running =>
    /\ Decides(rule, in)
    /\ answer = IF rule <= Len(policy.rules) THEN Rule.effect ELSE policy.default

\* A request satisfies no rule that a fuller one, with more top-level params, does
\* not: the fuller one is decided no later in the policy ("otherwise omitting a
\* param would be a way to satisfy inequality rules").  A request may still get
\* past a deny rule by leaving its parameter out, and meet a later rule.
Fuller(r) ==
  {f \in Requests : /\ f.agent = r.agent /\ f.action = r.action
                    /\ \A key \in DOMAIN r.params.fields :
                         /\ key \in DOMAIN f.params.fields
                         /\ f.params.fields[key] = r.params.fields[key]}

OmissionNeverHelps ==
  ~Running => \A f \in Fuller(in) : \E k \in 1..rule : Decides(k, f)

\* policy.go: "a missing parameter, a type mismatch ... never satisfies a rule";
\* docs/policy.md: "arrays and objects never match scalar operators".
CompositesFailClosed ==
  ~Running /\ rule <= Len(policy.rules) =>
    \A j \in DOMAIN Rule.matchers :
      Rule.matchers[j].kind = "param" =>
        \A v \in At(in.params, Rule.matchers[j].path) : IsScalar(v)

=============================================================================
