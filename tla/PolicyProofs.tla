---------------------------- MODULE PolicyProofs -----------------------------
(***************************************************************************)
(* Evaluate for every policy, every request and every depth of JSON: the   *)
(* walk of the rules decides what the meaning of the rules says, and no    *)
(* request gains by leaving a parameter out.                               *)
(***************************************************************************)
EXTENDS Policy, Induction

-----------------------------------------------------------------------------
\* What Reach and At mean, key by key.

\* The values one key further down than those of a set.
Down(key, vs) ==
  {v.fields[key] : v \in {o \in vs : o.kind = "object" /\ key \in DOMAIN o.fields}}

\* f is Reach, for the first l keys of the path.
Walks(f, params, path, l) ==
  f = [n \in 0..l |-> IF n = 0 THEN {params} ELSE Down(path[n], f[n - 1])]

LEMMA ReachExists ==
  ASSUME NEW params, NEW path, Len(path) \in Nat
  PROVE  \E f : Walks(f, params, path, Len(path))
  <1> DEFINE S == {l \in Nat : \E f : Walks(f, params, path, l)}
             Next_(f, n) == IF n = 0 THEN {params} ELSE Down(path[n], f[n - 1])
  <1>1. 0 \in S
    <2> DEFINE f == [n \in 0..0 |-> {params}]
    <2>1. Walks(f, params, path, 0)
      BY DEF Walks
    <2> HIDE DEF f
    <2> QED
      BY <2>1
  <1>2. ASSUME NEW l \in Nat, l \in S PROVE l + 1 \in S
    <2>1. PICK f : Walks(f, params, path, l)
      BY <1>2
    <2> DEFINE g == [n \in 0..l + 1 |->
                       IF n <= l THEN f[n] ELSE Down(path[n], f[n - 1])]
    <2>2. \A n \in 0..l : g[n] = f[n]
      OBVIOUS
    <2>3. g[l + 1] = Down(path[l + 1], f[l])
      OBVIOUS
    <2>4. \A n \in 0..l : f[n] = Next_(f, n)
      BY <2>1 DEF Walks
    <2>5. ASSUME NEW n \in 0..l + 1 PROVE g[n] = Next_(g, n)
      <3> HIDE DEF g
      <3>1. CASE n = 0
        BY <2>2, <2>4, <3>1
      <3>2. CASE n \in 1..l
        <4>1. n \in 0..l /\ n - 1 \in 0..l /\ n # 0
          BY <3>2
        <4>2. g[n] = f[n] /\ g[n - 1] = f[n - 1] /\ f[n] = Next_(f, n)
          BY <2>2, <2>4, <4>1
        <4> QED
          BY <4>1, <4>2
      <3>3. CASE n = l + 1
        <4>1. n # 0 /\ n - 1 = l /\ g[n - 1] = f[l]
          BY <2>2, <3>3
        <4> QED
          BY <2>3, <3>3, <4>1
      <3> QED
        BY <3>1, <3>2, <3>3
    <2>6. Walks(g, params, path, l + 1)
      <3>1. g = [n \in 0..l + 1 |-> g[n]]
        OBVIOUS
      <3> HIDE DEF g
      <3> QED
        BY <2>5, <3>1 DEF Walks
    <2> HIDE DEF g
    <2> QED
      BY <2>6
  <1>3. \A l \in Nat : l \in S
    <2> HIDE DEF S
    <2> QED
      BY <1>1, <1>2, Induct
  <1> QED
    BY <1>3

LEMMA ReachUnfolds ==
  ASSUME NEW params, NEW path, Len(path) \in Nat
  PROVE  /\ Reach(params, path)[0] = {params}
         /\ \A n \in 1..Len(path) :
              Reach(params, path)[n] = Down(path[n], Reach(params, path)[n - 1])
  <1> DEFINE R == Reach(params, path)
  <1>1. \E f : Walks(f, params, path, Len(path))
    BY ReachExists
  <1>2. R = CHOOSE f : Walks(f, params, path, Len(path))
    BY DEF Reach, Down, Walks
  <1> HIDE DEF R
  <1>3. Walks(R, params, path, Len(path))
    BY <1>1, <1>2
  <1>4. \A n \in 0..Len(path) : R[n] = IF n = 0 THEN {params} ELSE Down(path[n], R[n - 1])
    BY <1>3 DEF Walks
  <1> QED
    BY <1>4 DEF R

\* A key that is missed on the way is missed for good.
LEMMA LostForGood ==
  ASSUME NEW params, NEW path, Len(path) \in Nat,
         NEW n \in 0..Len(path), Reach(params, path)[n] = {}
  PROVE  At(params, path) = {}
  <1> DEFINE R == Reach(params, path)
             S == {k \in Nat : n <= k /\ k <= Len(path) => R[k] = {}}
  <1>1. 0 \in S
    OBVIOUS
  <1>2. ASSUME NEW k \in Nat, k \in S PROVE k + 1 \in S
    <2> SUFFICES ASSUME n <= k, k + 1 <= Len(path) PROVE R[k + 1] = {}
      OBVIOUS
    <2>1. R[k] = {}
      BY <1>2
    <2>2. k + 1 \in 1..Len(path) /\ (k + 1) - 1 = k
      OBVIOUS
    <2>3. R[k + 1] = Down(path[k + 1], R[k])
      BY <2>2, ReachUnfolds
    <2> QED
      BY <2>1, <2>3 DEF Down
  <1>3. \A k \in Nat : k \in S
    <2> HIDE DEF S
    <2> QED
      BY <1>1, <1>2, Induct
  <1>4. R[Len(path)] = {}
    BY <1>3
  <1> QED
    BY <1>4 DEF At

LEMMA DownOne ==
  ASSUME NEW v, NEW key
  PROVE  Down(key, {v}) = IF Found(v, key) THEN {v.fields[key]} ELSE {}
  BY DEF Down, Found

-----------------------------------------------------------------------------
\* What a matcher means of a value it finds.

Holds(m, v) ==
  \/ m.op = "="  /\ Equal(v, m.value)
  \/ m.op = "!=" /\ ~Equal(v, m.value)
  \/ m.op = "~"  /\ v.kind # "null" /\ IsScalar(v) /\ Canonical(v) \subseteq m.texts
  \/ /\ m.op \in {"<", ">"} /\ v.kind = "number" /\ m.num # NotANumber
     /\ IF m.op = "<" THEN v.num < m.num ELSE v.num > m.num

LEMMA MeansUnfolds ==
  ASSUME NEW m, NEW r
  PROVE  Means(m, r) <=> IF m.kind # "param" THEN r[m.kind] \in m.covers
                         ELSE \E v \in At(r.params, m.path) : Holds(m, v)
  BY DEF Means, Holds

\* scalarEq and the documented equality agree on every JSON value.
LEMMA EqualIsScalarEq ==
  ASSUME NEW v \in Values, NEW want
  PROVE  ScalarEq(v, want) <=> Equal(v, want)
  <1>1. v.kind \in Kinds /\ (v.kind = "number" => NumberOf[TextOf[v.num]] = v.num)
    BY ValueAssumption, NumberAssumption
  <1>2. CASE v.kind = "string"
    BY <1>2 DEF ScalarEq, Equal, IsScalar, Canonical, ScalarString
  <1>3. CASE v.kind = "number"
    BY <1>1, <1>3 DEF ScalarEq, Equal, IsScalar, Canonical, ScalarString
  <1>4. CASE v.kind = "bool"
    BY <1>4 DEF ScalarEq, Equal, IsScalar, Canonical, ScalarString
  <1>5. CASE v.kind = "null"
    BY <1>5 DEF ScalarEq, Equal, IsScalar, Canonical
  <1>6. CASE v.kind \in {"array", "object"}
    BY <1>6 DEF ScalarEq, Equal, IsScalar
  <1> QED
    BY <1>1, <1>2, <1>3, <1>4, <1>5, <1>6 DEF Kinds

LEMMA CompareIsHolds ==
  ASSUME NEW m, NEW v \in Values
  PROVE  Compare(m, v) <=> Holds(m, v)
  <1>1. ScalarEq(v, m.value) <=> Equal(v, m.value)
    BY EqualIsScalarEq
  <1>2. ScalarString(v) \cap m.texts # {} <=>
          v.kind # "null" /\ IsScalar(v) /\ Canonical(v) \subseteq m.texts
    <2>1. v.kind \in Kinds
      BY ValueAssumption
    <2>2. CASE v.kind \in {"string", "number", "bool"}
      <3>1. PICK t : ScalarString(v) = {t}
        BY <2>2 DEF ScalarString
      <3>2. Canonical(v) = {t} /\ IsScalar(v) /\ v.kind # "null"
        BY <2>2, <3>1 DEF Canonical, IsScalar
      <3> QED
        BY <3>1, <3>2
    <2>3. CASE v.kind \in {"null", "array", "object"}
      BY <2>3 DEF ScalarString, IsScalar
    <2> QED
      BY <2>1, <2>2, <2>3 DEF Kinds
  <1> QED
    BY <1>1, <1>2 DEF Compare, Holds

-----------------------------------------------------------------------------
\* Types, and where the walk of a path is.

RulesOK ==
  /\ policy \in Policies /\ in \in Requests
  /\ Len(policy.rules) \in Nat /\ DOMAIN policy.rules = 1..Len(policy.rules)
  /\ \A k \in DOMAIN policy.rules :
       LET ms == policy.rules[k].matchers IN
       /\ policy.rules[k].effect \in Effects
       /\ Len(ms) \in Nat /\ DOMAIN ms = 1..Len(ms)
       /\ \A j \in DOMAIN ms : IsMatcher(ms[j])
  /\ policy.default \in Effects
  /\ in.params \in Values /\ in.params.kind = "object"

WalkOK ==
  /\ cur \in Values
  /\ AtMatcher /\ M.kind = "param" => Reach(in.params, M.path)[depth] = {cur}

TypeInv == RulesOK /\ TypeOK /\ WalkOK

LEMMA RuleIsRule ==
  ASSUME NEW r, IsRule(r)
  PROVE  /\ r.effect \in Effects
         /\ Len(r.matchers) \in Nat /\ DOMAIN r.matchers = 1..Len(r.matchers)
         /\ \A j \in DOMAIN r.matchers : IsMatcher(r.matchers[j])
  <1>1. r.matchers \in Seq({r.matchers[j] : j \in DOMAIN r.matchers})
    BY DEF IsRule
  <1>2. Len(r.matchers) \in Nat /\ DOMAIN r.matchers = 1..Len(r.matchers)
    BY <1>1
  <1> QED
    BY <1>2 DEF IsRule

LEMMA InitRulesOK ==
  ASSUME policy \in Policies, in \in Requests
  PROVE  RulesOK
  <1>1. /\ policy.default \in Effects
        /\ policy.rules \in Seq({policy.rules[k] : k \in DOMAIN policy.rules})
        /\ \A k \in DOMAIN policy.rules : IsRule(policy.rules[k])
    BY PolicyAssumption
  <1>2. Len(policy.rules) \in Nat /\ DOMAIN policy.rules = 1..Len(policy.rules)
    BY <1>1
  <1>3. ASSUME NEW k \in DOMAIN policy.rules
        PROVE  LET ms == policy.rules[k].matchers IN
               /\ policy.rules[k].effect \in Effects
               /\ Len(ms) \in Nat /\ DOMAIN ms = 1..Len(ms)
               /\ \A j \in DOMAIN ms : IsMatcher(ms[j])
    BY <1>1, RuleIsRule
  <1>4. in.params \in Values /\ in.params.kind = "object"
    BY RequestAssumption
  <1> QED
    BY <1>1, <1>2, <1>3, <1>4 DEF RulesOK

LEMMA PathLength ==
  ASSUME NEW m, IsMatcher(m), m.kind = "param"
  PROVE  Len(m.path) \in Nat \ {0}
  BY DEF IsMatcher

LEMMA InitTypeInv == Init => TypeInv
  <1> SUFFICES ASSUME Init PROVE TypeInv
    OBVIOUS
  <1>1. RulesOK /\ cur = in.params /\ depth = 0 /\ rule = 1 /\ matcher = 1 /\ answer = "running"
    BY InitRulesOK DEF Init
  <1>2. AtMatcher /\ M.kind = "param" =>
          0 \in 0..Len(M.path) /\ Reach(in.params, M.path)[0] = {cur}
    <2> SUFFICES ASSUME AtMatcher, M.kind = "param"
                 PROVE  0 \in 0..Len(M.path) /\ Reach(in.params, M.path)[0] = {cur}
      OBVIOUS
    <2>1. IsMatcher(M)
      BY <1>1 DEF RulesOK, AtMatcher, InRules, M, Rule
    <2>2. Len(M.path) \in Nat \ {0}
      BY <2>1, PathLength
    <2> QED
      BY <1>1, <2>2, ReachUnfolds
  <1>3. TypeOK
    BY <1>1, <1>2 DEF TypeOK, RulesOK, InRules, Rule
  <1>4. WalkOK
    BY <1>1, <1>2 DEF WalkOK, RulesOK
  <1> QED
    BY <1>1, <1>3, <1>4 DEF TypeInv

\* The matcher Evaluate is at.
LEMMA Here ==
  ASSUME TypeInv, AtMatcher
  PROVE  /\ rule \in 1..Len(policy.rules) /\ matcher \in 1..Len(Rule.matchers)
         /\ Len(policy.rules) \in Nat /\ Len(Rule.matchers) \in Nat
         /\ Rule.effect \in Effects /\ IsMatcher(M)
         /\ M.kind = "param" => /\ Len(M.path) \in Nat \ {0}
                                /\ depth \in 0..Len(M.path)
                                /\ Reach(in.params, M.path)[depth] = {cur}
  <1>1. rule \in 1..Len(policy.rules) /\ Len(policy.rules) \in Nat
    BY DEF TypeInv, TypeOK, RulesOK, AtMatcher, InRules
  <1>2. matcher \in 1..Len(Rule.matchers) /\ Len(Rule.matchers) \in Nat
    BY <1>1 DEF TypeInv, TypeOK, RulesOK, AtMatcher, Rule
  <1>3. IsMatcher(M) /\ Rule.effect \in Effects
    BY <1>1, <1>2 DEF TypeInv, RulesOK, M, Rule
  <1> QED
    BY <1>1, <1>2, <1>3, PathLength DEF TypeInv, TypeOK, WalkOK

\* Where NextMatcher and NextRule go, the walk begins again.
LEMMA Restart ==
  ASSUME TypeInv, AtMatcher, NextMatcher \/ NextRule, UNCHANGED <<policy, in, answer>>
  PROVE  TypeInv'
  <1>1. RulesOK'
    BY DEF TypeInv, RulesOK
  <1>2. /\ rule' \in 1..(Len(policy'.rules) + 1)
        /\ depth' = 0 /\ cur' = in'.params /\ cur' \in Values
        /\ answer' = "running"
    BY Here DEF NextMatcher, NextRule, AtMatcher, InRules, Running, TypeInv, RulesOK
  <1>3. InRules' => matcher' \in 1..(Len(Rule'.matchers) + 1)
    <2>1. CASE NextMatcher
      BY <2>1, Here DEF NextMatcher, Rule
    <2>2. CASE NextRule
      <3> SUFFICES ASSUME InRules' PROVE 1 \in 1..(Len(Rule'.matchers) + 1)
        BY <2>2 DEF NextRule
      <3>1. rule' \in DOMAIN policy'.rules
        BY <1>1, <1>2 DEF InRules, RulesOK
      <3>2. Len(Rule'.matchers) \in Nat
        BY <1>1, <3>1 DEF RulesOK, Rule
      <3> QED
        BY <3>2
    <2> QED
      BY <2>1, <2>2
  <1>4. (AtMatcher /\ M.kind = "param")' =>
          /\ 0 \in 0..Len(M'.path)
          /\ Reach(in'.params, M'.path)[0] = {in'.params}
    <2> SUFFICES ASSUME AtMatcher', M'.kind = "param"
                 PROVE  /\ 0 \in 0..Len(M'.path)
                        /\ Reach(in'.params, M'.path)[0] = {in'.params}
      OBVIOUS
    <2>1. rule' \in DOMAIN policy'.rules /\ matcher' \in DOMAIN Rule'.matchers
      <3>1. rule' \in DOMAIN policy'.rules
        BY <1>1, <1>2 DEF RulesOK, AtMatcher, InRules
      <3>2. DOMAIN Rule'.matchers = 1..Len(Rule'.matchers) /\ Len(Rule'.matchers) \in Nat
        BY <1>1, <3>1 DEF RulesOK, Rule
      <3> QED
        BY <1>3, <3>1, <3>2 DEF AtMatcher
    <2>2. IsMatcher(M')
      BY <1>1, <2>1 DEF RulesOK, M, Rule
    <2>3. Len(M'.path) \in Nat \ {0}
      BY <2>2, PathLength
    <2> QED
      BY <2>3, ReachUnfolds
  <1>5. TypeOK'
    BY <1>2, <1>3, <1>4 DEF TypeOK
  <1>6. WalkOK'
    BY <1>2, <1>4 DEF WalkOK
  <1> QED
    BY <1>1, <1>5, <1>6 DEF TypeInv

\* One key further, or not at all.
LEMMA StepDown ==
  ASSUME TypeInv, Walking
  PROVE  /\ depth + 1 \in 1..Len(M.path)
         /\ Reach(in.params, M.path)[depth + 1] =
              IF Found(cur, M.path[depth + 1]) THEN {cur.fields[M.path[depth + 1]]} ELSE {}
  <1>1. /\ Len(M.path) \in Nat /\ depth \in 0..Len(M.path) /\ depth < Len(M.path)
        /\ Reach(in.params, M.path)[depth] = {cur}
    BY Here DEF Walking
  <1>2. depth + 1 \in 1..Len(M.path) /\ (depth + 1) - 1 = depth
    BY <1>1
  <1>3. Reach(in.params, M.path)[depth + 1] = Down(M.path[depth + 1], {cur})
    <2> DEFINE R == Reach(in.params, M.path)
    <2>1. \A n \in 1..Len(M.path) : R[n] = Down(M.path[n], R[n - 1])
      BY <1>1, ReachUnfolds
    <2>2. R[depth] = {cur}
      BY <1>1
    <2> HIDE DEF R
    <2>3. R[depth + 1] = Down(M.path[depth + 1], R[depth])
      BY <1>2, <2>1
    <2> QED
      BY <2>2, <2>3 DEF R
  <1> QED
    BY <1>2, <1>3, DownOne

LEMMA NextTypeInv == TypeInv /\ [Next]_vars => TypeInv'
  <1> SUFFICES ASSUME TypeInv, [Next]_vars PROVE TypeInv'
    OBVIOUS
  <1>1. CASE MatchName
    BY <1>1, Restart DEF MatchName
  <1>2. CASE WalkFails
    BY <1>2, Restart DEF WalkFails, Walking
  <1>3. CASE MatchParam
    BY <1>3, Restart DEF MatchParam
  <1>4. CASE Walk
    <2>1. /\ UNCHANGED <<policy, in, rule, matcher, answer>>
          /\ depth' = depth + 1 /\ cur' = cur.fields[M.path[depth + 1]]
          /\ Walking /\ Found(cur, M.path[depth + 1])
      BY <1>4 DEF Walk
    <2>2. /\ M' = M /\ Rule' = Rule /\ (AtMatcher' <=> AtMatcher) /\ (InRules' <=> InRules)
      BY <2>1 DEF M, Rule, AtMatcher, InRules, Running
    <2>3. depth' \in 0..Len(M'.path) /\ Reach(in'.params, M'.path)[depth'] = {cur'}
      BY <2>1, <2>2, StepDown
    <2>4. cur' \in Values
      BY <2>1, ValueAssumption DEF TypeInv, WalkOK, Found
    <2>5. RulesOK'
      BY <2>1 DEF TypeInv, RulesOK
    <2>6. TypeOK'
      BY <2>1, <2>2, <2>3 DEF TypeInv, TypeOK
    <2> QED
      BY <2>3, <2>4, <2>5, <2>6 DEF TypeInv, WalkOK
  <1>5. ASSUME Decide \/ Default PROVE TypeInv'
    <2>1. /\ UNCHANGED <<policy, in, rule, matcher, depth, cur>>
          /\ answer' \in Effects
      <3>1. CASE Decide
        <4>1. rule \in 1..Len(policy.rules)
          BY <3>1 DEF Decide, InRules, TypeInv, TypeOK, RulesOK
        <4> QED
          BY <3>1, <4>1 DEF Decide, Rule, TypeInv, RulesOK
      <3>2. CASE Default
        BY <3>2 DEF Default, TypeInv, RulesOK
      <3> QED
        BY <1>5, <3>1, <3>2
    <2>2. ~InRules' /\ ~AtMatcher'
      BY <2>1 DEF InRules, AtMatcher, Running, Effects
    <2>3. RulesOK'
      BY <2>1 DEF TypeInv, RulesOK
    <2>4. TypeOK'
      BY <2>1, <2>2 DEF TypeInv, TypeOK
    <2> QED
      BY <2>1, <2>2, <2>3, <2>4 DEF TypeInv, WalkOK
  <1>6. CASE UNCHANGED vars
    BY <1>6 DEF vars, TypeInv, RulesOK, TypeOK, WalkOK, InRules, AtMatcher, Running, Rule, M
  <1> QED
    BY <1>1, <1>2, <1>3, <1>4, <1>5, <1>6 DEF Next

\* The walk stays inside the policy, the rule and the path, whatever the JSON.
THEOREM WalkStaysInside == Spec => []TypeOK
  <1>1. TypeInv => TypeOK
    BY DEF TypeInv
  <1> QED
    BY <1>1, InitTypeInv, NextTypeInv, PTL DEF Spec

-----------------------------------------------------------------------------
(***************************************************************************)
(* Which rule decides.  The rules passed do not apply, and the matchers    *)
(* passed of the present rule all hold.                                    *)
(***************************************************************************)
PassedOver == \A j \in 1..(rule - 1) : ~Applies(j, in)

HeldSoFar == InRules => \A j \in 1..(matcher - 1) : Means(Rule.matchers[j], in)

MatchInv == TypeInv /\ PassedOver /\ HeldSoFar /\ FirstMatchDecides

\* One matcher that does not hold, and the rule does not apply.
LEMMA OneFails ==
  ASSUME TypeInv, AtMatcher, ~Means(M, in)
  PROVE  ~Applies(rule, in)
  <1>1. matcher \in DOMAIN Rule.matchers
    BY Here DEF TypeInv, RulesOK, Rule
  <1> QED
    BY <1>1 DEF Applies, Rule, M

\* At the end of a path there is one value, and it is cur.
LEMMA AtTheEnd ==
  ASSUME TypeInv, AtMatcher, M.kind = "param", depth = Len(M.path)
  PROVE  Means(M, in) <=> Compare(M, cur)
  <1>1. At(in.params, M.path) = {cur}
    BY Here DEF At
  <1>2. cur \in Values
    BY DEF TypeInv, WalkOK
  <1>3. Means(M, in) <=> Holds(M, cur)
    BY <1>1, MeansUnfolds
  <1> QED
    BY <1>2, <1>3, CompareIsHolds

LEMMA NothingThere ==
  ASSUME TypeInv, Walking, ~Found(cur, M.path[depth + 1])
  PROVE  ~Means(M, in)
  <1>1. Len(M.path) \in Nat /\ AtMatcher /\ M.kind = "param"
    BY Here DEF Walking
  <1>2. depth + 1 \in 0..Len(M.path) /\ Reach(in.params, M.path)[depth + 1] = {}
    BY <1>1, StepDown
  <1>3. At(in.params, M.path) = {}
    BY <1>1, <1>2, LostForGood
  <1> QED
    BY <1>1, <1>3, MeansUnfolds

\* A matcher is left for the next one if it holds, and for the next rule if not.
LEMMA MatcherLeft ==
  ASSUME TypeInv, MatchName \/ WalkFails \/ MatchParam
  PROVE  /\ AtMatcher /\ UNCHANGED <<policy, in, answer>>
         /\ \/ NextMatcher /\ Means(M, in)
            \/ NextRule /\ ~Means(M, in)
  <1>1. CASE MatchName
    <2>1. Means(M, in) <=> in[M.kind] \in M.covers
      BY <1>1, MeansUnfolds DEF MatchName
    <2> QED
      BY <1>1, <2>1 DEF MatchName
  <1>2. CASE WalkFails
    BY <1>2, NothingThere DEF WalkFails, Walking
  <1>3. CASE MatchParam
    BY <1>3, AtTheEnd DEF MatchParam
  <1> QED
    BY <1>1, <1>2, <1>3

LEMMA InitMatchInv == Init => MatchInv
  <1> SUFFICES ASSUME Init PROVE MatchInv
    OBVIOUS
  <1>1. TypeInv /\ rule = 1 /\ matcher = 1 /\ Running
    BY InitTypeInv DEF Init, Running
  <1> QED
    BY <1>1 DEF MatchInv, PassedOver, HeldSoFar, FirstMatchDecides

LEMMA NextMatchInv == MatchInv /\ [Next]_vars => MatchInv'
  <1> SUFFICES ASSUME MatchInv, [Next]_vars PROVE MatchInv'
    OBVIOUS
  <1>1. TypeInv /\ TypeInv'
    BY NextTypeInv DEF MatchInv
  <1>2. ASSUME MatchName \/ WalkFails \/ MatchParam PROVE MatchInv'
    <2>1. /\ AtMatcher /\ InRules /\ UNCHANGED <<policy, in, answer>>
          /\ \/ NextMatcher /\ Means(M, in)
             \/ NextRule /\ ~Means(M, in)
      BY <1>1, <1>2, MatcherLeft DEF AtMatcher
    <2>2. /\ rule \in Nat /\ matcher \in Nat
          /\ \A j : Applies(j, in)' <=> Applies(j, in)
      BY <1>1, <2>1, Here DEF Applies
    <2>3. CASE NextMatcher /\ Means(M, in)
      <3>1. rule' = rule /\ matcher' = matcher + 1 /\ Rule' = Rule
        BY <2>1, <2>3 DEF NextMatcher, Rule
      <3>2. PassedOver'
        BY <2>1, <2>2, <3>1 DEF MatchInv, PassedOver
      <3>3. HeldSoFar'
        <4>1. \A j \in 1..(matcher - 1) : Means(Rule.matchers[j], in)
          BY <2>1 DEF MatchInv, HeldSoFar
        <4>2. Means(Rule.matchers[matcher], in)
          BY <2>3 DEF M
        <4>3. \A j \in 1..((matcher + 1) - 1) : j \in 1..(matcher - 1) \/ j = matcher
          BY <2>2
        <4> QED
          BY <2>1, <3>1, <4>1, <4>2, <4>3 DEF HeldSoFar
      <3>4. FirstMatchDecides'
        BY <2>1 DEF FirstMatchDecides, AtMatcher, InRules, Running
      <3> QED
        BY <1>1, <3>2, <3>3, <3>4 DEF MatchInv
    <2>4. CASE NextRule /\ ~Means(M, in)
      <3>1. rule' = rule + 1 /\ matcher' = 1
        BY <2>4 DEF NextRule
      <3>2. ~Applies(rule, in)
        BY <1>1, <2>1, <2>4, OneFails
      <3>3. PassedOver'
        <4>1. \A j \in 1..(rule - 1) : ~Applies(j, in)
          BY DEF MatchInv, PassedOver
        <4>2. \A j \in 1..((rule + 1) - 1) : j \in 1..(rule - 1) \/ j = rule
          BY <2>2
        <4> QED
          BY <2>1, <2>2, <3>1, <3>2, <4>1, <4>2 DEF PassedOver
      <3>4. HeldSoFar'
        BY <3>1 DEF HeldSoFar
      <3>5. FirstMatchDecides'
        BY <2>1 DEF FirstMatchDecides, AtMatcher, InRules, Running
      <3> QED
        BY <1>1, <3>3, <3>4, <3>5 DEF MatchInv
    <2> QED
      BY <2>1, <2>3, <2>4
  <1>3. ASSUME Walk \/ UNCHANGED vars PROVE MatchInv'
    <2>1. UNCHANGED <<policy, in, rule, matcher, answer>>
      BY <1>3 DEF Walk, vars
    <2>2. PassedOver' /\ HeldSoFar' /\ FirstMatchDecides'
      BY <2>1 DEF MatchInv, PassedOver, HeldSoFar, FirstMatchDecides,
           Applies, Decides, InRules, Running, Rule
    <2> QED
      BY <1>1, <2>2 DEF MatchInv
  <1>4. CASE Decide
    <2>1. /\ rule \in 1..Len(policy.rules) /\ matcher = Len(Rule.matchers) + 1
          /\ DOMAIN Rule.matchers = 1..Len(Rule.matchers)
          /\ Len(Rule.matchers) \in Nat /\ Rule.effect \in Effects
      <3>1. rule \in DOMAIN policy.rules /\ rule \in 1..Len(policy.rules)
        BY <1>1, <1>4 DEF Decide, InRules, TypeInv, TypeOK, RulesOK
      <3>2. /\ DOMAIN Rule.matchers = 1..Len(Rule.matchers)
            /\ Len(Rule.matchers) \in Nat /\ Rule.effect \in Effects
        BY <1>1, <3>1 DEF TypeInv, RulesOK, Rule
      <3>3. matcher \in 1..(Len(Rule.matchers) + 1) /\ matcher > Len(Rule.matchers)
        BY <1>1, <1>4 DEF Decide, TypeInv, TypeOK
      <3> QED
        BY <3>1, <3>2, <3>3
    <2>2. Applies(rule, in)
      <3>1. \A j \in DOMAIN Rule.matchers : Means(Rule.matchers[j], in)
        <4>1. \A j \in 1..(matcher - 1) : Means(Rule.matchers[j], in)
          BY <1>4 DEF Decide, MatchInv, HeldSoFar
        <4>2. DOMAIN Rule.matchers = 1..(matcher - 1)
          BY <2>1
        <4> QED
          BY <4>1, <4>2
      <3> QED
        BY <3>1 DEF Applies, Rule
    <2>3. UNCHANGED <<policy, in, rule, matcher>> /\ answer' = Rule.effect
      BY <1>4 DEF Decide
    <2>4. Decides(rule, in)
      BY <1>1, <2>1, <2>2 DEF Decides, MatchInv, PassedOver, TypeInv, RulesOK
    <2>5. FirstMatchDecides'
      <3>1. Decides(rule, in)' /\ Rule' = Rule /\ rule <= Len(policy.rules)
        BY <2>1, <2>3, <2>4 DEF Decides, Applies, Rule
      <3> QED
        BY <2>3, <3>1 DEF FirstMatchDecides
    <2>6. PassedOver' /\ HeldSoFar'
      <3>1. ~InRules'
        BY <2>1, <2>3 DEF InRules, Running, Effects
      <3> QED
        BY <2>3, <3>1 DEF MatchInv, PassedOver, HeldSoFar, Applies
    <2> QED
      BY <1>1, <2>5, <2>6 DEF MatchInv
  <1>5. CASE Default
    <2>1. /\ rule = Len(policy.rules) + 1 /\ Len(policy.rules) \in Nat
          /\ policy.default \in Effects
      BY <1>1, <1>5 DEF Default, TypeInv, TypeOK, RulesOK
    <2>2. UNCHANGED <<policy, in, rule, matcher>> /\ answer' = policy.default
      BY <1>5 DEF Default
    <2>3. Decides(rule, in)
      BY <2>1 DEF Decides, MatchInv, PassedOver
    <2>4. FirstMatchDecides'
      <3>1. Decides(rule, in)' /\ ~(rule <= Len(policy.rules))
        BY <2>1, <2>2, <2>3 DEF Decides, Applies
      <3> QED
        BY <2>2, <3>1 DEF FirstMatchDecides
    <2>5. PassedOver' /\ HeldSoFar'
      <3>1. ~InRules'
        BY <2>1, <2>2 DEF InRules, Running, Effects
      <3> QED
        BY <2>2, <3>1 DEF MatchInv, PassedOver, HeldSoFar, Applies
    <2> QED
      BY <1>1, <2>4, <2>5 DEF MatchInv
  <1> QED
    BY <1>2, <1>3, <1>4, <1>5 DEF Next

\* The first rule whose matchers all hold decides, and the default if there is none,
\* for every policy and every request.
THEOREM FirstMatchWins == Spec => []FirstMatchDecides
  <1>1. MatchInv => FirstMatchDecides
    BY DEF MatchInv
  <1> QED
    BY <1>1, InitMatchInv, NextMatchInv, PTL DEF Spec

-----------------------------------------------------------------------------
(***************************************************************************)
(* A request against one that says more.  Whatever a path finds in the     *)
(* first it finds in the second, so every matcher that holds of the first  *)
(* holds of the second; nothing in the language tells a missing key apart  *)
(* from one that does not match.                                           *)
(***************************************************************************)
LEMMA DownMore ==
  ASSUME NEW key, NEW vs, NEW ws, vs \subseteq ws
  PROVE  Down(key, vs) \subseteq Down(key, ws)
  BY DEF Down

LEMMA FullerFindsMore ==
  ASSUME NEW r \in Requests, NEW f \in Fuller(r), NEW path, Len(path) \in Nat \ {0}
  PROVE  At(r.params, path) \subseteq At(f.params, path)
  <1> DEFINE R == Reach(r.params, path)
             F == Reach(f.params, path)
             S == {n \in Nat : 1 <= n /\ n <= Len(path) => R[n] \subseteq F[n]}
  <1>1. /\ R[0] = {r.params} /\ F[0] = {f.params}
        /\ \A n \in 1..Len(path) : R[n] = Down(path[n], R[n - 1])
        /\ \A n \in 1..Len(path) : F[n] = Down(path[n], F[n - 1])
    BY ReachUnfolds
  <1>2. /\ f.params.kind = "object"
        /\ \A key \in DOMAIN r.params.fields :
             key \in DOMAIN f.params.fields /\ f.params.fields[key] = r.params.fields[key]
    BY RequestAssumption DEF Fuller
  <1> HIDE DEF R, F
  <1>3. 0 \in S
    OBVIOUS
  <1>4. ASSUME NEW n \in Nat, n \in S PROVE n + 1 \in S
    <2> SUFFICES ASSUME n + 1 <= Len(path) PROVE R[n + 1] \subseteq F[n + 1]
      OBVIOUS
    <2>1. n + 1 \in 1..Len(path) /\ (n + 1) - 1 = n
      OBVIOUS
    <2>2. R[n + 1] = Down(path[n + 1], R[n]) /\ F[n + 1] = Down(path[n + 1], F[n])
      BY <1>1, <2>1
    <2>3. CASE n = 0
      <3>1. R[n] = {r.params} /\ F[n] = {f.params}
        BY <1>1, <2>3
      <3>2. \A key : Down(key, {r.params}) \subseteq Down(key, {f.params})
        BY <1>2 DEF Down
      <3>3. Down(path[n + 1], R[n]) \subseteq Down(path[n + 1], F[n])
        BY <3>1, <3>2, Zenon
      <3> QED
        BY <2>2, <3>3, Zenon
    <2>4. CASE n # 0
      <3>1. R[n] \subseteq F[n]
        BY <1>4, <2>4
      <3> QED
        BY <2>2, <3>1, DownMore
    <2> QED
      BY <2>3, <2>4
  <1>5. \A n \in Nat : n \in S
    <2> HIDE DEF S
    <2> QED
      BY <1>3, <1>4, Induct
  <1>6. R[Len(path)] \subseteq F[Len(path)]
    BY <1>5
  <1> QED
    BY <1>6 DEF At, R, F

LEMMA FullerMeansMore ==
  ASSUME NEW r \in Requests, NEW f \in Fuller(r), NEW m, IsMatcher(m), Means(m, r)
  PROVE  Means(m, f)
  <1>1. CASE m.kind = "param"
    <2>1. PICK v \in At(r.params, m.path) : Holds(m, v)
      BY <1>1, MeansUnfolds
    <2>2. v \in At(f.params, m.path)
      BY <1>1, PathLength, FullerFindsMore
    <2> QED
      BY <1>1, <2>1, <2>2, MeansUnfolds
  <1>2. CASE m.kind # "param"
    <2>1. m.kind \in {"action", "agent"} /\ r[m.kind] \in m.covers
      BY <1>2, MeansUnfolds DEF IsMatcher
    <2>2. f[m.kind] = r[m.kind]
      BY <2>1 DEF Fuller
    <2> QED
      BY <1>2, <2>1, <2>2, MeansUnfolds
  <1> QED
    BY <1>1, <1>2

\* A request that leaves a parameter out is decided no earlier than any request that
\* says the same and more: silence satisfies no rule.
THEOREM SilenceGainsNothing == Spec => []OmissionNeverHelps
  <1>1. MatchInv => OmissionNeverHelps
    <2> SUFFICES ASSUME MatchInv, ~Running, NEW f \in Fuller(in)
                 PROVE  \E k \in 1..rule : Decides(k, f)
      BY DEF OmissionNeverHelps
    <2> DEFINE S == {k \in 1..rule : k <= Len(policy.rules) => Applies(k, f)}
    <2>1. /\ rule \in 1..(Len(policy.rules) + 1) /\ Len(policy.rules) \in Nat
          /\ rule <= Len(policy.rules) => Applies(rule, in)
      BY DEF MatchInv, FirstMatchDecides, Decides, TypeInv, RulesOK
    <2>2. rule \in S
      <3> SUFFICES ASSUME rule <= Len(policy.rules) PROVE Applies(rule, f)
        BY <2>1
      <3>1. in \in Requests /\ rule \in DOMAIN policy.rules
        BY <2>1 DEF MatchInv, TypeInv, RulesOK
      <3>2. \A j \in DOMAIN policy.rules[rule].matchers :
              IsMatcher(policy.rules[rule].matchers[j])
        BY <3>1 DEF MatchInv, TypeInv, RulesOK
      <3> QED
        BY <2>1, <3>1, <3>2, FullerMeansMore DEF Applies
    <2>3. PICK k \in S : \A j \in S : k <= j
      <3>1. S \in SUBSET Nat /\ S # {}
        BY <2>1, <2>2
      <3> HIDE DEF S
      <3> QED
        BY <3>1, Least
    <2>4. \A j \in 1..(k - 1) : ~Applies(j, f)
      <3> SUFFICES ASSUME NEW j \in 1..(k - 1), Applies(j, f) PROVE FALSE
        OBVIOUS
      <3>1. j \in S
        BY <2>1, <2>3
      <3> QED
        BY <2>1, <2>3, <3>1
    <2>5. k \in 1..rule /\ k \in 1..(Len(policy.rules) + 1)
      BY <2>1, <2>3
    <2> QED
      BY <2>3, <2>4, <2>5 DEF Decides
  <1> QED
    BY <1>1, InitMatchInv, NextMatchInv, PTL DEF Spec

=============================================================================
