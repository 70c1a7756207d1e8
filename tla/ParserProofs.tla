---------------------------- MODULE ParserProofs ----------------------------
(***************************************************************************)
(* Proofs about Parser, for every set of texts: what a line is split into, *)
(* that a text is a policy exactly when every line of it is grammatical,   *)
(* and that the policy then says what the text says.                       *)
(*                                                                         *)
(* First what a loop that picks from a sequence has at each position, and  *)
(* the mode and tokens of a line's first n symbols; then a matcher, a rule *)
(* and a line; then one lemma per action of the parser, and the theorems.  *)
(***************************************************************************)
EXTENDS Parser, Induction, SequenceTheorems

-----------------------------------------------------------------------------
\* What a loop has picked.

\* f is Picking(s, P).
PicksUp(f, s, P) ==
  f = [i \in 0..Len(s) |->
         IF i = 0 THEN <<>>
         ELSE IF i \in P THEN Append(f[i - 1], s[i]) ELSE f[i - 1]]

LEMMA Appended ==
  ASSUME NEW D, NEW s \in Seq(D), NEW x \in D
  PROVE  /\ Append(s, x) \in Seq(D) /\ Append(s, x) # <<>>
         /\ Len(s) \in Nat /\ Len(Append(s, x)) = Len(s) + 1
         /\ \A k \in 1..Len(s) : Append(s, x)[k] = s[k]
         /\ Append(s, x)[Len(s) + 1] = x
  <1>1. Append(s, x) \in Seq(D) /\ Len(Append(s, x)) = Len(s) + 1 /\ Len(s) \in Nat
    OBVIOUS
  <1>2. Append(s, x) # <<>>
    BY <1>1
  <1> QED
    BY <1>1, <1>2

LEMMA PickingExists ==
  ASSUME NEW D, NEW s \in Seq(D), NEW P
  PROVE  \E f \in [0..Len(s) -> Seq(D)] : PicksUp(f, s, P)
  <1> DEFINE E == Seq(D)
             step == [p \in Nat \X E |->
                        IF p[1] \in P /\ p[1] \in DOMAIN s THEN Append(p[2], s[p[1]]) ELSE p[2]]
  <1>1. Len(s) \in Nat /\ DOMAIN s = 1..Len(s) /\ \A i \in DOMAIN s : s[i] \in D
    OBVIOUS
  <1>2. <<>> \in E /\ step \in [Nat \X E -> E]
    <2>1. \A p \in Nat \X E : p[1] \in DOMAIN s => Append(p[2], s[p[1]]) \in E
      BY <1>1
    <2> QED
      BY <2>1
  <1>3. PICK f \in [0..Len(s) -> E] : Recurs(f, <<>>, step, Len(s))
    <2> HIDE DEF E, step
    <2> QED
      BY <1>1, <1>2, Recurse
  <1>4. ASSUME NEW i \in 0..Len(s)
        PROVE  f[i] = IF i = 0 THEN <<>>
                      ELSE IF i \in P THEN Append(f[i - 1], s[i]) ELSE f[i - 1]
    <2>1. CASE i = 0
      BY <1>3, <2>1 DEF Recurs
    <2>2. CASE i \in 1..Len(s)
      <3>1. i \in DOMAIN s /\ i # 0 /\ i \in Nat /\ f[i - 1] \in E
        <4>1. i \in DOMAIN s /\ i # 0 /\ i \in Nat /\ i - 1 \in 0..Len(s)
          BY <1>1, <2>2
        <4> HIDE DEF E
        <4> QED
          BY <4>1
      <3>2. f[i] = step[<<i, f[i - 1]>>]
        BY <1>3, <2>2 DEF Recurs
      <3>3. step[<<i, f[i - 1]>>] =
              IF i \in P /\ i \in DOMAIN s THEN Append(f[i - 1], s[i]) ELSE f[i - 1]
        <4> HIDE DEF E
        <4> QED
          BY <3>1
      <3> HIDE DEF step
      <3> QED
        BY <3>1, <3>2, <3>3
    <2> QED
      BY <1>1, <2>1, <2>2
  <1>5. PicksUp(f, s, P)
    <2>1. f = [i \in 0..Len(s) |-> f[i]]
      BY <1>3
    <2> QED
      BY <1>4, <2>1 DEF PicksUp
  <1> QED
    BY <1>3, <1>5

LEMMA PickingUnfolds ==
  ASSUME NEW D, NEW s \in Seq(D), NEW P
  PROVE  /\ Picking(s, P)[0] = <<>>
         /\ \A i \in 1..Len(s) :
              Picking(s, P)[i] =
                IF i \in P THEN Append(Picking(s, P)[i - 1], s[i]) ELSE Picking(s, P)[i - 1]
  <1> DEFINE F == Picking(s, P)
  <1>1. \E f : PicksUp(f, s, P)
    BY PickingExists
  <1>2. F = CHOOSE f : PicksUp(f, s, P)
    BY DEF Picking, PicksUp
  <1> HIDE DEF F
  <1>3. PicksUp(F, s, P)
    BY <1>1, <1>2
  <1>4. Len(s) \in Nat
    OBVIOUS
  <1>5. \A i \in 0..Len(s) :
          F[i] = IF i = 0 THEN <<>> ELSE IF i \in P THEN Append(F[i - 1], s[i]) ELSE F[i - 1]
    BY <1>3 DEF PicksUp
  <1>6. F[0] = <<>>
    BY <1>4, <1>5
  <1>7. \A i \in 1..Len(s) : i \in 0..Len(s) /\ i # 0
    BY <1>4
  <1>8. \A i \in 1..Len(s) : F[i] = IF i \in P THEN Append(F[i - 1], s[i]) ELSE F[i - 1]
    BY <1>5, <1>7
  <1> QED
    BY <1>6, <1>8 DEF F

LEMMA PickingType ==
  ASSUME NEW D, NEW s \in Seq(D), NEW P
  PROVE  \A i \in 0..Len(s) : Picking(s, P)[i] \in Seq(D)
  <1> DEFINE F == Picking(s, P)
             S == {i \in Nat : i <= Len(s) => F[i] \in Seq(D)}
  <1>1. Len(s) \in Nat /\ \A i \in 1..Len(s) : s[i] \in D
    OBVIOUS
  <1>2. 0 \in S
    <2>1. F[0] = <<>> /\ <<>> \in Seq(D)
      BY PickingUnfolds
    <2> HIDE DEF F
    <2>2. F[0] \in Seq(D)
      BY <2>1
    <2> QED
      BY <2>2
  <1>3. ASSUME NEW i \in Nat, i \in S PROVE i + 1 \in S
    <2> SUFFICES ASSUME i + 1 <= Len(s) PROVE F[i + 1] \in Seq(D)
      OBVIOUS
    <2>1. i + 1 \in 1..Len(s) /\ (i + 1) - 1 = i /\ i <= Len(s)
      BY <1>1
    <2>2. F[i] \in Seq(D) /\ s[i + 1] \in D
      BY <1>1, <1>3, <2>1
    <2>3. F[i + 1] = IF i + 1 \in P THEN Append(F[i], s[i + 1]) ELSE F[i]
      BY <2>1, PickingUnfolds
    <2> HIDE DEF F
    <2> QED
      BY <2>2, <2>3
  <1>4. \A i \in Nat : i \in S
    <2> HIDE DEF S
    <2> QED
      BY <1>2, <1>3, Induct
  <1> QED
    BY <1>1, <1>4

LEMMA PicksType ==
  ASSUME NEW D, NEW s \in Seq(D), NEW P
  PROVE  Picks(s, P) \in Seq(D) /\ Len(Picks(s, P)) \in Nat
  <1>1. Len(s) \in 0..Len(s)
    OBVIOUS
  <1>2. Picks(s, P) \in Seq(D)
    BY <1>1, PickingType DEF Picks
  <1> QED
    BY <1>2

\* Where there is nothing to pick, nothing changes.
LEMMA PickingRests ==
  ASSUME NEW D, NEW s \in Seq(D), NEW P, NEW i \in 0..Len(s),
         \A k \in i + 1..Len(s) : k \notin P
  PROVE  \A j \in i..Len(s) : Picking(s, P)[j] = Picking(s, P)[i]
  <1> DEFINE F == Picking(s, P)
             S == {j \in Nat : i <= j /\ j <= Len(s) => F[j] = F[i]}
  <1>1. Len(s) \in Nat
    OBVIOUS
  <1>2. 0 \in S
    OBVIOUS
  <1>3. ASSUME NEW j \in Nat, j \in S PROVE j + 1 \in S
    <2> SUFFICES ASSUME i <= j + 1, j + 1 <= Len(s) PROVE F[j + 1] = F[i]
      OBVIOUS
    <2>1. CASE i = j + 1
      BY <2>1
    <2>2. CASE i <= j
      <3>1. F[j] = F[i]
        BY <1>1, <1>3, <2>2
      <3>2. j + 1 \in 1..Len(s) /\ j + 1 \notin P /\ (j + 1) - 1 = j
        BY <1>1, <2>2
      <3>3. F[j + 1] = F[j]
        BY <3>2, PickingUnfolds
      <3> QED
        BY <3>1, <3>3
    <2> QED
      BY <2>1, <2>2
  <1>4. \A j \in Nat : j \in S
    <2> HIDE DEF S
    <2> QED
      BY <1>2, <1>3, Induct
  <1> QED
    BY <1>1, <1>4

\* One pick for each position in P: none without one, and no two unless there are two.
LEMMA PickingCounts ==
  ASSUME NEW D, NEW s \in Seq(D), NEW P
  PROVE  \A i \in 0..Len(s) :
           /\ Picking(s, P)[i] = <<>> <=> \A k \in 1..i : k \notin P
           /\ Len(Picking(s, P)[i]) <= 1 <=> \A j, k \in 1..i : j \in P /\ k \in P => j = k
  <1> DEFINE F == Picking(s, P)
             Counts(i) == /\ F[i] = <<>> <=> \A k \in 1..i : k \notin P
                          /\ Len(F[i]) <= 1 <=> \A j, k \in 1..i : j \in P /\ k \in P => j = k
             S == {i \in Nat : i <= Len(s) => Counts(i)}
  <1>1. Len(s) \in Nat /\ \A i \in 0..Len(s) : F[i] \in Seq(D)
    BY PickingType
  <1>2. 0 \in S
    <2>1. F[0] = <<>>
      BY PickingUnfolds
    <2> HIDE DEF F
    <2> QED
      BY <2>1
  <1>3. ASSUME NEW i \in Nat, i \in S PROVE i + 1 \in S
    <2> SUFFICES ASSUME i + 1 <= Len(s) PROVE Counts(i + 1)
      OBVIOUS
    <2>1. i + 1 \in 1..Len(s) /\ (i + 1) - 1 = i /\ i \in 0..Len(s) /\ i + 1 \in 0..Len(s)
      BY <1>1
    <2>2. Counts(i) /\ F[i] \in Seq(D) /\ Len(F[i]) \in Nat
      BY <1>1, <1>3, <2>1
    <2>3. F[i + 1] = IF i + 1 \in P THEN Append(F[i], s[i + 1]) ELSE F[i]
      BY <2>1, PickingUnfolds
    <2>4. \A k \in 1..i + 1 : k \in 1..i \/ k = i + 1
      OBVIOUS
    <2>5. \A k \in 1..i : k \in 1..i + 1 /\ k # i + 1
      OBVIOUS
    <2>6. i + 1 \in 1..i + 1
      OBVIOUS
    <2>7. CASE i + 1 \notin P
      <3>1. F[i + 1] = F[i]
        BY <2>3, <2>7
      <3> HIDE DEF F
      <3> QED
        BY <2>2, <2>4, <2>5, <2>7, <3>1
    <2>8. CASE i + 1 \in P
      <3>1. F[i + 1] = Append(F[i], s[i + 1]) /\ s[i + 1] \in D
        BY <2>1, <2>3, <2>8
      <3>2. F[i + 1] # <<>> /\ Len(F[i + 1]) = Len(F[i]) + 1
        BY <2>2, <3>1, Appended
      <3>3. Len(F[i + 1]) <= 1 <=> F[i] = <<>>
        <4>1. Len(F[i]) = 0 <=> F[i] = <<>>
          <5> HIDE DEF F
          <5> QED
            BY <2>2
        <4> HIDE DEF F
        <4> QED
          BY <2>2, <3>2, <4>1
      <3>4. (\A k \in 1..i : k \notin P) <=> \A j, k \in 1..i + 1 : j \in P /\ k \in P => j = k
        BY <2>4, <2>5, <2>6, <2>8
      <3> HIDE DEF F
      <3> QED
        BY <2>2, <2>6, <2>8, <3>2, <3>3, <3>4
    <2> QED
      BY <2>7, <2>8
  <1>4. \A i \in Nat : i \in S
    <2> HIDE DEF S
    <2> QED
      BY <1>2, <1>3, Induct
  <1> QED
    BY <1>1, <1>4

LEMMA PicksCount ==
  ASSUME NEW D, NEW s \in Seq(D), NEW P
  PROVE  /\ Picks(s, P) = <<>> <=> \A k \in 1..Len(s) : k \notin P
         /\ Len(Picks(s, P)) <= 1 <=> \A j, k \in 1..Len(s) : j \in P /\ k \in P => j = k
  <1>1. Len(s) \in 0..Len(s)
    OBVIOUS
  <1> QED
    BY <1>1, PickingCounts DEF Picks

\* t is s behind a first element that is not picked, and what is picked of both goes
\* together by R.
Beside(s, P, t, Q, R) ==
  /\ Len(t) = Len(s) + 1 /\ 1 \notin Q
  /\ \A i \in 1..Len(s) : i \in P <=> i + 1 \in Q
  /\ \A i \in 1..Len(s) : i \in P => <<s[i], t[i + 1]>> \in R

\* Two loops over sequences that go together pick what goes together.
LEMMA PickTogether ==
  ASSUME NEW D, NEW s \in Seq(D), NEW P, NEW E, NEW t \in Seq(E), NEW Q, NEW R,
         Beside(s, P, t, Q, R)
  PROVE  /\ Len(Picks(s, P)) = Len(Picks(t, Q))
         /\ \A k \in 1..Len(Picks(s, P)) : <<Picks(s, P)[k], Picks(t, Q)[k]>> \in R
  <1> USE DEF Beside
  <1> DEFINE F == Picking(s, P)
             G == Picking(t, Q)
             Goes(i) == /\ Len(F[i]) = Len(G[i + 1])
                        /\ \A k \in 1..Len(F[i]) : <<F[i][k], G[i + 1][k]>> \in R
             S == {i \in Nat : i <= Len(s) => Goes(i)}
  <1>1. /\ Len(s) \in Nat /\ Len(t) \in Nat
        /\ \A i \in 0..Len(s) : F[i] \in Seq(D)
        /\ \A i \in 0..Len(t) : G[i] \in Seq(E)
    BY PickingType
  <1>2. 0 \in S
    <2>1. F[0] = <<>> /\ G[0] = <<>>
      BY PickingUnfolds
    <2>2. G[1] = G[0]
      <3>1. 1 \in 1..Len(t) /\ 1 - 1 = 0
        BY <1>1
      <3> QED
        BY <3>1, PickingUnfolds
    <2> HIDE DEF F, G
    <2>3. Len(F[0]) = 0 /\ Len(G[0 + 1]) = 0
      BY <2>1, <2>2
    <2> QED
      BY <2>3
  <1>3. ASSUME NEW i \in Nat, i \in S PROVE i + 1 \in S
    <2> SUFFICES ASSUME i + 1 <= Len(s) PROVE Goes(i + 1)
      OBVIOUS
    <2>1. /\ i + 1 \in 1..Len(s) /\ (i + 1) - 1 = i /\ i \in 0..Len(s)
          /\ i + 2 \in 1..Len(t) /\ (i + 2) - 1 = i + 1 /\ i + 1 \in 0..Len(t) /\ (i + 1) + 1 = i + 2
      BY <1>1
    <2>2. Goes(i) /\ F[i] \in Seq(D) /\ G[i + 1] \in Seq(E) /\ Len(F[i]) \in Nat
      BY <1>1, <1>3, <2>1
    <2>3. /\ F[i + 1] = IF i + 1 \in P THEN Append(F[i], s[i + 1]) ELSE F[i]
          /\ G[i + 2] = IF i + 2 \in Q THEN Append(G[i + 1], t[i + 2]) ELSE G[i + 1]
      <3>1. F[i + 1] = IF i + 1 \in P THEN Append(F[i], s[i + 1]) ELSE F[i]
        BY <2>1, PickingUnfolds
      <3>2. G[i + 2] = IF i + 2 \in Q THEN Append(G[i + 1], t[i + 2]) ELSE G[i + 1]
        BY <2>1, PickingUnfolds
      <3> QED
        BY <3>1, <3>2
    <2>4. (i + 1 \in P <=> i + 2 \in Q) /\ (i + 1 \in P => <<s[i + 1], t[i + 2]>> \in R)
      BY <2>1
    <2> HIDE DEF F, G
    <2>5. CASE i + 1 \notin P
      <3>1. F[i + 1] = F[i] /\ G[(i + 1) + 1] = G[i + 1]
        BY <2>1, <2>3, <2>4, <2>5
      <3> QED
        BY <2>2, <3>1
    <2>6. CASE i + 1 \in P
      <3>1. /\ F[i + 1] = Append(F[i], s[i + 1]) /\ s[i + 1] \in D
            /\ G[i + 2] = Append(G[i + 1], t[i + 2]) /\ t[i + 2] \in E
        BY <2>1, <2>3, <2>4, <2>6
      <3>2. /\ Len(F[i + 1]) = Len(F[i]) + 1 /\ F[i + 1][Len(F[i]) + 1] = s[i + 1]
            /\ \A k \in 1..Len(F[i]) : F[i + 1][k] = F[i][k]
        BY <2>2, <3>1, Appended
      <3>3. /\ Len(G[i + 2]) = Len(F[i]) + 1 /\ G[i + 2][Len(F[i]) + 1] = t[i + 2]
            /\ \A k \in 1..Len(F[i]) : G[i + 2][k] = G[i + 1][k]
        BY <2>2, <3>1, Appended
      <3>4. ASSUME NEW k \in 1..Len(F[i + 1]) PROVE <<F[i + 1][k], G[i + 2][k]>> \in R
        <4>1. CASE k \in 1..Len(F[i])
          BY <2>2, <3>2, <3>3, <4>1
        <4>2. CASE k = Len(F[i]) + 1
          BY <2>4, <2>6, <3>2, <3>3, <4>2
        <4> QED
          BY <2>2, <3>2, <4>1, <4>2
      <3> QED
        BY <2>1, <3>2, <3>3, <3>4
    <2> QED
      BY <2>5, <2>6
  <1>4. \A i \in Nat : i \in S
    <2> HIDE DEF S
    <2> QED
      BY <1>2, <1>3, Induct
  <1>5. Goes(Len(s))
    <2>1. Len(s) \in S /\ Len(s) <= Len(s)
      <3> HIDE DEF S
      <3> QED
        BY <1>1, <1>4
    <2> HIDE DEF Goes
    <2> QED
      BY <2>1
  <1> QED
    BY <1>5 DEF Picks


-----------------------------------------------------------------------------
\* What the symbols of a line are part of.

ModeSet == {"plain", "quoted", "escape", "comment"}

\* The mode of the i-th symbol, given the one before.
ModeAfter(l, i, before) ==
  CASE before = "escape" -> "quoted"
    [] /\ before = "quoted" /\ l[i] = "\\"
       /\ i < Len(l) /\ l[i + 1] \in {"\"", "\\"} -> "escape"
    [] before = "quoted" /\ l[i] = "\"" -> "plain"
    [] before = "plain"  /\ l[i] = "\"" -> "quoted"
    [] before = "plain"  /\ l[i] = "#"  -> "comment"
    [] OTHER -> before

\* f is Modes(l).
ModesUp(f, l) ==
  f = [i \in 0..Len(l) |-> IF i = 0 THEN "plain" ELSE ModeAfter(l, i, f[i - 1])]

LEMMA ModeAfterType ==
  ASSUME NEW l, NEW i, NEW before \in ModeSet
  PROVE  ModeAfter(l, i, before) \in ModeSet
  BY DEF ModeAfter, ModeSet

LEMMA ModesExist ==
  ASSUME NEW l, Len(l) \in Nat
  PROVE  \E f \in [0..Len(l) -> ModeSet] : ModesUp(f, l)
  <1> DEFINE step == [p \in Nat \X ModeSet |-> ModeAfter(l, p[1], p[2])]
  <1>1. "plain" \in ModeSet /\ step \in [Nat \X ModeSet -> ModeSet]
    <2>1. \A p \in Nat \X ModeSet : ModeAfter(l, p[1], p[2]) \in ModeSet
      BY ModeAfterType
    <2> QED
      BY <2>1 DEF ModeSet
  <1>2. PICK f \in [0..Len(l) -> ModeSet] : Recurs(f, "plain", step, Len(l))
    <2> HIDE DEF step
    <2> QED
      BY <1>1, Recurse
  <1>3. ASSUME NEW i \in 0..Len(l)
        PROVE  f[i] = IF i = 0 THEN "plain" ELSE ModeAfter(l, i, f[i - 1])
    <2>1. CASE i = 0
      BY <1>2, <2>1 DEF Recurs
    <2>2. CASE i \in 1..Len(l)
      <3>1. i # 0 /\ i \in Nat /\ i - 1 \in 0..Len(l)
        BY <2>2
      <3>2. f[i - 1] \in ModeSet
        BY <1>2, <3>1
      <3>3. f[i] = step[<<i, f[i - 1]>>]
        BY <1>2, <2>2 DEF Recurs
      <3>4. step[<<i, f[i - 1]>>] = ModeAfter(l, i, f[i - 1])
        BY <3>1, <3>2
      <3> HIDE DEF step
      <3> QED
        BY <3>1, <3>3, <3>4
    <2> QED
      BY <2>1, <2>2
  <1>4. ModesUp(f, l)
    <2>1. f = [i \in 0..Len(l) |-> f[i]]
      BY <1>2
    <2> QED
      BY <1>3, <2>1 DEF ModesUp
  <1> QED
    BY <1>2, <1>4

LEMMA ModesUnfold ==
  ASSUME NEW l, Len(l) \in Nat
  PROVE  /\ Modes(l)[0] = "plain"
         /\ \A i \in 0..Len(l) : Modes(l)[i] \in ModeSet
         /\ \A i \in 1..Len(l) : Modes(l)[i] = ModeAfter(l, i, Modes(l)[i - 1])
  <1>1. PICK g \in [0..Len(l) -> ModeSet] : ModesUp(g, l)
    BY ModesExist
  <1> DEFINE F == Modes(l)
  <1>2. F = CHOOSE f : ModesUp(f, l)
    BY DEF Modes, ModesUp, ModeAfter
  <1> HIDE DEF F
  <1>3. ModesUp(F, l)
    BY <1>1, <1>2
  <1>4. \A i \in 0..Len(l) : F[i] = IF i = 0 THEN "plain" ELSE ModeAfter(l, i, F[i - 1])
    BY <1>3 DEF ModesUp
  <1>5. F[0] = "plain"
    BY <1>4
  <1>6. ASSUME NEW i \in 1..Len(l) PROVE F[i] = ModeAfter(l, i, F[i - 1])
    <2>1. i \in 0..Len(l) /\ i # 0
      OBVIOUS
    <2> QED
      BY <1>4, <2>1
  <1> DEFINE S == {i \in Nat : i <= Len(l) => F[i] \in ModeSet}
  <1>7. \A i \in Nat : i \in S
    <2>1. 0 \in S
      BY <1>5 DEF ModeSet
    <2>2. ASSUME NEW i \in Nat, i \in S PROVE i + 1 \in S
      <3> SUFFICES ASSUME i + 1 <= Len(l) PROVE F[i + 1] \in ModeSet
        OBVIOUS
      <3>1. i + 1 \in 1..Len(l) /\ (i + 1) - 1 = i /\ F[i] \in ModeSet
        BY <2>2
      <3>2. F[i + 1] = ModeAfter(l, i + 1, F[i])
        BY <1>6, <3>1
      <3> QED
        BY <3>1, <3>2, ModeAfterType
    <2> HIDE DEF S
    <2> QED
      BY <2>1, <2>2, Induct
  <1>8. \A i \in 0..Len(l) : F[i] \in ModeSet
    BY <1>7
  <1> QED
    BY <1>5, <1>6, <1>8 DEF F

\* From here to the end of a comment.
LEMMA CommentStays ==
  ASSUME NEW l, Len(l) \in Nat, NEW n \in 1..Len(l), Modes(l)[n] = "comment"
  PROVE  \A i \in n..Len(l) : Modes(l)[i] = "comment"
  <1> DEFINE S == {i \in Nat : n <= i /\ i <= Len(l) => Modes(l)[i] = "comment"}
  <1>1. 0 \in S
    OBVIOUS
  <1>2. ASSUME NEW i \in Nat, i \in S PROVE i + 1 \in S
    <2> SUFFICES ASSUME n <= i + 1, i + 1 <= Len(l) PROVE Modes(l)[i + 1] = "comment"
      OBVIOUS
    <2>1. CASE n = i + 1
      BY <2>1
    <2>2. CASE n <= i
      <3>1. Modes(l)[i] = "comment" /\ i + 1 \in 1..Len(l) /\ (i + 1) - 1 = i
        BY <1>2, <2>2
      <3>2. Modes(l)[i + 1] = ModeAfter(l, i + 1, "comment")
        BY <3>1, ModesUnfold
      <3> QED
        BY <3>2 DEF ModeAfter
    <2> QED
      BY <2>1, <2>2
  <1>3. \A i \in Nat : i \in S
    <2> HIDE DEF S
    <2> QED
      BY <1>1, <1>2, Induct
  <1> QED
    BY <1>3


-----------------------------------------------------------------------------
\* The tokens of the first n symbols of a line: ts, and cu if st.

Within(l, n, b, cu) ==
  /\ b \in 1..n /\ \A k \in b..n : ~Separates(l, k)
  /\ cu = Picking(l, TextFrom(l, b))[n]

SoFar(l, n, ts, cu, st) ==
  \E q \in Seq(Nat) :
    /\ q = Picking(Positions(l), Starts(l))[n]
    /\ ts \in Seq(Seq(Symbols)) /\ cu \in Seq(Symbols)
    /\ st = ~Separates(l, n)
    /\ Len(q) = IF st THEN Len(ts) + 1 ELSE Len(ts)
    /\ \A j \in 1..Len(ts) : ts[j] = Picks(l, TextFrom(l, q[j]))
    /\ IF st THEN Within(l, n, q[Len(q)], cu) ELSE cu = <<>>

LEMMA PositionsAre ==
  ASSUME NEW l, Len(l) \in Nat
  PROVE  /\ Positions(l) \in Seq(Nat) /\ Len(Positions(l)) = Len(l)
         /\ \A i \in 1..Len(l) : Positions(l)[i] = i
  BY DEF Positions

LEMMA WithinGrows ==
  ASSUME NEW l \in Seq(Symbols), NEW n \in Nat, n + 1 <= Len(l), ~Separates(l, n + 1),
         NEW b, NEW cu, Within(l, n, b, cu)
  PROVE  Within(l, n + 1, b, IF IsText(l, n + 1) THEN Append(cu, l[n + 1]) ELSE cu)
  <1>1. b \in 1..n /\ \A k \in b..n : ~Separates(l, k)
    BY DEF Within
  <1>2. b \in 1..n + 1 /\ \A k \in b..n + 1 : ~Separates(l, k)
    <2>1. \A k \in b..n + 1 : k \in b..n \/ k = n + 1
      BY <1>1
    <2> QED
      BY <1>1, <2>1
  <1>3. n + 1 \in TextFrom(l, b) <=> IsText(l, n + 1)
    <2>1. n + 1 \in b..Len(l)
      BY <1>1
    <2> QED
      BY <1>2, <2>1 DEF TextFrom
  <1>4. n + 1 \in 1..Len(l) /\ (n + 1) - 1 = n
    OBVIOUS
  <1>5. Picking(l, TextFrom(l, b))[n + 1] =
          IF n + 1 \in TextFrom(l, b) THEN Append(Picking(l, TextFrom(l, b))[n], l[n + 1])
          ELSE Picking(l, TextFrom(l, b))[n]
    BY <1>4, PickingUnfolds
  <1>6. cu = Picking(l, TextFrom(l, b))[n]
    BY DEF Within
  <1> QED
    BY <1>2, <1>3, <1>5, <1>6 DEF Within

LEMMA WithinBegins ==
  ASSUME NEW l \in Seq(Symbols), NEW n \in Nat, n + 1 <= Len(l), ~Separates(l, n + 1)
  PROVE  Within(l, n + 1, n + 1, IF IsText(l, n + 1) THEN Append(<<>>, l[n + 1]) ELSE <<>>)
  <1> DEFINE T == TextFrom(l, n + 1)
  <1>1. n + 1 \in T <=> IsText(l, n + 1)
    BY DEF TextFrom
  <1>2. \A k \in 1..n : k \notin T
    BY DEF TextFrom
  <1> HIDE DEF T
  <1>3. n \in 0..Len(l) /\ n + 1 \in 1..Len(l) /\ (n + 1) - 1 = n
    OBVIOUS
  <1>4. Picking(l, T)[n] = <<>>
    BY <1>2, <1>3, PickingCounts
  <1>5. Picking(l, T)[n + 1] =
          IF n + 1 \in T THEN Append(Picking(l, T)[n], l[n + 1]) ELSE Picking(l, T)[n]
    BY <1>3, PickingUnfolds
  <1>6. n + 1 \in 1..n + 1 /\ \A k \in n + 1..n + 1 : k = n + 1
    OBVIOUS
  <1> QED
    BY <1>1, <1>4, <1>5, <1>6 DEF Within, T

LEMMA WithinEnds ==
  ASSUME NEW l \in Seq(Symbols), NEW n \in 0..Len(l), n = Len(l) \/ Separates(l, n + 1),
         NEW b, NEW cu, Within(l, n, b, cu)
  PROVE  cu = Picks(l, TextFrom(l, b))
  <1>1. b \in 1..n /\ cu = Picking(l, TextFrom(l, b))[n] /\ Len(l) \in Nat
    BY DEF Within
  <1>2. ASSUME NEW k \in n + 1..Len(l) PROVE k \notin TextFrom(l, b)
    <2>1. Separates(l, n + 1) /\ n + 1 \in b..k
      BY <1>1, <1>2
    <2> QED
      BY <2>1 DEF TextFrom
  <1>3. Len(l) \in n..Len(l)
    OBVIOUS
  <1>4. Picking(l, TextFrom(l, b))[Len(l)] = Picking(l, TextFrom(l, b))[n]
    BY <1>2, <1>3, PickingRests
  <1> QED
    BY <1>1, <1>4 DEF Picks

LEMMA StartsPicked ==
  ASSUME NEW l \in Seq(Symbols), NEW n \in Nat, n + 1 <= Len(l)
  PROVE  /\ Picking(Positions(l), Starts(l))[n] \in Seq(Nat)
         /\ Picking(Positions(l), Starts(l))[n + 1] =
              IF ~Separates(l, n + 1) /\ Separates(l, n)
              THEN Append(Picking(Positions(l), Starts(l))[n], n + 1)
              ELSE Picking(Positions(l), Starts(l))[n]
  <1>1. /\ Positions(l) \in Seq(Nat) /\ Len(Positions(l)) = Len(l)
        /\ n + 1 \in 1..Len(l) /\ (n + 1) - 1 = n /\ n \in 0..Len(l)
        /\ Positions(l)[n + 1] = n + 1
    BY PositionsAre
  <1>2. n + 1 \in Starts(l) <=> ~Separates(l, n + 1) /\ Separates(l, n)
    BY <1>1 DEF Starts
  <1>3. Picking(Positions(l), Starts(l))[n] \in Seq(Nat)
    BY <1>1, PickingType
  <1>4. Picking(Positions(l), Starts(l))[n + 1] =
          IF n + 1 \in Starts(l) THEN Append(Picking(Positions(l), Starts(l))[n], n + 1)
          ELSE Picking(Positions(l), Starts(l))[n]
    BY <1>1, PickingUnfolds
  <1> QED
    BY <1>2, <1>3, <1>4

LEMMA SoFarBegins ==
  ASSUME NEW l \in Seq(Symbols)
  PROVE  SoFar(l, 0, <<>>, <<>>, FALSE)
  <1>1. Positions(l) \in Seq(Nat) /\ FALSE = ~Separates(l, 0)
    BY PositionsAre DEF Separates
  <1>2. PICK q : q = <<>>
    OBVIOUS
  <1>3. q = Picking(Positions(l), Starts(l))[0]
    BY <1>1, <1>2, PickingUnfolds
  <1>4. q \in Seq(Nat) /\ Len(q) = 0
    BY <1>2
  <1>5. \A r, u \in {<<>>} :
          r \in Seq(Seq(Symbols)) /\ u \in Seq(Symbols) /\ Len(r) = 0 /\ 1..Len(r) = {}
    OBVIOUS
  <1>6. \A r, u \in {<<>>} : SoFar(l, 0, r, u, FALSE)
    BY <1>1, <1>3, <1>4, <1>5 DEF SoFar
  <1> QED
    BY <1>6

\* A symbol of a token.
LEMMA GrowsInside ==
  ASSUME NEW l \in Seq(Symbols), NEW n \in Nat, n + 1 <= Len(l), ~Separates(l, n + 1),
         NEW ts, NEW cu, NEW st, SoFar(l, n, ts, cu, st)
  PROVE  SoFar(l, n + 1, ts, IF IsText(l, n + 1) THEN Append(cu, l[n + 1]) ELSE cu, TRUE)
  <1> DEFINE more == IF IsText(l, n + 1) THEN Append(cu, l[n + 1]) ELSE cu
  <1>1. PICK q \in Seq(Nat) :
          /\ q = Picking(Positions(l), Starts(l))[n]
          /\ ts \in Seq(Seq(Symbols)) /\ cu \in Seq(Symbols)
          /\ st = ~Separates(l, n)
          /\ Len(q) = IF st THEN Len(ts) + 1 ELSE Len(ts)
          /\ \A j \in 1..Len(ts) : ts[j] = Picks(l, TextFrom(l, q[j]))
          /\ IF st THEN Within(l, n, q[Len(q)], cu) ELSE cu = <<>>
    BY DEF SoFar
  <1>2. more \in Seq(Symbols)
    <2>1. l[n + 1] \in Symbols
      OBVIOUS
    <2> QED
      BY <1>1, <2>1
  <1>3. Picking(Positions(l), Starts(l))[n + 1] =
          IF Separates(l, n) THEN Append(q, n + 1) ELSE q
    BY <1>1, StartsPicked
  <1>4. CASE ~Separates(l, n)
    <2>1. Len(q) = Len(ts) + 1 /\ Within(l, n, q[Len(q)], cu)
      BY <1>1, <1>4
    <2>2. Within(l, n + 1, q[Len(q)], more)
      BY <2>1, WithinGrows
    <2>3. q = Picking(Positions(l), Starts(l))[n + 1]
      BY <1>3, <1>4
    <2> HIDE DEF more
    <2>4. /\ \A j \in 1..Len(ts) : ts[j] = Picks(l, TextFrom(l, q[j]))
          /\ ts \in Seq(Seq(Symbols)) /\ TRUE = ~Separates(l, n + 1)
      BY <1>1
    <2>5. SoFar(l, n + 1, ts, more, TRUE)
      BY <1>2, <2>1, <2>2, <2>3, <2>4 DEF SoFar
    <2> QED
      BY <2>5 DEF more
  <1>5. CASE Separates(l, n)
    <2>1. Len(q) = Len(ts) /\ cu = <<>>
      BY <1>1, <1>5
    <2>2. PICK r : r = Append(q, n + 1)
      OBVIOUS
    <2>3. /\ r \in Seq(Nat) /\ Len(r) = Len(ts) + 1 /\ r[Len(r)] = n + 1
          /\ \A j \in 1..Len(ts) : r[j] = q[j]
      BY <2>1, <2>2, Appended
    <2>4. Within(l, n + 1, n + 1, more)
      BY <2>1, WithinBegins
    <2>5. r = Picking(Positions(l), Starts(l))[n + 1]
      BY <1>3, <1>5, <2>2
    <2> HIDE DEF more
    <2>6. /\ \A j \in 1..Len(ts) : ts[j] = Picks(l, TextFrom(l, r[j]))
          /\ ts \in Seq(Seq(Symbols)) /\ TRUE = ~Separates(l, n + 1)
      BY <1>1, <2>3
    <2>7. Within(l, n + 1, r[Len(r)], more)
      BY <2>3, <2>4
    <2>8. SoFar(l, n + 1, ts, more, TRUE)
      BY <1>2, <2>3, <2>5, <2>6, <2>7 DEF SoFar
    <2> QED
      BY <2>8 DEF more
  <1> QED
    BY <1>4, <1>5

\* What is there of a line's tokens when the one being built is put to the others.
Closed(ts, cu, st) == IF st THEN Append(ts, cu) ELSE ts

\* At a separator, or at the end, the token being built is whole.
LEMMA TokenEnds ==
  ASSUME NEW l \in Seq(Symbols), NEW n \in 0..Len(l), n = Len(l) \/ Separates(l, n + 1),
         NEW ts, NEW cu, NEW st, SoFar(l, n, ts, cu, st)
  PROVE  \E q \in Seq(Nat) :
           /\ q = Picking(Positions(l), Starts(l))[n]
           /\ Closed(ts, cu, st) \in Seq(Seq(Symbols)) /\ Len(Closed(ts, cu, st)) = Len(q)
           /\ \A j \in 1..Len(q) : Closed(ts, cu, st)[j] = Picks(l, TextFrom(l, q[j]))
  <1>1. PICK q \in Seq(Nat) :
          /\ q = Picking(Positions(l), Starts(l))[n]
          /\ ts \in Seq(Seq(Symbols)) /\ cu \in Seq(Symbols)
          /\ st = ~Separates(l, n)
          /\ Len(q) = IF st THEN Len(ts) + 1 ELSE Len(ts)
          /\ \A j \in 1..Len(ts) : ts[j] = Picks(l, TextFrom(l, q[j]))
          /\ IF st THEN Within(l, n, q[Len(q)], cu) ELSE cu = <<>>
    BY DEF SoFar
  <1>2. CASE ~Separates(l, n)
    <2>1. Len(q) = Len(ts) + 1 /\ Within(l, n, q[Len(q)], cu) /\ Closed(ts, cu, st) = Append(ts, cu)
      BY <1>1, <1>2 DEF Closed
    <2>2. cu = Picks(l, TextFrom(l, q[Len(q)]))
      BY <2>1, WithinEnds
    <2>3. PICK z : z = Closed(ts, cu, st)
      OBVIOUS
    <2>4. /\ z \in Seq(Seq(Symbols)) /\ Len(z) = Len(ts) + 1 /\ z[Len(ts) + 1] = cu
          /\ Len(ts) \in Nat /\ \A j \in 1..Len(ts) : z[j] = ts[j]
      BY <1>1, <2>1, <2>3, Appended
    <2>5. ASSUME NEW j \in 1..Len(q) PROVE z[j] = Picks(l, TextFrom(l, q[j]))
      <3>1. CASE j \in 1..Len(ts)
        BY <1>1, <2>4, <3>1
      <3>2. CASE j = Len(ts) + 1
        BY <2>1, <2>2, <2>4, <3>2
      <3> QED
        BY <2>1, <2>4, <3>1, <3>2
    <2> QED
      BY <1>1, <2>1, <2>3, <2>4, <2>5
  <1>3. CASE Separates(l, n)
    <2>1. Len(q) = Len(ts) /\ Closed(ts, cu, st) = ts
      BY <1>1, <1>3 DEF Closed
    <2> QED
      BY <1>1, <2>1
  <1> QED
    BY <1>2, <1>3

\* A blank, or a symbol of a comment.
LEMMA GrowsOut ==
  ASSUME NEW l \in Seq(Symbols), NEW n \in Nat, n + 1 <= Len(l), Separates(l, n + 1),
         NEW ts, NEW cu, NEW st, SoFar(l, n, ts, cu, st)
  PROVE  SoFar(l, n + 1, Closed(ts, cu, st), <<>>, FALSE)
  <1>1. PICK z : z = Closed(ts, cu, st)
    OBVIOUS
  <1>2. n \in 0..Len(l)
    OBVIOUS
  <1>3. PICK q \in Seq(Nat) :
          /\ q = Picking(Positions(l), Starts(l))[n]
          /\ z \in Seq(Seq(Symbols)) /\ Len(z) = Len(q)
          /\ \A j \in 1..Len(q) : z[j] = Picks(l, TextFrom(l, q[j]))
    BY <1>1, <1>2, TokenEnds
  <1>4. q = Picking(Positions(l), Starts(l))[n + 1]
    BY <1>3, StartsPicked
  <1>5. <<>> \in Seq(Symbols) /\ FALSE = ~Separates(l, n + 1)
    OBVIOUS
  <1>6. SoFar(l, n + 1, z, <<>>, FALSE)
    BY <1>3, <1>4, <1>5 DEF SoFar
  <1> QED
    BY <1>1, <1>6

\* At the end of the line.
LEMMA LineEnds ==
  ASSUME NEW l \in Seq(Symbols), NEW ts, NEW cu, NEW st, SoFar(l, Len(l), ts, cu, st)
  PROVE  Closed(ts, cu, st) = TokensOf(l) /\ TokensOf(l) \in Seq(Seq(Symbols))
  <1>1. PICK z : z = Closed(ts, cu, st)
    OBVIOUS
  <1>2. Len(l) \in 0..Len(l) /\ Len(Positions(l)) = Len(l)
    BY PositionsAre
  <1>3. PICK q \in Seq(Nat) :
          /\ q = Picking(Positions(l), Starts(l))[Len(l)]
          /\ z \in Seq(Seq(Symbols)) /\ Len(z) = Len(q)
          /\ \A j \in 1..Len(q) : z[j] = Picks(l, TextFrom(l, q[j]))
    BY <1>1, <1>2, TokenEnds
  <1>4. TokensOf(l) = [j \in 1..Len(q) |-> Picks(l, TextFrom(l, q[j]))]
    <2>1. q = Picks(Positions(l), Starts(l)) /\ DOMAIN q = 1..Len(q)
      BY <1>2, <1>3 DEF Picks
    <2> QED
      BY <2>1 DEF TokensOf
  <1>5. z = [j \in 1..Len(q) |-> z[j]]
    BY <1>3
  <1>6. z = TokensOf(l)
    BY <1>3, <1>4, <1>5
  <1> QED
    BY <1>1, <1>3, <1>6

\* What a comment cuts off holds no token.
LEMMA CommentEnds ==
  ASSUME NEW l \in Seq(Symbols), NEW n \in Nat, n + 1 <= Len(l),
         \A k \in n + 1..Len(l) : Separates(l, k),
         NEW ts, NEW cu, NEW st, SoFar(l, n, ts, cu, st)
  PROVE  SoFar(l, Len(l), Closed(ts, cu, st), <<>>, FALSE)
  <1> DEFINE z == Closed(ts, cu, st)
             G == {k \in Nat : SoFar(l, k, z, <<>>, FALSE)}
             S == {k \in Nat : n + 1 <= k /\ k <= Len(l) => k \in G}
  <1>1. Len(l) \in Nat
    OBVIOUS
  <1>2. n + 1 \in G
    <2>1. Separates(l, n + 1)
      BY <1>1
    <2>2. SoFar(l, n + 1, z, <<>>, FALSE)
      BY <2>1, GrowsOut
    <2>3. n + 1 \in Nat
      OBVIOUS
    <2> QED
      BY <2>2, <2>3, Zenon
  <1>3. ASSUME NEW k \in Nat, n + 1 <= k, k + 1 <= Len(l), k \in G PROVE k + 1 \in G
    <2>1. Separates(l, k + 1)
      BY <1>1, <1>3
    <2>2. SoFar(l, k, z, <<>>, FALSE)
      BY <1>3
    <2>3. Closed(z, <<>>, FALSE) = z
      BY DEF Closed
    <2> HIDE DEF z
    <2>4. SoFar(l, k + 1, Closed(z, <<>>, FALSE), <<>>, FALSE)
      BY <1>3, <2>1, <2>2, GrowsOut
    <2>5. k + 1 \in Nat
      OBVIOUS
    <2>6. SoFar(l, k + 1, z, <<>>, FALSE)
      BY <2>3, <2>4, Zenon
    <2> QED
      BY <2>5, <2>6, Zenon
  <1> HIDE DEF G
  <1>4. 0 \in S
    OBVIOUS
  <1>5. ASSUME NEW k \in Nat, k \in S PROVE k + 1 \in S
    <2> SUFFICES ASSUME n + 1 <= k + 1, k + 1 <= Len(l) PROVE k + 1 \in G
      OBVIOUS
    <2>1. k = n \/ n + 1 <= k
      BY <1>1
    <2> QED
      BY <1>1, <1>2, <1>3, <1>5, <2>1
  <1>6. \A k \in Nat : k \in S
    <2> HIDE DEF S
    <2> QED
      BY <1>4, <1>5, Induct
  <1>7. Len(l) \in G
    BY <1>1, <1>6
  <1> QED
    BY <1>7 DEF G

-----------------------------------------------------------------------------
\* A matcher.

Parsed ==
  {Bad} \cup [kind : {"action", "agent", "reason"}, value : Seq(Symbols)]
        \cup [kind : {"param"}, key : Seq(Symbols), op : Operators, value : Seq(Symbols)]

Condition == {"action", "agent", "param"}

KeyOf(t, k) == (\A j \in 1..k : t[j] \in Words) /\ (k < Len(t) => t[k + 1] \notin Words)

LEMMA KeyIs ==
  ASSUME NEW t \in Seq(Symbols)
  PROVE  /\ KeyLength(t) \in 0..Len(t) /\ KeyOf(t, KeyLength(t))
         /\ \A k \in 0..Len(t) : KeyOf(t, k) => k = KeyLength(t)
  <1> DEFINE S == {k \in 0..Len(t) : \A j \in 1..k : t[j] \in Words}
  <1>1. Len(t) \in Nat
    OBVIOUS
  <1>2. PICK k \in S : \A m \in S : m <= k
    <2>1. 0 \in S
      BY <1>1
    <2> HIDE DEF S
    <2>2. S \in SUBSET (0..Len(t)) /\ S # {}
      BY <2>1 DEF S
    <2> QED
      BY <1>1, <2>2, Greatest
  <1>3. k \in 0..Len(t) /\ KeyOf(t, k)
    <2>1. ASSUME k < Len(t), t[k + 1] \in Words PROVE FALSE
      <3>1. \A j \in 1..k + 1 : j \in 1..k \/ j = k + 1
        BY <1>1
      <3>2. k + 1 \in S
        BY <1>1, <2>1, <3>1
      <3> QED
        BY <1>1, <1>2, <3>2
    <2> QED
      BY <2>1 DEF KeyOf
  <1>4. KeyLength(t) \in 0..Len(t) /\ KeyOf(t, KeyLength(t))
    BY <1>3 DEF KeyLength, KeyOf
  <1>5. ASSUME NEW a \in 0..Len(t), NEW b \in 0..Len(t), KeyOf(t, a), KeyOf(t, b), a < b
        PROVE  FALSE
    <2>1. a + 1 \in 1..b /\ a < Len(t)
      BY <1>1, <1>5
    <2> QED
      BY <1>5, <2>1 DEF KeyOf
  <1>6. ASSUME NEW m \in 0..Len(t), KeyOf(t, m) PROVE m = KeyLength(t)
    <2>1. ~(m < KeyLength(t)) /\ ~(KeyLength(t) < m)
      BY <1>4, <1>5, <1>6
    <2> QED
      BY <1>1, <1>4, <2>1
  <1> QED
    BY <1>4, <1>6

\* A value follows its key and operator.
LEMMA Pieces ==
  ASSUME NEW t \in Seq(Symbols), NEW k \in 1..Len(t) - 1
  PROVE  /\ SubSeq(t, 1, k) \in Seq(Symbols) /\ SubSeq(t, k + 2, Len(t)) \in Seq(Symbols)
         /\ Len(SubSeq(t, 1, k)) = k
         /\ SubSeq(t, k + 2, Len(t)) # <<>> <=> k <= Len(t) - 2
         /\ \A w : SubSeq(t, 1, k) = <<w>> <=> k = 1 /\ t[1] = w
         /\ SubSeq(t, 1, k) \o <<t[k + 1]>> \o SubSeq(t, k + 2, Len(t)) = t
  <1>1. Len(t) \in Nat /\ k \in Nat /\ k + 1 <= Len(t) /\ k >= 1
    OBVIOUS
  <1>2. PICK a : a = SubSeq(t, 1, k)
    OBVIOUS
  <1>3. a \in Seq(Symbols) /\ Len(a) = k /\ \A i \in 1..k : a[i] = t[i]
    BY <1>1, <1>2
  <1>4. PICK b : b = SubSeq(t, k + 2, Len(t))
    OBVIOUS
  <1>5. /\ b \in Seq(Symbols) /\ Len(b) = Len(t) - (k + 1)
        /\ \A i \in 1..Len(b) : b[i] = t[(k + 1) + i]
    BY <1>1, <1>4
  <1>6. b # <<>> <=> k <= Len(t) - 2
    BY <1>1, <1>5
  <1>7. ASSUME NEW w PROVE a = <<w>> <=> k = 1 /\ t[1] = w
    <2>1. ASSUME a = <<w>> PROVE k = 1 /\ t[1] = w
      <3>1. Len(a) = 1 /\ a[1] = w
        BY <2>1
      <3> QED
        BY <1>3, <3>1
    <2>2. ASSUME k = 1, t[1] = w PROVE a = <<w>>
      BY <1>3, <2>2
    <2> QED
      BY <2>1, <2>2
  <1>8. PICK m : m = <<t[k + 1]>>
    OBVIOUS
  <1>9. m \in Seq(Symbols) /\ Len(m) = 1 /\ m[1] = t[k + 1]
    BY <1>1, <1>8
  <1>10. PICK y : y = a \o m
    OBVIOUS
  <1>11. /\ y \in Seq(Symbols) /\ Len(y) = k + 1
         /\ \A i \in 1..k + 1 : y[i] = t[i]
    <2>1. /\ y \in Seq(Symbols) /\ Len(y) = Len(a) + Len(m)
          /\ \A i \in 1..Len(a) + Len(m) : y[i] = IF i <= Len(a) THEN a[i] ELSE m[i - Len(a)]
      BY <1>3, <1>9, <1>10, ConcatProperties
    <2>2. ASSUME NEW i \in 1..k + 1 PROVE y[i] = t[i]
      <3>1. y[i] = IF i <= k THEN a[i] ELSE m[i - k]
        BY <1>3, <1>9, <2>1
      <3>2. CASE i <= k
        BY <1>3, <3>1, <3>2
      <3>3. CASE i = k + 1
        <4>1. i - k = 1
          BY <1>1, <3>3
        <4> QED
          BY <1>1, <1>9, <3>1, <3>3, <4>1
      <3> QED
        BY <1>1, <3>2, <3>3
    <2> QED
      BY <1>3, <1>9, <2>1, <2>2
  <1>12. PICK z : z = y \o b
    OBVIOUS
  <1>13. z = t
    <2>1. /\ z \in Seq(Symbols) /\ Len(z) = Len(y) + Len(b)
          /\ \A i \in 1..Len(y) + Len(b) : z[i] = IF i <= Len(y) THEN y[i] ELSE b[i - Len(y)]
      BY <1>5, <1>11, <1>12, ConcatProperties
    <2>2. Len(z) = Len(t)
      BY <1>1, <1>5, <1>11, <2>1
    <2>3. ASSUME NEW i \in 1..Len(t) PROVE z[i] = t[i]
      <3>1. z[i] = IF i <= k + 1 THEN y[i] ELSE b[i - (k + 1)]
        BY <1>1, <1>5, <1>11, <2>1
      <3>2. CASE i <= k + 1
        BY <1>1, <1>11, <3>1, <3>2
      <3>3. CASE i > k + 1
        <4>1. i - (k + 1) \in 1..Len(b) /\ (k + 1) + (i - (k + 1)) = i
          BY <1>1, <1>5, <3>3
        <4>2. b[i - (k + 1)] = t[(k + 1) + (i - (k + 1))]
          BY <1>5, <4>1
        <4> QED
          BY <1>1, <3>1, <3>3, <4>1, <4>2
      <3> QED
        BY <1>1, <3>2, <3>3
    <2> QED
      BY <2>1, <2>2, <2>3
  <1> QED
    BY <1>2, <1>3, <1>4, <1>5, <1>6, <1>7, <1>8, <1>10, <1>12, <1>13

\* What IsMatcherToken asks of a token whose key is its first k symbols.
Fits(t, k, op, value) ==
  \/ op = ":" /\ k = 1 /\ t[1] \in {"action", "agent"}
  \/ /\ op \in Operators
     /\ k = 1 => t[1] \notin Reserved
     /\ op = "~" => value \notin BadRegexes
     /\ op \in {"<", ">"} => value \in Numbers

\* The key a token has for the grammar is the one keyRe finds.
LEMMA TokenKinds ==
  ASSUME NEW t \in Seq(Symbols), NEW k, k = KeyLength(t)
  PROVE  /\ k \in 0..Len(t) /\ Len(t) \in Nat
         /\ IsMatcherToken(t) <=>
              k \in 1..Len(t) - 2 /\ Fits(t, k, t[k + 1], SubSeq(t, k + 2, Len(t)))
         /\ IsReasonToken(t) <=> k = 1 /\ 1 <= Len(t) - 2 /\ t[1] = "reason" /\ t[k + 1] = ":"
  <1>1. /\ k \in 0..Len(t) /\ Len(t) \in Nat /\ KeyOf(t, k)
        /\ \A m \in 0..Len(t) : KeyOf(t, m) => m = k
    BY KeyIs
  <1>2. /\ \A op \in Operators \cup {":"} : op \notin Words
        /\ "reason" \in Words
    BY WordAssumption DEF Marks, Reserved
  <1>3. ASSUME NEW m \in 1..Len(t) - 2, \A j \in 1..m : t[j] \in Words,
               Fits(t, m, t[m + 1], SubSeq(t, m + 2, Len(t)))
        PROVE  m = k
    <2>1. t[m + 1] \in Operators \cup {":"}
      BY <1>3 DEF Fits
    <2>2. KeyOf(t, m) /\ m \in 0..Len(t)
      BY <1>1, <1>2, <1>3, <2>1 DEF KeyOf
    <2> QED
      BY <1>1, <2>2
  <1>4. IsMatcherToken(t) <=>
          \E m \in 1..Len(t) - 2 :
            (\A j \in 1..m : t[j] \in Words) /\ Fits(t, m, t[m + 1], SubSeq(t, m + 2, Len(t)))
    BY DEF IsMatcherToken, Fits
  <1>5. k \in 1..Len(t) - 2 => \A j \in 1..k : t[j] \in Words
    BY <1>1 DEF KeyOf
  <1>6. IsMatcherToken(t) <=>
          k \in 1..Len(t) - 2 /\ Fits(t, k, t[k + 1], SubSeq(t, k + 2, Len(t)))
    <2> HIDE DEF Fits
    <2> QED
      BY <1>3, <1>4, <1>5
  <1>7. ASSUME IsReasonToken(t) PROVE k = 1
    <2>1. Len(t) > 2 /\ t[1] \in Words /\ t[1 + 1] \notin Words
      BY <1>2, <1>7 DEF IsReasonToken
    <2>2. KeyOf(t, 1) /\ 1 \in 0..Len(t)
      <3>1. \A j \in 1..1 : j = 1
        OBVIOUS
      <3> QED
        BY <1>1, <2>1, <3>1 DEF KeyOf
    <2> QED
      BY <1>1, <2>2
  <1>8. IsReasonToken(t) <=> k = 1 /\ 1 <= Len(t) - 2 /\ t[1] = "reason" /\ t[k + 1] = ":"
    BY <1>1, <1>7 DEF IsReasonToken
  <1> QED
    BY <1>1, <1>6, <1>8

LEMMA PutTogether ==
  ASSUME NEW a, NEW b
  PROVE  <<a>> \o <<b>> = <<a, b>>
  <1>1. PICK r : r = <<a>>
    OBVIOUS
  <1>2. PICK s : s = <<b>>
    OBVIOUS
  <1>3. /\ r \in Seq({a, b}) /\ Len(r) = 1 /\ r[1] = a
        /\ s \in Seq({a, b}) /\ Len(s) = 1 /\ s[1] = b
    BY <1>1, <1>2
  <1>4. /\ r \o s \in Seq({a, b}) /\ Len(r \o s) = Len(r) + Len(s)
        /\ \A i \in 1..Len(r) + Len(s) : (r \o s)[i] = IF i <= Len(r) THEN r[i] ELSE s[i - Len(r)]
    BY <1>3, ConcatProperties
  <1>5. r \o s \in Seq({a, b}) /\ Len(r \o s) = 2 /\ (r \o s)[1] = a /\ (r \o s)[2] = b
    BY <1>3, <1>4
  <1>6. r \o s = <<a, b>>
    <2>1. PICK y : y = r \o s
      OBVIOUS
    <2>2. PICK z : z = <<a, b>>
      OBVIOUS
    <2>3. z \in Seq({a, b}) /\ Len(z) = 2 /\ z[1] = a /\ z[2] = b
      BY <2>2
    <2>4. \A i \in 1..2 : y[i] = z[i]
      <3>1. \A i \in 1..2 : i = 1 \/ i = 2
        OBVIOUS
      <3> QED
        BY <1>5, <2>1, <2>3, <3>1
    <2>5. y = z
      <3>1. y \in Seq({a, b}) /\ Len(y) = 2
        BY <1>5, <2>1
      <3> QED
        BY <2>3, <2>4, <3>1
    <2> QED
      BY <2>1, <2>2, <2>5
  <1> QED
    BY <1>1, <1>2, <1>6

LEMMA MatcherRead ==
  ASSUME NEW t \in Seq(Symbols)
  PROVE  /\ ParseMatcher(t) \in Parsed
         /\ ParseMatcher(t).kind = "reason" <=> IsReasonToken(t)
         /\ ParseMatcher(t).kind \in Condition <=> IsMatcherToken(t)
         /\ ParseMatcher(t) # Bad => Written(ParseMatcher(t)) = t
  <1> PICK k : k = KeyLength(t)
    OBVIOUS
  <1> PICK key : key = SubSeq(t, 1, k)
    OBVIOUS
  <1> PICK op : op = t[k + 1]
    OBVIOUS
  <1> PICK value : value = SubSeq(t, k + 2, Len(t))
    OBVIOUS
  <1> DEFINE named == \E w \in Reserved : key = <<w>>
             bad   == k = 0 \/ k = Len(t)
             worse == \/ op = "~" /\ value \in BadRegexes
                      \/ op \in {"<", ">"} /\ value \notin Numbers
             m     == ParseMatcher(t)
  <1>1. /\ k \in 0..Len(t) /\ Len(t) \in Nat
        /\ IsMatcherToken(t) <=> k \in 1..Len(t) - 2 /\ Fits(t, k, op, value)
        /\ IsReasonToken(t) <=> k = 1 /\ 1 <= Len(t) - 2 /\ t[1] = "reason" /\ op = ":"
    BY TokenKinds
  <1>2. m = IF bad THEN Bad
            ELSE CASE op = ":" ->
                        IF value # <<>> /\ named THEN [kind |-> key[1], value |-> value] ELSE Bad
                   [] op \in Operators /\ ~named /\ value # <<>> ->
                        IF worse THEN Bad
                        ELSE [kind |-> "param", key |-> key, op |-> op, value |-> value]
                   [] OTHER -> Bad
    BY DEF ParseMatcher
  <1> HIDE DEF m
  <1>3. ~bad => /\ key \in Seq(Symbols) /\ value \in Seq(Symbols)
                /\ value # <<>> <=> k <= Len(t) - 2
                /\ \A w : key = <<w>> <=> k = 1 /\ t[1] = w
                /\ key \o <<op>> \o value = t
    <2> SUFFICES ASSUME ~bad
                 PROVE  /\ key \in Seq(Symbols) /\ value \in Seq(Symbols)
                        /\ value # <<>> <=> k <= Len(t) - 2
                        /\ \A w : key = <<w>> <=> k = 1 /\ t[1] = w
                        /\ key \o <<op>> \o value = t
      OBVIOUS
    <2>1. k \in 1..Len(t) - 1
      BY <1>1
    <2> HIDE DEF bad
    <2> QED
      BY <2>1, Pieces
  <1>4. ~bad => (named <=> k = 1 /\ t[1] \in Reserved)
    BY <1>3
  <1> HIDE DEF named
  <1>5. ASSUME m = Bad, ~IsMatcherToken(t), ~IsReasonToken(t)
        PROVE  /\ m \in Parsed
               /\ m.kind = "reason" <=> IsReasonToken(t)
               /\ m.kind \in Condition <=> IsMatcherToken(t)
               /\ m # Bad => Written(m) = t
    <2>1. Bad.kind = "error"
      BY DEF Bad
    <2> QED
      BY <1>5, <2>1 DEF Parsed, Condition
  <1>6. CASE bad
    <2>1. m = Bad
      BY <1>2, <1>6
    <2>2. ~IsMatcherToken(t) /\ ~IsReasonToken(t)
      BY <1>1, <1>6
    <2> QED
      BY <1>5, <2>1, <2>2 DEF m
  <1>7. CASE ~bad /\ op = ":" /\ ~(value # <<>> /\ named)
    <2>1. m = Bad
      BY <1>2, <1>7 DEF Operators
    <2>2. ~(k <= Len(t) - 2) \/ ~(k = 1 /\ t[1] \in Reserved)
      BY <1>3, <1>4, <1>7
    <2>3. ~IsMatcherToken(t) /\ ~IsReasonToken(t)
      BY <1>1, <1>7, <2>2 DEF Fits, Reserved, Operators
    <2> QED
      BY <1>5, <2>1, <2>3 DEF m
  <1>8. CASE ~bad /\ op = ":" /\ value # <<>> /\ named
    <2>1. m = [kind |-> key[1], value |-> value]
      BY <1>2, <1>8
    <2>2. k = 1 /\ t[1] \in Reserved /\ key = <<t[1]>> /\ k <= Len(t) - 2
      BY <1>3, <1>4, <1>8
    <2>3. key[1] = t[1]
      BY <2>2
    <2>4. m = [kind |-> t[1], value |-> value]
      BY <2>1, <2>3
    <2>5. m \in Parsed /\ m.kind = t[1] /\ m.kind # "param" /\ m.value = value
      BY <1>3, <1>8, <2>2, <2>4 DEF Parsed, Reserved
    <2>6. IsMatcherToken(t) <=> t[1] \in {"action", "agent"}
      BY <1>1, <1>8, <2>2 DEF Fits, Operators
    <2>7. IsReasonToken(t) <=> t[1] = "reason"
      BY <1>1, <1>8, <2>2
    <2>8. Written(m) = t
      <3>1. Written(m) = <<t[1], ":">> \o value
        BY <2>5 DEF Written
      <3>2. <<t[1]>> \o <<op>> = <<t[1], ":">>
        BY <1>8, PutTogether
      <3> QED
        BY <1>3, <1>8, <2>2, <3>1, <3>2
    <2> QED
      BY <2>2, <2>5, <2>6, <2>7, <2>8 DEF m, Condition, Reserved
  <1>9. CASE ~bad /\ op \in Operators /\ ~named /\ value # <<>> /\ ~worse
    <2>1. m = [kind |-> "param", key |-> key, op |-> op, value |-> value]
      BY <1>2, <1>9 DEF Operators
    <2>2. m \in Parsed
      BY <1>3, <1>9, <2>1 DEF Parsed
    <2>3. IsMatcherToken(t) /\ ~IsReasonToken(t)
      <3>1. k \in 1..Len(t) - 2
        BY <1>1, <1>3, <1>9
      <3>2. Fits(t, k, op, value)
        BY <1>3, <1>4, <1>9 DEF Fits
      <3> QED
        BY <1>1, <1>9, <3>1, <3>2 DEF Operators
    <2>4. Written(m) = t
      BY <1>3, <1>9, <2>1 DEF Written
    <2> QED
      BY <2>1, <2>2, <2>3, <2>4 DEF m, Condition
  <1>10. CASE ~bad /\ op # ":" /\ ~(op \in Operators /\ ~named /\ value # <<>> /\ ~worse)
    <2>1. m = Bad
      BY <1>2, <1>10
    <2>2. op \in Operators => named \/ ~(k <= Len(t) - 2) \/ worse
      BY <1>3, <1>10
    <2>3. ~IsMatcherToken(t) /\ ~IsReasonToken(t)
      <3>1. CASE op \in Operators /\ k \in 1..Len(t) - 2
        <4>1. named \/ worse
          BY <1>1, <2>2, <3>1
        <4>2. ~Fits(t, k, op, value)
          <5>1. CASE worse
            BY <1>10, <5>1 DEF Fits
          <5>2. CASE named
            BY <1>4, <1>10, <5>2 DEF Fits
          <5> QED
            BY <4>1, <5>1, <5>2
        <4> QED
          BY <1>1, <1>10, <4>2
      <3>2. CASE op \notin Operators
        BY <1>1, <1>10, <3>2 DEF Fits
      <3>3. CASE k \notin 1..Len(t) - 2
        BY <1>1, <1>10, <3>3
      <3> QED
        BY <3>1, <3>2, <3>3
    <2> QED
      BY <1>5, <2>1, <2>3 DEF m
  <1> QED
    BY <1>6, <1>7, <1>8, <1>9, <1>10 DEF m, Operators

-----------------------------------------------------------------------------
\* A rule.

LEMMA PartsAre ==
  ASSUME NEW ts \in Seq(Seq(Symbols)), ts # <<>>
  PROVE  /\ Parts(ts) \in Seq(Parsed) /\ Len(ts) \in Nat /\ Len(ts) >= 1
         /\ Len(Parts(ts)) = Len(ts) - 1 /\ DOMAIN Parts(ts) = 1..Len(ts) - 1
         /\ \A j \in 1..Len(ts) - 1 :
              ts[j + 1] \in Seq(Symbols) /\ Parts(ts)[j] = ParseMatcher(ts[j + 1])
  <1>1. Len(ts) \in Nat /\ Len(ts) >= 1
    OBVIOUS
  <1>2. \A j \in 1..Len(ts) - 1 : ts[j + 1] \in Seq(Symbols)
    <2>1. \A j \in 1..Len(ts) : ts[j] \in Seq(Symbols)
      OBVIOUS
    <2> QED
      BY <1>1, <2>1
  <1>3. \A j \in 1..Len(ts) - 1 : ParseMatcher(ts[j + 1]) \in Parsed
    BY <1>2, MatcherRead
  <1>4. PICK ps : ps = Parts(ts)
    OBVIOUS
  <1>5. ps = [j \in 1..Len(ts) - 1 |-> ParseMatcher(ts[j + 1])]
    BY <1>4 DEF Parts
  <1>6. \A j \in 1..Len(ts) - 1 : ps[j] = ParseMatcher(ts[j + 1])
    BY <1>5
  <1>7. ps \in [1..Len(ts) - 1 -> Parsed] /\ Len(ts) - 1 \in Nat
    <2>1. ps \in [1..Len(ts) - 1 -> Parsed]
      BY <1>3, <1>5
    <2> QED
      BY <1>1, <2>1
  <1>8. ps \in Seq(Parsed) /\ Len(ps) = Len(ts) - 1 /\ DOMAIN ps = 1..Len(ts) - 1
    BY <1>7
  <1> QED
    BY <1>1, <1>2, <1>4, <1>6, <1>8

LEMMA RuleTypes ==
  ASSUME NEW ts \in Seq(Seq(Symbols)), ts # <<>>
  PROVE  MatchersIn(Parts(ts)) \in Seq(Parsed) /\ ReasonsIn(Parts(ts)) \in Seq(Parsed)
  BY PartsAre, PicksType DEF MatchersIn, ReasonsIn

\* parseRule takes the lines that the grammar calls rules.
LEMMA RulesAre ==
  ASSUME NEW ts \in Seq(Seq(Symbols)), ts # <<>>
  PROVE  RuleOK(ts) <=> RuleLine(ts)
  <1> DEFINE n == Len(ts) - 1
  <1> PICK ps : ps = Parts(ts)
    OBVIOUS
  <1>1. /\ ps \in Seq(Parsed) /\ Len(ts) \in Nat /\ Len(ts) >= 1
        /\ Len(ps) = n /\ DOMAIN ps = 1..n
        /\ \A j \in 1..n : ts[j + 1] \in Seq(Symbols) /\ ps[j] = ParseMatcher(ts[j + 1])
    BY PartsAre
  <1> DEFINE R == {j \in DOMAIN ps : ps[j].kind = "reason"}
             C == {j \in DOMAIN ps : ps[j].kind \in Condition}
  <1>2. ASSUME NEW j \in 1..n
        PROVE  /\ j \in R <=> IsReasonToken(ts[j + 1])
               /\ j \in C <=> IsMatcherToken(ts[j + 1])
               /\ ps[j] # Bad <=> IsMatcherToken(ts[j + 1]) \/ IsReasonToken(ts[j + 1])
    <2>1. /\ ps[j] \in Parsed
          /\ ps[j].kind = "reason" <=> IsReasonToken(ts[j + 1])
          /\ ps[j].kind \in Condition <=> IsMatcherToken(ts[j + 1])
      BY <1>1, MatcherRead
    <2>2. ps[j] # Bad <=> ps[j].kind = "reason" \/ ps[j].kind \in Condition
      BY <2>1 DEF Parsed, Bad, Condition
    <2> QED
      BY <1>1, <2>1, <2>2
  <1>3. /\ Len(ReasonsIn(ps)) <= 1 <=> \A j, k \in 1..n : j \in R /\ k \in R => j = k
        /\ MatchersIn(ps) = <<>> <=> \A k \in 1..n : k \notin C
    <2>1. ReasonsIn(ps) = Picks(ps, R) /\ MatchersIn(ps) = Picks(ps, C)
      BY DEF ReasonsIn, MatchersIn, Condition
    <2> HIDE DEF R, C
    <2>0. ps \in Seq(Parsed)
      BY <1>1
    <2> HIDE DEF n
    <2>2. Len(Picks(ps, R)) <= 1 <=> \A j, k \in 1..Len(ps) : j \in R /\ k \in R => j = k
      BY <2>0, PicksCount, Zenon
    <2>3. Picks(ps, C) = <<>> <=> \A k \in 1..Len(ps) : k \notin C
      BY <2>0, PicksCount, Zenon
    <2> QED
      BY <1>1, <2>1, <2>2, <2>3
  <1> HIDE DEF R, C
  <1>4. RuleOK(ts) <=>
          /\ IsEffect(ts[1])
          /\ \A j \in 1..n : IsMatcherToken(ts[j + 1]) \/ IsReasonToken(ts[j + 1])
          /\ \A j, k \in 1..n : IsReasonToken(ts[j + 1]) /\ IsReasonToken(ts[k + 1]) => j = k
          /\ \E j \in 1..n : IsMatcherToken(ts[j + 1])
    <2>1. RuleOK(ts) <=>
            /\ IsEffect(ts[1])
            /\ \A j \in 1..n : ps[j] # Bad
            /\ Len(ReasonsIn(ps)) <= 1
            /\ MatchersIn(ps) # <<>>
      BY <1>1 DEF RuleOK
    <2> HIDE DEF n
    <2> QED
      BY <1>2, <1>3, <2>1
  <1>5. /\ \A j \in 1..n : j + 1 \in 2..Len(ts)
        /\ \A j \in 2..Len(ts) : j - 1 \in 1..n /\ (j - 1) + 1 = j
    BY <1>1
  <1>6. IsEffect(ts[1]) <=> ts[1] \in {<<e>> : e \in Effects}
    BY DEF IsEffect
  <1>7. /\ (\A j \in 1..n : IsMatcherToken(ts[j + 1]) \/ IsReasonToken(ts[j + 1])) <=>
             \A j \in 2..Len(ts) : IsMatcherToken(ts[j]) \/ IsReasonToken(ts[j])
        /\ (\E j \in 1..n : IsMatcherToken(ts[j + 1])) <=>
             \E j \in 2..Len(ts) : IsMatcherToken(ts[j])
    BY <1>5
  <1>8. (\A j, k \in 1..n : IsReasonToken(ts[j + 1]) /\ IsReasonToken(ts[k + 1]) => j = k) <=>
          \A j, k \in 2..Len(ts) : IsReasonToken(ts[j]) /\ IsReasonToken(ts[k]) => j = k
    <2>1. ASSUME \A j, k \in 1..n : IsReasonToken(ts[j + 1]) /\ IsReasonToken(ts[k + 1]) => j = k,
                 NEW j \in 2..Len(ts), NEW k \in 2..Len(ts),
                 IsReasonToken(ts[j]), IsReasonToken(ts[k])
          PROVE  j = k
      <3>1. j - 1 = k - 1
        BY <1>5, <2>1
      <3> QED
        BY <3>1
    <2>2. ASSUME \A j, k \in 2..Len(ts) : IsReasonToken(ts[j]) /\ IsReasonToken(ts[k]) => j = k,
                 NEW j \in 1..n, NEW k \in 1..n,
                 IsReasonToken(ts[j + 1]), IsReasonToken(ts[k + 1])
          PROVE  j = k
      <3>1. j + 1 = k + 1
        BY <1>5, <2>2
      <3> QED
        BY <3>1
    <2> QED
      BY <2>1, <2>2
  <1>9. (\E j \in 2..Len(ts) : IsMatcherToken(ts[j])) => Len(ts) > 1
    BY <1>1
  <1> HIDE DEF n
  <1> QED
    BY <1>4, <1>6, <1>7, <1>8, <1>9 DEF RuleLine

\* Every matcher is kept as it was written.
LEMMA MatchersKept ==
  ASSUME NEW ts \in Seq(Seq(Symbols)), ts # <<>>
  PROVE  Says(MatchersIn(Parts(ts)), MatcherTokens(ts))
  <1> DEFINE n == Len(ts) - 1
  <1> PICK ps : ps = Parts(ts)
    OBVIOUS
  <1>1. /\ ps \in Seq(Parsed) /\ Len(ts) \in Nat /\ Len(ts) >= 1
        /\ Len(ps) = n /\ DOMAIN ps = 1..n
        /\ \A j \in 1..n : ts[j + 1] \in Seq(Symbols) /\ ps[j] = ParseMatcher(ts[j + 1])
    BY PartsAre
  <1> DEFINE C == {j \in DOMAIN ps : ps[j].kind \in Condition}
             Q == {j \in 2..Len(ts) : IsMatcherToken(ts[j])}
             R == {p \in Parsed \X Seq(Symbols) : Written(p[1]) = p[2]}
  <1>2. ASSUME NEW j \in 1..Len(ps)
        PROVE  /\ j \in C <=> j + 1 \in Q
               /\ j \in C => <<ps[j], ts[j + 1]>> \in R
    <2>1. j \in 1..n /\ j + 1 \in 2..Len(ts)
      BY <1>1
    <2>2. /\ ps[j] \in Parsed /\ ts[j + 1] \in Seq(Symbols)
          /\ ps[j].kind \in Condition <=> IsMatcherToken(ts[j + 1])
          /\ ps[j] # Bad => Written(ps[j]) = ts[j + 1]
      BY <1>1, <2>1, MatcherRead
    <2>3. ps[j].kind \in Condition => ps[j] # Bad
      BY DEF Bad, Condition
    <2> QED
      BY <1>1, <2>1, <2>2, <2>3
  <1>3. 1 \notin Q /\ Len(ts) = Len(ps) + 1
    BY <1>1
  <1>4. MatchersIn(ps) = Picks(ps, C) /\ MatcherTokens(ts) = Picks(ts, Q)
    BY DEF MatchersIn, MatcherTokens, Condition
  <1> HIDE DEF C, Q
  <1>4a. /\ Len(Picks(ps, C)) = Len(Picks(ts, Q))
        /\ \A k \in 1..Len(Picks(ps, C)) : <<Picks(ps, C)[k], Picks(ts, Q)[k]>> \in R
    <2>1. \A i \in 1..Len(ps) : i \in C <=> i + 1 \in Q
      BY <1>2
    <2>2. \A i \in 1..Len(ps) : i \in C => <<ps[i], ts[i + 1]>> \in R
      BY <1>2
    <2>3. ps \in Seq(Parsed)
      BY <1>1
    <2> HIDE DEF R, n
    <2>4. Beside(ps, C, ts, Q, R)
      BY <1>3, <2>1, <2>2 DEF Beside
    <2> QED
      BY <2>3, <2>4, PickTogether
  <1> PICK ms : ms = Picks(ps, C)
    OBVIOUS
  <1> PICK qs : qs = Picks(ts, Q)
    OBVIOUS
  <1>5. /\ Len(ms) = Len(qs)
        /\ \A k \in 1..Len(ms) : <<ms[k], qs[k]>> \in R
    <2> HIDE DEF R
    <2> QED
      BY <1>4a
  <1>6. ms \in Seq(Parsed) /\ qs \in Seq(Seq(Symbols))
    BY <1>1, PicksType
  <1>7. \A k \in 1..Len(ms) : Written(ms[k]) = qs[k]
    BY <1>5
  <1>8. qs = [k \in 1..Len(ms) |-> qs[k]] /\ DOMAIN ms = 1..Len(ms)
    BY <1>5, <1>6
  <1>9. [k \in DOMAIN ms |-> Written(ms[k])] = qs
    BY <1>7, <1>8
  <1> QED
    BY <1>4, <1>9 DEF Says

\* And so is the reason.
LEMMA ReasonsKept ==
  ASSUME NEW ts \in Seq(Seq(Symbols)), ts # <<>>
  PROVE  Says(ReasonsIn(Parts(ts)), ReasonTokens(ts))
  <1> DEFINE n == Len(ts) - 1
  <1> PICK ps : ps = Parts(ts)
    OBVIOUS
  <1>1. /\ ps \in Seq(Parsed) /\ Len(ts) \in Nat /\ Len(ts) >= 1
        /\ Len(ps) = n /\ DOMAIN ps = 1..n
        /\ \A j \in 1..n : ts[j + 1] \in Seq(Symbols) /\ ps[j] = ParseMatcher(ts[j + 1])
    BY PartsAre
  <1> DEFINE C == {j \in DOMAIN ps : ps[j].kind = "reason"}
             Q == {j \in 2..Len(ts) : IsReasonToken(ts[j])}
             R == {p \in Parsed \X Seq(Symbols) : Written(p[1]) = p[2]}
  <1>2. ASSUME NEW j \in 1..Len(ps)
        PROVE  /\ j \in C <=> j + 1 \in Q
               /\ j \in C => <<ps[j], ts[j + 1]>> \in R
    <2>1. j \in 1..n /\ j + 1 \in 2..Len(ts)
      BY <1>1
    <2>2. /\ ps[j] \in Parsed /\ ts[j + 1] \in Seq(Symbols)
          /\ ps[j].kind = "reason" <=> IsReasonToken(ts[j + 1])
          /\ ps[j] # Bad => Written(ps[j]) = ts[j + 1]
      BY <1>1, <2>1, MatcherRead
    <2>3. ps[j].kind = "reason" => ps[j] # Bad
      BY DEF Bad
    <2> QED
      BY <1>1, <2>1, <2>2, <2>3
  <1>3. 1 \notin Q /\ Len(ts) = Len(ps) + 1
    BY <1>1
  <1>4. ReasonsIn(ps) = Picks(ps, C) /\ ReasonTokens(ts) = Picks(ts, Q)
    BY DEF ReasonsIn, ReasonTokens
  <1> HIDE DEF C, Q
  <1>4a. /\ Len(Picks(ps, C)) = Len(Picks(ts, Q))
        /\ \A k \in 1..Len(Picks(ps, C)) : <<Picks(ps, C)[k], Picks(ts, Q)[k]>> \in R
    <2>1. \A i \in 1..Len(ps) : i \in C <=> i + 1 \in Q
      BY <1>2
    <2>2. \A i \in 1..Len(ps) : i \in C => <<ps[i], ts[i + 1]>> \in R
      BY <1>2
    <2>3. ps \in Seq(Parsed)
      BY <1>1
    <2> HIDE DEF R, n
    <2>4. Beside(ps, C, ts, Q, R)
      BY <1>3, <2>1, <2>2 DEF Beside
    <2> QED
      BY <2>3, <2>4, PickTogether
  <1> PICK ms : ms = Picks(ps, C)
    OBVIOUS
  <1> PICK qs : qs = Picks(ts, Q)
    OBVIOUS
  <1>5. /\ Len(ms) = Len(qs)
        /\ \A k \in 1..Len(ms) : <<ms[k], qs[k]>> \in R
    <2> HIDE DEF R
    <2> QED
      BY <1>4a
  <1>6. ms \in Seq(Parsed) /\ qs \in Seq(Seq(Symbols))
    BY <1>1, PicksType
  <1>7. \A k \in 1..Len(ms) : Written(ms[k]) = qs[k]
    BY <1>5
  <1>8. qs = [k \in 1..Len(ms) |-> qs[k]] /\ DOMAIN ms = 1..Len(ms)
    BY <1>5, <1>6
  <1>9. [k \in DOMAIN ms |-> Written(ms[k])] = qs
    BY <1>7, <1>8
  <1> QED
    BY <1>4, <1>9 DEF Says

-----------------------------------------------------------------------------
\* One symbol of the scan.

\* The first n symbols are read, and quoted says whether a quote is open after them.
Scanned(l, n, ts, cu, st, quoted) ==
  /\ n \in 0..Len(l)
  /\ SoFar(l, n, ts, cu, st)
  /\ Modes(l)[n] = IF quoted THEN "quoted" ELSE "plain"

\* A comment begins after the first n symbols.
Commented(l, n, ts, cu, st) ==
  /\ n \in Nat /\ n + 1 <= Len(l) /\ l[n + 1] = "#" /\ Modes(l)[n] = "plain"
  /\ SoFar(l, n, ts, cu, st)

LEMMA ModeNext ==
  ASSUME NEW l \in Seq(Symbols), NEW n \in Nat, n + 1 <= Len(l)
  PROVE  /\ Modes(l)[n + 1] = ModeAfter(l, n + 1, Modes(l)[n])
         /\ Separates(l, n + 1) <=>
              Modes(l)[n + 1] = "comment" \/ (Modes(l)[n] = "plain" /\ l[n + 1] = " ")
         /\ IsText(l, n + 1) <=>
              \/ Modes(l)[n] = "escape"
              \/ Modes(l)[n] = Modes(l)[n + 1] /\ ~Separates(l, n + 1)
  <1>1. n + 1 \in 1..Len(l) /\ (n + 1) - 1 = n /\ n + 1 # 0 /\ Len(l) \in Nat
    OBVIOUS
  <1>2. Modes(l)[n + 1] = ModeAfter(l, n + 1, Modes(l)[n])
    BY <1>1, ModesUnfold
  <1>3. Separates(l, n + 1) <=>
          Modes(l)[n + 1] = "comment" \/ (Modes(l)[n] = "plain" /\ l[n + 1] = " ")
    BY <1>1 DEF Separates
  <1>4. IsText(l, n + 1) <=>
          \/ Modes(l)[n] = "escape"
          \/ Modes(l)[n] = Modes(l)[n + 1] /\ ~Separates(l, n + 1)
    BY <1>1 DEF IsText
  <1> QED
    BY <1>2, <1>3, <1>4

LEMMA Advances ==
  ASSUME NEW l \in Seq(Symbols), NEW n \in Nat, n + 1 <= Len(l)
  PROVE  /\ n + 1 \in 0..Len(l) /\ n + 1 \in 1..Len(l) /\ n + 1 \in Nat
         /\ (n + 1) + 1 = n + 2
  OBVIOUS

LEMMA ModeNextButOne ==
  ASSUME NEW l \in Seq(Symbols), NEW n \in Nat, n + 2 <= Len(l)
  PROVE  /\ n + 1 <= Len(l) /\ n + 1 < Len(l) /\ n + 2 \in 0..Len(l)
         /\ n + 1 \in Nat /\ (n + 1) + 1 = n + 2
         /\ Modes(l)[n + 2] = ModeAfter(l, n + 2, Modes(l)[n + 1])
         /\ Separates(l, n + 2) <=>
              Modes(l)[n + 2] = "comment" \/ (Modes(l)[n + 1] = "plain" /\ l[n + 2] = " ")
         /\ IsText(l, n + 2) <=>
              \/ Modes(l)[n + 1] = "escape"
              \/ Modes(l)[n + 1] = Modes(l)[n + 2] /\ ~Separates(l, n + 2)
  <1>1. /\ n + 1 <= Len(l) /\ n + 1 < Len(l) /\ n + 2 \in 0..Len(l)
        /\ n + 1 \in Nat /\ (n + 1) + 1 = n + 2 /\ (n + 1) + 1 <= Len(l)
    OBVIOUS
  <1>2. PICK m \in Nat : m = n + 1 /\ m + 1 = n + 2 /\ m + 1 <= Len(l)
    BY <1>1
  <1>3. /\ Modes(l)[m + 1] = ModeAfter(l, m + 1, Modes(l)[m])
        /\ Separates(l, m + 1) <=>
             Modes(l)[m + 1] = "comment" \/ (Modes(l)[m] = "plain" /\ l[m + 1] = " ")
        /\ IsText(l, m + 1) <=>
             \/ Modes(l)[m] = "escape"
             \/ Modes(l)[m] = Modes(l)[m + 1] /\ ~Separates(l, m + 1)
    BY <1>2, ModeNext, Zenon
  <1> QED
    BY <1>1, <1>2, <1>3, Zenon

LEMMA ScanBegins ==
  ASSUME NEW l \in Seq(Symbols)
  PROVE  Scanned(l, 0, <<>>, <<>>, FALSE, FALSE)
  <1>1. Modes(l)[0] = "plain" /\ 0 \in 0..Len(l)
    BY ModesUnfold
  <1> QED
    BY <1>1, SoFarBegins DEF Scanned

LEMMA ScanOpens ==
  ASSUME NEW l \in Seq(Symbols), NEW n \in Nat, n + 1 <= Len(l), l[n + 1] = "\"",
         NEW ts, NEW cu, NEW st, Scanned(l, n, ts, cu, st, FALSE)
  PROVE  Scanned(l, n + 1, ts, cu, TRUE, TRUE)
  <1>1. SoFar(l, n, ts, cu, st) /\ Modes(l)[n] = "plain"
    BY DEF Scanned
  <1>2. Modes(l)[n + 1] = "quoted"
    BY <1>1, ModeNext DEF ModeAfter
  <1>3. ~Separates(l, n + 1) /\ ~IsText(l, n + 1)
    BY <1>1, <1>2, ModeNext
  <1>4. SoFar(l, n + 1, ts, cu, TRUE)
    BY <1>1, <1>3, GrowsInside
  <1>5. n + 1 \in 0..Len(l)
    BY Advances, Zenon
  <1> QED
    BY <1>2, <1>4, <1>5 DEF Scanned

LEMMA ScanCloses ==
  ASSUME NEW l \in Seq(Symbols), NEW n \in Nat, n + 1 <= Len(l), l[n + 1] = "\"",
         NEW ts, NEW cu, NEW st, Scanned(l, n, ts, cu, st, TRUE)
  PROVE  Scanned(l, n + 1, ts, cu, TRUE, FALSE)
  <1>1. SoFar(l, n, ts, cu, st) /\ Modes(l)[n] = "quoted"
    BY DEF Scanned
  <1>2. Modes(l)[n + 1] = "plain"
    BY <1>1, ModeNext DEF ModeAfter
  <1>3. ~Separates(l, n + 1) /\ ~IsText(l, n + 1)
    BY <1>1, <1>2, ModeNext
  <1>4. SoFar(l, n + 1, ts, cu, TRUE)
    BY <1>1, <1>3, GrowsInside
  <1>5. n + 1 \in 0..Len(l)
    BY Advances, Zenon
  <1> QED
    BY <1>2, <1>4, <1>5 DEF Scanned

LEMMA ScanBlank ==
  ASSUME NEW l \in Seq(Symbols), NEW n \in Nat, n + 1 <= Len(l), l[n + 1] = " ",
         NEW ts, NEW cu, NEW st, Scanned(l, n, ts, cu, st, FALSE)
  PROVE  Scanned(l, n + 1, Closed(ts, cu, st), <<>>, FALSE, FALSE)
  <1>1. SoFar(l, n, ts, cu, st) /\ Modes(l)[n] = "plain"
    BY DEF Scanned
  <1>2. Modes(l)[n + 1] = "plain"
    BY <1>1, ModeNext DEF ModeAfter
  <1>3. Separates(l, n + 1)
    BY <1>1, <1>2, ModeNext
  <1>4. SoFar(l, n + 1, Closed(ts, cu, st), <<>>, FALSE)
    BY <1>1, <1>3, GrowsOut
  <1>5. n + 1 \in 0..Len(l)
    BY Advances, Zenon
  <1> QED
    BY <1>2, <1>4, <1>5 DEF Scanned

\* Two symbols: the backslash, and what it escapes.
LEMMA ScanEscape ==
  ASSUME NEW l \in Seq(Symbols), NEW n \in Nat, n + 2 <= Len(l),
         l[n + 1] = "\\", l[n + 2] \in {"\"", "\\"},
         NEW ts, NEW cu, NEW st, Scanned(l, n, ts, cu, st, TRUE)
  PROVE  Scanned(l, n + 2, ts, Append(cu, l[n + 2]), TRUE, TRUE)
  <1>1. SoFar(l, n, ts, cu, st) /\ Modes(l)[n] = "quoted"
    BY DEF Scanned
  <1>2. n + 1 <= Len(l) /\ n + 1 < Len(l) /\ (n + 1) + 1 = n + 2 /\ n + 1 \in Nat
    BY ModeNextButOne, Zenon
  <1>3. Modes(l)[n + 1] = "escape"
    BY <1>1, <1>2, ModeNext DEF ModeAfter
  <1>4. ~Separates(l, n + 1) /\ ~IsText(l, n + 1)
    BY <1>1, <1>2, <1>3, ModeNext
  <1>5. SoFar(l, n + 1, ts, cu, TRUE)
    BY <1>1, <1>2, <1>4, GrowsInside
  <1>6. /\ Modes(l)[n + 2] = ModeAfter(l, n + 2, Modes(l)[n + 1])
        /\ Separates(l, n + 2) <=>
             Modes(l)[n + 2] = "comment" \/ (Modes(l)[n + 1] = "plain" /\ l[n + 2] = " ")
        /\ IsText(l, n + 2) <=>
             \/ Modes(l)[n + 1] = "escape"
             \/ Modes(l)[n + 1] = Modes(l)[n + 2] /\ ~Separates(l, n + 2)
    BY ModeNextButOne, Zenon
  <1>7. Modes(l)[n + 2] = "quoted"
    BY <1>3, <1>6 DEF ModeAfter
  <1>8. ~Separates(l, n + 2) /\ IsText(l, n + 2)
    BY <1>3, <1>6, <1>7
  <1>9. SoFar(l, n + 2, ts, Append(cu, l[n + 2]), TRUE)
    <2>1. PICK m \in Nat : m = n + 1 /\ m + 1 = n + 2
      BY <1>2, Zenon
    <2>2. SoFar(l, m + 1, ts, IF IsText(l, m + 1) THEN Append(cu, l[m + 1]) ELSE cu, TRUE)
      BY <1>2, <1>5, <1>8, <2>1, GrowsInside
    <2> QED
      BY <1>8, <2>1, <2>2
  <1>10. n + 2 \in 0..Len(l)
    BY ModeNextButOne, Zenon
  <1> QED
    BY <1>7, <1>9, <1>10 DEF Scanned

\* A symbol that is copied.
LEMMA ScanText ==
  ASSUME NEW l \in Seq(Symbols), NEW n \in Nat, n + 1 <= Len(l), NEW quoted,
         \/ l[n + 1] \notin Special(quoted)
         \/ quoted /\ l[n + 1] = "\\" /\ (n + 1 < Len(l) => l[n + 2] \notin {"\"", "\\"}),
         NEW ts, NEW cu, NEW st, Scanned(l, n, ts, cu, st, quoted)
  PROVE  Scanned(l, n + 1, ts, Append(cu, l[n + 1]), TRUE, quoted)
  <1>1. /\ SoFar(l, n, ts, cu, st)
        /\ Modes(l)[n] = IF quoted THEN "quoted" ELSE "plain"
    BY DEF Scanned
  <1>2. (n + 1) + 1 = n + 2
    BY Advances, Zenon
  <1>3. Modes(l)[n + 1] = Modes(l)[n]
    <2>1. CASE quoted
      BY <1>1, <1>2, <2>1, ModeNext DEF ModeAfter, Special
    <2>2. CASE ~quoted
      BY <1>1, <2>2, ModeNext DEF ModeAfter, Special
    <2> QED
      BY <2>1, <2>2
  <1>4. ~Separates(l, n + 1) /\ IsText(l, n + 1)
    <2>1. ~quoted => l[n + 1] # " "
      BY DEF Special
    <2> QED
      BY <1>1, <1>3, <2>1, ModeNext
  <1>5. SoFar(l, n + 1, ts, Append(cu, l[n + 1]), TRUE)
    BY <1>1, <1>4, GrowsInside
  <1>6. n + 1 \in 0..Len(l)
    BY Advances, Zenon
  <1> QED
    BY <1>1, <1>3, <1>5, <1>6 DEF Scanned

\* What the scan has when it comes to the end of the line.
LEMMA ScanEnds ==
  ASSUME NEW l \in Seq(Symbols), NEW ts, NEW cu, NEW st, NEW quoted,
         Scanned(l, Len(l), ts, cu, st, quoted)
  PROVE  /\ quoted <=> Unclosed(l)
         /\ Closed(ts, cu, st) = TokensOf(l) /\ TokensOf(l) \in Seq(Seq(Symbols))
  <1>1. /\ SoFar(l, Len(l), ts, cu, st)
        /\ Modes(l)[Len(l)] = IF quoted THEN "quoted" ELSE "plain"
    BY DEF Scanned
  <1>2. quoted <=> Unclosed(l)
    BY <1>1 DEF Unclosed
  <1> QED
    BY <1>1, <1>2, LineEnds

LEMMA CommentScanned ==
  ASSUME NEW l \in Seq(Symbols), NEW n, NEW ts, NEW cu, NEW st, Commented(l, n, ts, cu, st)
  PROVE  /\ ~Unclosed(l)
         /\ Closed(ts, cu, st) = TokensOf(l) /\ TokensOf(l) \in Seq(Seq(Symbols))
  <1>1. /\ n \in Nat /\ n + 1 <= Len(l) /\ l[n + 1] = "#" /\ Modes(l)[n] = "plain"
        /\ SoFar(l, n, ts, cu, st) /\ Len(l) \in Nat
    BY DEF Commented
  <1>2. Modes(l)[n + 1] = "comment" /\ n + 1 \in 1..Len(l)
    <2>1. n + 1 \in 1..Len(l) /\ Modes(l)[n + 1] = ModeAfter(l, n + 1, "plain")
      <3>1. n + 1 \in 1..Len(l)
        BY <1>1, Advances, Zenon
      <3>2. Modes(l)[n + 1] = ModeAfter(l, n + 1, Modes(l)[n])
        BY <1>1, ModeNext, Zenon
      <3> QED
        BY <1>1, <3>1, <3>2, Zenon
    <2>2. ModeAfter(l, n + 1, "plain") = "comment"
      BY <1>1 DEF ModeAfter
    <2> QED
      BY <2>1, <2>2, Zenon
  <1>3. \A k \in n + 1..Len(l) : Modes(l)[k] = "comment"
    BY <1>1, <1>2, CommentStays
  <1>4. \A k \in n + 1..Len(l) : Separates(l, k)
    BY <1>3 DEF Separates
  <1>5. SoFar(l, Len(l), Closed(ts, cu, st), <<>>, FALSE)
    BY <1>1, <1>4, CommentEnds
  <1>6. Closed(Closed(ts, cu, st), <<>>, FALSE) = Closed(ts, cu, st)
    BY DEF Closed
  <1>7. Closed(ts, cu, st) = TokensOf(l) /\ TokensOf(l) \in Seq(Seq(Symbols))
    <2>1. Closed(Closed(ts, cu, st), <<>>, FALSE) = TokensOf(l) /\ TokensOf(l) \in Seq(Seq(Symbols))
      BY <1>5, LineEnds
    <2> QED
      BY <1>6, <2>1, Zenon
  <1>8. ~Unclosed(l)
    <2>1. Len(l) \in n + 1..Len(l)
      BY <1>1
    <2> QED
      BY <1>3, <2>1 DEF Unclosed
  <1> QED
    BY <1>7, <1>8

-----------------------------------------------------------------------------
\* One line of the text.

DefaultsOf(tx) == {n \in DOMAIN tx : DefaultLine(TokensOf(tx[n]))}
RulesOf(tx)    == {n \in DOMAIN tx : RuleLine(TokensOf(tx[n]))}

\* The n-th line is what the grammar allows.
Passes(tx, n) ==
  /\ ~Unclosed(tx[n])
  /\ \/ EmptyLine(TokensOf(tx[n])) \/ DefaultLine(TokensOf(tx[n])) \/ RuleLine(TokensOf(tx[n]))

\* p has the default that the first n lines set.
DefaultRead(tx, n, p) ==
  IF p.defaultLine = 0
  THEN p.default = "ask" /\ \A m \in 1..n : m \notin DefaultsOf(tx)
  ELSE /\ p.defaultLine \in 1..n /\ p.defaultLine \in DefaultsOf(tx)
       /\ <<p.default>> = TokensOf(tx[p.defaultLine])[2]
       /\ \A m \in 1..n : m \in DefaultsOf(tx) => m = p.defaultLine

\* r is what the n-th line says.
SameRule(tx, n, r) ==
  /\ r.line = n
  /\ <<r.effect>> = TokensOf(tx[n])[1]
  /\ Says(r.matchers, MatcherTokens(TokensOf(tx[n])))
  /\ Says(r.reason, ReasonTokens(TokensOf(tx[n])))

\* rs are the rules of the first n lines.
RulesRead(tx, n, rs) ==
  \E q \in Seq(Nat) :
    /\ q = Picking(Positions(tx), RulesOf(tx))[n]
    /\ Len(rs) = Len(q)
    /\ \A k \in 1..Len(q) : SameRule(tx, q[k], rs[k])

ReadUpTo(tx, n, p) ==
  /\ \A m \in 1..n : Passes(tx, m)
  /\ DefaultRead(tx, n, p)
  /\ RulesRead(tx, n, p.rules)

Rule     == [effect : Effects, line : Nat, reason : Seq(Parsed), matchers : Seq(Parsed)]
Policies == [rules : Seq(Rule), default : Effects, defaultLine : Nat]

\* No line is of two kinds.
LEMMA OneKind ==
  ASSUME NEW ts
  PROVE  /\ EmptyLine(ts) => ~DefaultLine(ts) /\ ~RuleLine(ts)
         /\ DefaultLine(ts) => ~RuleLine(ts) /\ ts # <<>> /\ IsDefault(ts)
         /\ RuleLine(ts) => ts # <<>> /\ ~IsDefault(ts)
  <1>1. \A e \in Effects : Len(<<<<"default">>, <<e>>>>) = 2 /\ <<<<"default">>, <<e>>>>[1] = <<"default">>
    OBVIOUS
  <1>2. Len(<<>>) = 0
    OBVIOUS
  <1>3. \A e \in Effects : <<"default">> # <<e>>
    BY DEF Effects
  <1>4. DefaultLine(ts) => Len(ts) = 2 /\ ts[1] = <<"default">>
    BY <1>1 DEF DefaultLine
  <1>5. RuleLine(ts) => Len(ts) > 1 /\ ts[1] # <<"default">>
    BY <1>3 DEF RuleLine
  <1>6. EmptyLine(ts) => Len(ts) = 0
    BY <1>2 DEF EmptyLine
  <1> QED
    BY <1>2, <1>4, <1>5, <1>6 DEF IsDefault

LEMMA DefaultsAre ==
  ASSUME NEW ts \in Seq(Seq(Symbols)), IsDefault(ts)
  PROVE  DefaultLine(ts) <=> Len(ts) = 2 /\ IsEffect(ts[2])
  <1>1. ASSUME Len(ts) = 2, NEW e \in Effects, ts[2] = <<e>>
        PROVE  ts = <<<<"default">>, <<e>>>>
    <2>1. PICK a : a = <<"default">>
      OBVIOUS
    <2>2. PICK b : b = <<e>>
      OBVIOUS
    <2>3. ts[1] = a /\ ts[2] = b
      BY <1>1, <2>1, <2>2 DEF IsDefault
    <2>4. ts = <<a, b>>
      BY <1>1, <2>3
    <2> QED
      BY <2>1, <2>2, <2>4
  <1>2. ASSUME NEW e \in Effects, ts = <<<<"default">>, <<e>>>>
        PROVE  Len(ts) = 2 /\ ts[2] = <<e>>
    BY <1>2
  <1> QED
    BY <1>1, <1>2 DEF DefaultLine, IsEffect

LEMMA RulesPicked ==
  ASSUME NEW tx \in Seq(Seq(Symbols)), NEW n \in Nat, n + 1 <= Len(tx)
  PROVE  /\ Picking(Positions(tx), RulesOf(tx))[n] \in Seq(Nat)
         /\ Picking(Positions(tx), RulesOf(tx))[n + 1] =
              IF RuleLine(TokensOf(tx[n + 1]))
              THEN Append(Picking(Positions(tx), RulesOf(tx))[n], n + 1)
              ELSE Picking(Positions(tx), RulesOf(tx))[n]
  <1>1. /\ Positions(tx) \in Seq(Nat) /\ Len(Positions(tx)) = Len(tx)
        /\ n + 1 \in 1..Len(tx) /\ (n + 1) - 1 = n /\ n \in 0..Len(tx)
        /\ Positions(tx)[n + 1] = n + 1
    BY PositionsAre
  <1>2. n + 1 \in RulesOf(tx) <=> RuleLine(TokensOf(tx[n + 1]))
    BY <1>1 DEF RulesOf
  <1>3. Picking(Positions(tx), RulesOf(tx))[n] \in Seq(Nat)
    BY <1>1, PickingType
  <1>4. Picking(Positions(tx), RulesOf(tx))[n + 1] =
          IF n + 1 \in RulesOf(tx) THEN Append(Picking(Positions(tx), RulesOf(tx))[n], n + 1)
          ELSE Picking(Positions(tx), RulesOf(tx))[n]
    BY <1>1, PickingUnfolds
  <1> QED
    BY <1>2, <1>3, <1>4

LEMMA ReadBegins ==
  ASSUME NEW tx \in Seq(Seq(Symbols)), NEW p, p.defaultLine = 0, p.default = "ask", p.rules = <<>>
  PROVE  ReadUpTo(tx, 0, p)
  <1>1. Positions(tx) \in Seq(Nat)
    BY PositionsAre
  <1>2. PICK q : q = <<>>
    OBVIOUS
  <1>3. q = Picking(Positions(tx), RulesOf(tx))[0]
    BY <1>1, <1>2, PickingUnfolds
  <1>4. q \in Seq(Nat) /\ Len(q) = 0 /\ Len(p.rules) = Len(q)
    BY <1>2
  <1>5. RulesRead(tx, 0, p.rules)
    BY <1>3, <1>4 DEF RulesRead
  <1> QED
    BY <1>5 DEF ReadUpTo, DefaultRead

\* The rules stay the same over a line that has none.
LEMMA RulesStay ==
  ASSUME NEW tx \in Seq(Seq(Symbols)), NEW n \in Nat, n + 1 <= Len(tx),
         ~RuleLine(TokensOf(tx[n + 1])), NEW rs, RulesRead(tx, n, rs)
  PROVE  RulesRead(tx, n + 1, rs)
  <1>1. Picking(Positions(tx), RulesOf(tx))[n + 1] = Picking(Positions(tx), RulesOf(tx))[n]
    BY RulesPicked
  <1> QED
    BY <1>1 DEF RulesRead

\* So does the default over a line that sets none.
LEMMA DefaultStays ==
  ASSUME NEW tx \in Seq(Seq(Symbols)), NEW n \in Nat, n + 1 <= Len(tx),
         ~DefaultLine(TokensOf(tx[n + 1])), NEW p, NEW r,
         r.default = p.default, r.defaultLine = p.defaultLine, DefaultRead(tx, n, p)
  PROVE  DefaultRead(tx, n + 1, r)
  <1>1. n + 1 \notin DefaultsOf(tx)
    BY DEF DefaultsOf
  <1>2. \A m \in 1..n + 1 : m \in 1..n \/ m = n + 1
    OBVIOUS
  <1>3. \A m \in 1..n : m \in 1..n + 1
    OBVIOUS
  <1> QED
    BY <1>1, <1>2, <1>3 DEF DefaultRead

LEMMA SkipRead ==
  ASSUME NEW tx \in Seq(Seq(Symbols)), NEW n \in Nat, n + 1 <= Len(tx), NEW p,
         ~Unclosed(tx[n + 1]), TokensOf(tx[n + 1]) = <<>>, ReadUpTo(tx, n, p)
  PROVE  ReadUpTo(tx, n + 1, p)
  <1>1. EmptyLine(TokensOf(tx[n + 1]))
    BY DEF EmptyLine
  <1>2. ~DefaultLine(TokensOf(tx[n + 1])) /\ ~RuleLine(TokensOf(tx[n + 1])) /\ Passes(tx, n + 1)
    BY <1>1, OneKind DEF Passes
  <1>3. \A m \in 1..n + 1 : m \in 1..n \/ m = n + 1
    OBVIOUS
  <1>4. (\A m \in 1..n : Passes(tx, m)) /\ DefaultRead(tx, n, p) /\ RulesRead(tx, n, p.rules)
    BY DEF ReadUpTo
  <1>5. DefaultRead(tx, n + 1, p)
    BY <1>2, <1>4, DefaultStays
  <1>6. RulesRead(tx, n + 1, p.rules)
    BY <1>2, <1>4, RulesStay
  <1> QED
    BY <1>2, <1>3, <1>4, <1>5, <1>6 DEF ReadUpTo

LEMMA LineAdvances ==
  ASSUME NEW tx \in Seq(Seq(Symbols)), NEW n \in Nat, n + 1 <= Len(tx)
  PROVE  /\ \A m \in 1..n + 1 : m \in 1..n \/ m = n + 1
         /\ n + 1 \in 1..n + 1 /\ n + 1 # 0 /\ n + 1 \in DOMAIN tx /\ n + 1 \in 1..Len(tx)
  OBVIOUS

\* A default line, the first.
LEMMA SetDefaultRead ==
  ASSUME NEW tx \in Seq(Seq(Symbols)), NEW n \in Nat, n + 1 <= Len(tx), NEW p, NEW r,
         NEW ts, ts = TokensOf(tx[n + 1]), ts \in Seq(Seq(Symbols)), ~Unclosed(tx[n + 1]),
         IsDefault(ts), Len(ts) = 2, IsEffect(ts[2]), p.defaultLine = 0,
         r.default = ts[2][1], r.defaultLine = n + 1, r.rules = p.rules, ReadUpTo(tx, n, p)
  PROVE  ReadUpTo(tx, n + 1, r)
  <1>1. DefaultLine(ts) /\ ~RuleLine(ts) /\ Passes(tx, n + 1)
    BY DefaultsAre, OneKind DEF Passes
  <1>2. (\A m \in 1..n : Passes(tx, m)) /\ DefaultRead(tx, n, p) /\ RulesRead(tx, n, p.rules)
    BY DEF ReadUpTo
  <1>3. /\ \A m \in 1..n + 1 : m \in 1..n \/ m = n + 1
        /\ n + 1 \in 1..n + 1 /\ n + 1 # 0 /\ n + 1 \in DOMAIN tx
    BY LineAdvances, Zenon
  <1>4. RulesRead(tx, n + 1, r.rules)
    BY <1>1, <1>2, RulesStay
  <1>5. <<r.default>> = ts[2]
    <2>1. PICK w \in Effects : ts[2] = <<w>>
      BY DEF IsEffect
    <2>2. ts[2][1] = w
      BY <2>1
    <2> QED
      BY <2>1, <2>2
  <1>6. \A m \in 1..n : m \notin DefaultsOf(tx)
    BY <1>2 DEF DefaultRead
  <1>7. n + 1 \in DefaultsOf(tx)
    BY <1>1, <1>3 DEF DefaultsOf
  <1>8. DefaultRead(tx, n + 1, r)
    BY <1>3, <1>5, <1>6, <1>7 DEF DefaultRead
  <1> QED
    BY <1>1, <1>2, <1>3, <1>4, <1>8 DEF ReadUpTo

\* A rule.
LEMMA AddRuleRead ==
  ASSUME NEW tx \in Seq(Seq(Symbols)), NEW n \in Nat, n + 1 <= Len(tx), NEW p \in Policies, NEW r,
         NEW ts, ts = TokensOf(tx[n + 1]), ts \in Seq(Seq(Symbols)), ~Unclosed(tx[n + 1]),
         ts # <<>>, RuleOK(ts), NEW rule \in Rule, SameRule(tx, n + 1, rule),
         r.rules = Append(p.rules, rule), r.default = p.default, r.defaultLine = p.defaultLine,
         ReadUpTo(tx, n, p)
  PROVE  ReadUpTo(tx, n + 1, r)
  <1>1. RuleLine(ts) /\ ~DefaultLine(ts) /\ Passes(tx, n + 1)
    BY RulesAre, OneKind DEF Passes
  <1>2. (\A m \in 1..n : Passes(tx, m)) /\ DefaultRead(tx, n, p) /\ RulesRead(tx, n, p.rules)
    BY DEF ReadUpTo
  <1>3. \A m \in 1..n + 1 : m \in 1..n \/ m = n + 1
    OBVIOUS
  <1>4. DefaultRead(tx, n + 1, r)
    BY <1>1, <1>2, DefaultStays
  <1>5. PICK q \in Seq(Nat) :
          /\ q = Picking(Positions(tx), RulesOf(tx))[n]
          /\ Len(p.rules) = Len(q)
          /\ \A k \in 1..Len(q) : SameRule(tx, q[k], p.rules[k])
    BY <1>2 DEF RulesRead
  <1>6. PICK z : z = Append(q, n + 1)
    OBVIOUS
  <1>7. z = Picking(Positions(tx), RulesOf(tx))[n + 1]
    BY <1>1, <1>5, <1>6, RulesPicked
  <1>8. /\ z \in Seq(Nat) /\ Len(z) = Len(q) + 1 /\ z[Len(q) + 1] = n + 1
        /\ Len(q) \in Nat /\ \A k \in 1..Len(q) : z[k] = q[k]
    BY <1>6, Appended
  <1>9. PICK rs : rs = Append(p.rules, rule)
    OBVIOUS
  <1>10. /\ Len(rs) = Len(q) + 1 /\ rs[Len(q) + 1] = rule
         /\ \A k \in 1..Len(q) : rs[k] = p.rules[k]
    <2>1. PICK o : o = p.rules
      OBVIOUS
    <2>2. o \in Seq(Rule)
      BY <2>1 DEF Policies
    <2>3. Len(o) = Len(q) /\ rs = Append(o, rule)
      BY <1>5, <1>9, <2>1
    <2>4. /\ Len(rs) = Len(o) + 1 /\ rs[Len(o) + 1] = rule
          /\ \A k \in 1..Len(o) : rs[k] = o[k]
      BY <2>2, <2>3, Appended
    <2> QED
      BY <2>1, <2>3, <2>4
  <1>11. ASSUME NEW k \in 1..Len(z) PROVE SameRule(tx, z[k], rs[k])
    <2>1. CASE k \in 1..Len(q)
      BY <1>5, <1>8, <1>10, <2>1
    <2>2. CASE k = Len(q) + 1
      BY <1>8, <1>10, <2>2
    <2> QED
      BY <1>8, <2>1, <2>2
  <1>12. RulesRead(tx, n + 1, rs)
    BY <1>7, <1>8, <1>10, <1>11 DEF RulesRead
  <1> QED
    BY <1>1, <1>2, <1>3, <1>4, <1>9, <1>12 DEF ReadUpTo

LEMMA GrammaticalIs ==
  ASSUME NEW tx \in Seq(Seq(Symbols))
  PROVE  Grammatical(tx) <=>
           /\ \A n \in 1..Len(tx) : Passes(tx, n)
           /\ \A m, n \in DefaultsOf(tx) : m = n
  <1>1. DOMAIN tx = 1..Len(tx)
    OBVIOUS
  <1>2. Grammatical(tx) <=>
          /\ \A n \in DOMAIN tx : Passes(tx, n)
          /\ \A m, n \in DOMAIN tx : m \in DefaultsOf(tx) /\ n \in DefaultsOf(tx) => m = n
    BY DEF Grammatical, Passes, DefaultsOf
  <1>3. \A m \in DefaultsOf(tx) : m \in DOMAIN tx
    BY DEF DefaultsOf
  <1> QED
    BY <1>1, <1>2, <1>3

\* A default line that setDefault refuses.
LEMMA BadDefault ==
  ASSUME NEW tx \in Seq(Seq(Symbols)), NEW n \in Nat, n + 1 <= Len(tx), NEW p \in Policies,
         NEW ts, ts = TokensOf(tx[n + 1]), ts \in Seq(Seq(Symbols)), ts # <<>>, IsDefault(ts),
         ~(p.defaultLine = 0 /\ Len(ts) = 2 /\ IsEffect(ts[2])), ReadUpTo(tx, n, p)
  PROVE  ~Grammatical(tx)
  <1> SUFFICES ASSUME Grammatical(tx) PROVE FALSE
    OBVIOUS
  <1>1. n + 1 \in 1..Len(tx) /\ n + 1 \in DOMAIN tx
    OBVIOUS
  <1>2. Passes(tx, n + 1)
    BY <1>1, GrammaticalIs
  <1>3. ts # <<>> /\ DefaultLine(ts)
    <2>1. ~RuleLine(ts)
      BY OneKind
    <2> QED
      BY <1>2, <2>1 DEF Passes, EmptyLine
  <1>4. Len(ts) = 2 /\ IsEffect(ts[2])
    BY <1>3, DefaultsAre
  <1>5. p.defaultLine # 0 /\ DefaultRead(tx, n, p)
    BY <1>4 DEF ReadUpTo
  <1>6. p.defaultLine \in 1..n /\ p.defaultLine \in DefaultsOf(tx)
    BY <1>5 DEF DefaultRead
  <1>7. n + 1 \in DefaultsOf(tx)
    BY <1>1, <1>3 DEF DefaultsOf
  <1>8. p.defaultLine = n + 1
    BY <1>6, <1>7, GrammaticalIs
  <1> QED
    BY <1>6, <1>8

\* A line that parseRule refuses.
LEMMA BadRule ==
  ASSUME NEW tx \in Seq(Seq(Symbols)), NEW n \in Nat, n + 1 <= Len(tx),
         NEW ts, ts = TokensOf(tx[n + 1]), ts \in Seq(Seq(Symbols)), ts # <<>>,
         ~IsDefault(ts), ~RuleOK(ts)
  PROVE  ~Grammatical(tx)
  <1> SUFFICES ASSUME Grammatical(tx) PROVE FALSE
    OBVIOUS
  <1>1. n + 1 \in 1..Len(tx)
    OBVIOUS
  <1>2. Passes(tx, n + 1)
    BY <1>1, GrammaticalIs
  <1>3. ~RuleLine(ts) /\ ~DefaultLine(ts)
    BY RulesAre, OneKind
  <1> QED
    BY <1>2, <1>3 DEF Passes, EmptyLine

LEMMA BadQuote ==
  ASSUME NEW tx \in Seq(Seq(Symbols)), NEW n \in Nat, n + 1 <= Len(tx), Unclosed(tx[n + 1])
  PROVE  ~Grammatical(tx)
  <1>1. n + 1 \in 1..Len(tx)
    OBVIOUS
  <1> QED
    BY <1>1, GrammaticalIs DEF Passes

\* The whole text is read.
LEMMA AllRead ==
  ASSUME NEW tx \in Seq(Seq(Symbols)), NEW p, ReadUpTo(tx, Len(tx), p)
  PROVE  Grammatical(tx)
  <1>1. DOMAIN tx = 1..Len(tx) /\ \A m \in DefaultsOf(tx) : m \in 1..Len(tx)
    BY DEF DefaultsOf
  <1>2. (\A m \in 1..Len(tx) : Passes(tx, m)) /\ DefaultRead(tx, Len(tx), p)
    BY DEF ReadUpTo
  <1>3. \A m, n \in DefaultsOf(tx) : m = n
    BY <1>1, <1>2 DEF DefaultRead
  <1> QED
    BY <1>2, <1>3, GrammaticalIs

-----------------------------------------------------------------------------
\* The invariant: types, what the scan has read of the line, and what Parse has read of
\* the text.

Typed ==
  /\ text \in Seq(Seq(Symbols)) /\ line \in 1..Len(text) + 1 /\ at \in Nat
  /\ toks \in Seq(Seq(Symbols)) /\ cur \in Seq(Symbols)
  /\ inQuote \in BOOLEAN /\ started \in BOOLEAN
  /\ ~started => cur = <<>>
  /\ inQuote => started
  /\ policy \in Policies
  /\ \A k \in DOMAIN policy.rules : policy.rules[k].matchers # <<>>
  /\ answer \in {"running", "ok", "error"}

ScanInv ==
  InLine =>
    \/ Scanned(raw, at - 1, toks, cur, started, inQuote)
    \/ at = Len(raw) + 1 /\ ~inQuote /\ \E n : Commented(raw, n, toks, cur, started)

ReadInv ==
  /\ answer = "running" => ReadUpTo(text, line - 1, policy)
  /\ answer = "ok" => ReadUpTo(text, Len(text), policy)
  /\ answer = "error" => ~Grammatical(text)

IInv == Typed /\ ScanInv /\ ReadInv

LEMMA ClosedType ==
  ASSUME NEW ts \in Seq(Seq(Symbols)), NEW cu \in Seq(Symbols), NEW st
  PROVE  Closed(ts, cu, st) \in Seq(Seq(Symbols))
  <1>1. Append(ts, cu) \in Seq(Seq(Symbols))
    OBVIOUS
  <1> QED
    BY <1>1, Zenon DEF Closed

LEMMA InTheLine ==
  ASSUME Typed, InLine
  PROVE  /\ raw \in Seq(Symbols) /\ Len(raw) \in Nat
         /\ line - 1 \in Nat /\ (line - 1) + 1 = line /\ line <= Len(text) /\ line \in Nat
         /\ line + 1 \in 1..Len(text) + 1
  <1>1. line \in 1..Len(text) /\ text \in Seq(Seq(Symbols)) /\ Len(text) \in Nat
    BY DEF Typed, InLine
  <1> QED
    BY <1>1 DEF raw

\* A scan that is at a symbol is not behind a comment.
LEMMA InTheScan ==
  ASSUME Typed, ScanInv, Scanning
  PROVE  /\ raw \in Seq(Symbols) /\ at - 1 \in Nat /\ (at - 1) + 1 = at /\ (at - 1) + 1 <= Len(raw)
         /\ (at - 1) + 2 = at + 1 /\ Len(raw) \in Nat /\ at \in 1..Len(raw)
         /\ Scanned(raw, at - 1, toks, cur, started, inQuote)
  <1>1. InLine /\ at <= Len(raw)
    BY DEF Scanning
  <1>2. raw \in Seq(Symbols) /\ Len(raw) \in Nat /\ at \in Nat
    BY <1>1, InTheLine DEF Typed
  <1>3. at # Len(raw) + 1
    BY <1>1, <1>2
  <1>4. Scanned(raw, at - 1, toks, cur, started, inQuote)
    BY <1>1, <1>3 DEF ScanInv
  <1>5. at - 1 \in 0..Len(raw)
    BY <1>4 DEF Scanned
  <1> QED
    BY <1>1, <1>2, <1>4, <1>5

LEMMA EndOfLine ==
  ASSUME Typed, ScanInv, AtEnd
  PROVE  /\ inQuote <=> Unclosed(raw)
         /\ Tokens = TokensOf(raw) /\ Tokens \in Seq(Seq(Symbols))
  <1>1. InLine /\ at > Len(raw)
    BY DEF AtEnd
  <1>2. raw \in Seq(Symbols) /\ Len(raw) \in Nat /\ at \in Nat /\ inQuote \in BOOLEAN
    BY <1>1, InTheLine DEF Typed
  <1>3. Tokens = Closed(toks, cur, started)
    BY DEF Tokens, Closed
  <1>4. CASE Scanned(raw, at - 1, toks, cur, started, inQuote)
    <2>1. at - 1 = Len(raw)
      <3>1. at - 1 \in 0..Len(raw)
        BY <1>4 DEF Scanned
      <3> QED
        BY <1>1, <1>2, <3>1
    <2>2. Scanned(raw, Len(raw), toks, cur, started, inQuote)
      BY <1>4, <2>1, Zenon
    <2> QED
      BY <1>2, <1>3, <2>2, ScanEnds
  <1>5. ASSUME ~inQuote, NEW n, Commented(raw, n, toks, cur, started)
        PROVE  /\ inQuote <=> Unclosed(raw)
               /\ Tokens = TokensOf(raw) /\ Tokens \in Seq(Seq(Symbols))
    BY <1>2, <1>3, <1>5, CommentScanned
  <1> QED
    BY <1>1, <1>4, <1>5 DEF ScanInv

LEMMA InitInv ==
  Init => IInv
  <1> SUFFICES ASSUME Init PROVE IInv
    OBVIOUS
  <1> USE DEF Init
  <1>1. text \in Seq(Seq(Symbols)) /\ Len(text) \in Nat
    BY TextAssumption
  <1>2. policy \in Policies /\ policy.rules = <<>> /\ policy.default = "ask" /\ policy.defaultLine = 0
    BY DEF Policies, Effects
  <1>3. Typed
    <2>1. \A k \in DOMAIN policy.rules : policy.rules[k].matchers # <<>>
      <3>1. DOMAIN <<>> = {}
        OBVIOUS
      <3> QED
        BY <1>2, <3>1
    <2>2. line \in 1..Len(text) + 1 /\ at \in Nat
      BY <1>1
    <2>3. toks \in Seq(Seq(Symbols)) /\ cur \in Seq(Symbols) /\ cur = <<>>
      OBVIOUS
    <2> QED
      BY <1>1, <1>2, <2>1, <2>2, <2>3 DEF Typed
  <1>4. ScanInv
    <2> SUFFICES ASSUME InLine PROVE Scanned(raw, at - 1, toks, cur, started, inQuote)
      BY DEF ScanInv
    <2>1. raw \in Seq(Symbols)
      BY <1>3, InTheLine
    <2>2. Scanned(raw, 0, <<>>, <<>>, FALSE, FALSE)
      BY <2>1, ScanBegins
    <2>3. at - 1 = 0
      OBVIOUS
    <2> QED
      BY <2>2, <2>3, Zenon
  <1>5. ReadInv
    <2>1. ReadUpTo(text, 0, policy)
      BY <1>1, <1>2, ReadBegins
    <2>2. line - 1 = 0
      OBVIOUS
    <2> QED
      BY <2>1, <2>2 DEF ReadInv
  <1> QED
    BY <1>3, <1>4, <1>5 DEF IInv

\* A step of the scan keeps what is read of the text.
LEMMA ScanStep ==
  ASSUME IInv, Scanning, UNCHANGED <<text, line, policy, answer>>,
         at' \in Nat, toks' \in Seq(Seq(Symbols)), cur' \in Seq(Symbols),
         inQuote' \in BOOLEAN, started' \in BOOLEAN,
         ~started' => cur' = <<>>, inQuote' => started',
         \/ Scanned(raw, at' - 1, toks', cur', started', inQuote')
         \/ at' = Len(raw) + 1 /\ ~inQuote' /\ \E n : Commented(raw, n, toks', cur', started')
  PROVE  IInv'
  <1>1. raw' = raw /\ (InLine' <=> InLine)
    BY DEF raw, InLine
  <1>2. Typed'
    BY DEF IInv, Typed
  <1>3. ScanInv'
    BY <1>1 DEF ScanInv
  <1>4. ReadInv'
    BY DEF IInv, ReadInv
  <1> QED
    BY <1>2, <1>3, <1>4 DEF IInv

LEMMA EscapeInv ==
  ASSUME IInv, Escape
  PROVE  IInv'
  <1>1. /\ Scanning /\ inQuote /\ c = "\\" /\ at < Len(raw)
        /\ UNCHANGED <<text, line, toks, inQuote, started, policy, answer>>
    BY DEF Escape
  <1>2. Typed /\ ScanInv
    BY DEF IInv
  <1>3. PICK n \in Nat : n = at - 1
    BY <1>1, <1>2, InTheScan, Zenon
  <1>4. /\ raw \in Seq(Symbols) /\ n + 1 = at /\ n + 1 <= Len(raw) /\ n + 2 = at + 1
        /\ Len(raw) \in Nat
    BY <1>1, <1>2, <1>3, InTheScan, Zenon
  <1>4a. Scanned(raw, n, toks, cur, started, inQuote)
    BY <1>1, <1>2, <1>3, InTheScan, Zenon
  <1>5. /\ inQuote = TRUE /\ started = TRUE /\ toks \in Seq(Seq(Symbols)) /\ cur \in Seq(Symbols)
    BY <1>1, <1>2 DEF Typed
  <1>6. raw[n + 1] = "\\" /\ raw[n + 1] \in Symbols
    BY <1>1, <1>4 DEF c
  <1>7. CASE raw[at + 1] \in {"\"", "\\"}
    <2>1. cur' = Append(cur, raw[n + 2]) /\ at' = at + 2
      BY <1>4, <1>7 DEF Escape
    <2>2. n + 2 <= Len(raw) /\ raw[n + 2] \in {"\"", "\\"} /\ raw[n + 2] \in Symbols
      <3>1. n + 2 <= Len(raw) /\ n + 2 \in 1..Len(raw)
        BY <1>1, <1>4
      <3>2. raw[n + 2] \in {"\"", "\\"}
        BY <1>4, <1>7, Zenon
      <3>3. raw[n + 2] \in Symbols
        BY <1>4, <3>1
      <3> QED
        BY <3>1, <3>2, <3>3, Zenon
    <2>3. Scanned(raw, n + 2, toks, Append(cur, raw[n + 2]), TRUE, TRUE)
      BY <1>4, <1>5, <1>6, <2>2, <1>4a, ScanEscape
    <2>4. at' - 1 = n + 2 /\ at' \in Nat
      BY <1>4, <2>1
    <2>5. cur' \in Seq(Symbols)
      BY <1>5, <2>1, <2>2, Appended, Zenon
    <2>6. Scanned(raw, at' - 1, toks', cur', started', inQuote')
      BY <1>1, <1>5, <2>1, <2>3, <2>4, Zenon
    <2> QED
      BY <1>1, <1>5, <2>4, <2>5, <2>6, ScanStep
  <1>8. CASE raw[at + 1] \notin {"\"", "\\"}
    <2>1. cur' = Append(cur, raw[n + 1]) /\ at' = at + 1
      BY <1>4, <1>8 DEF Escape, c
    <2>2. raw[n + 2] \notin {"\"", "\\"}
      BY <1>4, <1>8
    <2>3. Scanned(raw, n + 1, toks, Append(cur, raw[n + 1]), TRUE, TRUE)
      BY <1>4, <1>5, <1>6, <2>2, <1>4a, ScanText
    <2>4. at' - 1 = n + 1 /\ at' \in Nat
      BY <1>4, <2>1
    <2>5. cur' \in Seq(Symbols)
      BY <1>5, <1>6, <2>1, Appended, Zenon
    <2>6. Scanned(raw, at' - 1, toks', cur', started', inQuote')
      BY <1>1, <1>5, <2>1, <2>3, <2>4, Zenon
    <2> QED
      BY <1>1, <1>5, <2>4, <2>5, <2>6, ScanStep
  <1> QED
    BY <1>7, <1>8

LEMMA ToggleInv ==
  ASSUME IInv, ToggleQuote
  PROVE  IInv'
  <1>1. /\ Scanning /\ c = "\"" /\ inQuote' = ~inQuote /\ started' = TRUE /\ at' = at + 1
        /\ UNCHANGED <<text, line, toks, cur, policy, answer>>
    BY DEF ToggleQuote
  <1>2. Typed /\ ScanInv
    BY DEF IInv
  <1>3. PICK n \in Nat : n = at - 1
    BY <1>1, <1>2, InTheScan, Zenon
  <1>4. raw \in Seq(Symbols) /\ n + 1 = at /\ n + 1 <= Len(raw) /\ Len(raw) \in Nat
    BY <1>1, <1>2, <1>3, InTheScan, Zenon
  <1>4a. Scanned(raw, n, toks, cur, started, inQuote)
    BY <1>1, <1>2, <1>3, InTheScan, Zenon
  <1>5. toks \in Seq(Seq(Symbols)) /\ cur \in Seq(Symbols) /\ inQuote \in BOOLEAN
    BY <1>2 DEF Typed
  <1>6. raw[n + 1] = "\""
    BY <1>1, <1>4 DEF c
  <1>7. Scanned(raw, n + 1, toks, cur, TRUE, inQuote')
    <2>1. CASE inQuote
      <3>1. inQuote = TRUE /\ inQuote' = FALSE
        BY <1>1, <2>1, <1>5
      <3> QED
        BY <1>4, <1>6, <1>4a, <3>1, ScanCloses, Zenon
    <2>2. CASE ~inQuote
      <3>1. inQuote = FALSE /\ inQuote' = TRUE
        BY <1>1, <2>2, <1>5
      <3> QED
        BY <1>4, <1>6, <1>4a, <3>1, ScanOpens, Zenon
    <2> QED
      BY <2>1, <2>2
  <1>8. at' - 1 = n + 1 /\ at' \in Nat
    <2>1. at' = at + 1
      BY <1>1
    <2> QED
      BY <1>4, <2>1
  <1>9. Scanned(raw, at' - 1, toks', cur', started', inQuote')
    BY <1>1, <1>7, <1>8, Zenon
  <1>10. inQuote' \in BOOLEAN /\ started'
    BY <1>1, <1>5
  <1> QED
    BY <1>1, <1>5, <1>8, <1>9, <1>10, ScanStep

LEMMA CommentInv ==
  ASSUME IInv, Comment
  PROVE  IInv'
  <1>1. /\ Scanning /\ ~inQuote /\ c = "#" /\ at' = Len(raw) + 1
        /\ UNCHANGED <<text, line, toks, cur, inQuote, started, policy, answer>>
    BY DEF Comment, scan
  <1>2. Typed /\ ScanInv
    BY DEF IInv
  <1>3. PICK n \in Nat : n = at - 1
    BY <1>1, <1>2, InTheScan, Zenon
  <1>4. raw \in Seq(Symbols) /\ n + 1 = at /\ n + 1 <= Len(raw) /\ Len(raw) \in Nat
    BY <1>1, <1>2, <1>3, InTheScan, Zenon
  <1>4a. Scanned(raw, n, toks, cur, started, inQuote)
    BY <1>1, <1>2, <1>3, InTheScan, Zenon
  <1>5. raw[n + 1] = "#"
    BY <1>1, <1>4 DEF c
  <1>6. Commented(raw, n, toks, cur, started)
    BY <1>1, <1>4, <1>5, <1>4a DEF Scanned, Commented
  <1>7. Commented(raw, n, toks', cur', started')
    BY <1>1, <1>6, Zenon
  <1>8. /\ toks \in Seq(Seq(Symbols)) /\ cur \in Seq(Symbols)
        /\ inQuote \in BOOLEAN /\ started \in BOOLEAN
        /\ ~started => cur = <<>>
        /\ inQuote => started
        /\ at' \in Nat
    BY <1>1, <1>2, <1>4 DEF Typed
  <1> QED
    BY <1>1, <1>7, <1>8, ScanStep

LEMMA BlankInv ==
  ASSUME IInv, Blank
  PROVE  IInv'
  <1>1. /\ Scanning /\ ~inQuote /\ c = " " /\ at' = at + 1
        /\ toks' = Closed(toks, cur, started) /\ cur' = <<>> /\ started' = FALSE
        /\ UNCHANGED <<text, line, inQuote, policy, answer>>
    BY DEF Blank, Closed
  <1>2. Typed /\ ScanInv
    BY DEF IInv
  <1>3. PICK n \in Nat : n = at - 1
    BY <1>1, <1>2, InTheScan, Zenon
  <1>4. raw \in Seq(Symbols) /\ n + 1 = at /\ n + 1 <= Len(raw) /\ Len(raw) \in Nat
    BY <1>1, <1>2, <1>3, InTheScan, Zenon
  <1>4a. Scanned(raw, n, toks, cur, started, inQuote)
    BY <1>1, <1>2, <1>3, InTheScan, Zenon
  <1>5. raw[n + 1] = " "
    BY <1>1, <1>4 DEF c
  <1>6. /\ inQuote = FALSE /\ toks \in Seq(Seq(Symbols)) /\ cur \in Seq(Symbols)
    BY <1>1, <1>2 DEF Typed
  <1>7. Scanned(raw, n + 1, Closed(toks, cur, started), <<>>, FALSE, FALSE)
    BY <1>4, <1>5, <1>6, <1>4a, ScanBlank
  <1>8. at' - 1 = n + 1 /\ at' \in Nat
    <2>1. at' = at + 1
      BY <1>1
    <2> QED
      BY <1>4, <2>1
  <1>9. Scanned(raw, at' - 1, toks', cur', started', inQuote')
    BY <1>1, <1>6, <1>7, <1>8, Zenon
  <1>10. toks' \in Seq(Seq(Symbols)) /\ cur' \in Seq(Symbols) /\ cur' = <<>>
    <2>1. Closed(toks, cur, started) \in Seq(Seq(Symbols)) /\ <<>> \in Seq(Symbols)
      BY <1>6, ClosedType
    <2> QED
      BY <1>1, <2>1, Zenon
  <1> QED
    BY <1>1, <1>6, <1>8, <1>9, <1>10, ScanStep

LEMMA CopyInv ==
  ASSUME IInv, Copy
  PROVE  IInv'
  <1>1. /\ Scanning /\ cur' = Append(cur, c) /\ started' = TRUE /\ at' = at + 1
        /\ c \notin Special(inQuote) \/ (inQuote /\ c = "\\" /\ at = Len(raw))
        /\ UNCHANGED <<text, line, toks, inQuote, policy, answer>>
    BY DEF Copy
  <1>2. Typed /\ ScanInv
    BY DEF IInv
  <1>3. PICK n \in Nat : n = at - 1
    BY <1>1, <1>2, InTheScan, Zenon
  <1>4. raw \in Seq(Symbols) /\ n + 1 = at /\ n + 1 <= Len(raw) /\ Len(raw) \in Nat
    BY <1>1, <1>2, <1>3, InTheScan, Zenon
  <1>4a. Scanned(raw, n, toks, cur, started, inQuote)
    BY <1>1, <1>2, <1>3, InTheScan, Zenon
  <1>5. toks \in Seq(Seq(Symbols)) /\ cur \in Seq(Symbols) /\ inQuote \in BOOLEAN
    BY <1>2 DEF Typed
  <1>6. c = raw[n + 1] /\ raw[n + 1] \in Symbols
    BY <1>4 DEF c
  <1>7. \/ raw[n + 1] \notin Special(inQuote)
        \/ inQuote /\ raw[n + 1] = "\\" /\ (n + 1 < Len(raw) => raw[n + 2] \notin {"\"", "\\"})
    <2>1. at = Len(raw) => ~(n + 1 < Len(raw))
      BY <1>4
    <2> QED
      BY <1>1, <1>6, <2>1, Zenon
  <1>8. Scanned(raw, n + 1, toks, Append(cur, raw[n + 1]), TRUE, inQuote)
    BY <1>4, <1>7, <1>4a, ScanText
  <1>9. at' - 1 = n + 1 /\ at' \in Nat
    BY <1>1, <1>4
  <1>10. Scanned(raw, at' - 1, toks', cur', started', inQuote')
    BY <1>1, <1>6, <1>8, <1>9, Zenon
  <1>11. cur' \in Seq(Symbols) /\ inQuote' \in BOOLEAN /\ started'
    BY <1>1, <1>5, <1>6
  <1> QED
    BY <1>1, <1>5, <1>9, <1>10, <1>11, ScanStep

\* A line that is read whole.
LEMMA LineDone ==
  ASSUME IInv, InLine, ~inQuote, NextLine, policy' \in Policies,
         \A k \in DOMAIN policy'.rules : policy'.rules[k].matchers # <<>>,
         ReadUpTo(text, line, policy')
  PROVE  IInv'
  <1>1. Typed /\ line + 1 \in 1..Len(text) + 1 /\ line \in Nat /\ (line + 1) - 1 = line
    <2>1. Typed
      BY DEF IInv
    <2>2. line + 1 \in 1..Len(text) + 1 /\ line \in Nat
      BY <2>1, InTheLine, Zenon
    <2>3. (line + 1) - 1 = line
      BY <2>2
    <2> QED
      BY <2>1, <2>2, <2>3
  <1>2. /\ line' = line + 1 /\ at' = 1 /\ toks' = <<>> /\ cur' = <<>> /\ started' = FALSE
        /\ text' = text /\ inQuote' = inQuote /\ answer' = answer
        /\ answer = "running"
    BY DEF NextLine, InLine
  <1>3. inQuote' = FALSE
    BY <1>1, <1>2 DEF Typed
  <1>4. <<>> \in Seq(Seq(Symbols)) /\ <<>> \in Seq(Symbols) /\ 1 \in Nat
    OBVIOUS
  <1>5. Typed'
    BY <1>1, <1>2, <1>3, <1>4 DEF Typed
  <1>6. ScanInv'
    <2> SUFFICES ASSUME InLine' PROVE Scanned(raw', at' - 1, toks', cur', started', inQuote')
      BY DEF ScanInv
    <2>1. line' <= Len(text') /\ raw' = text'[line']
      BY DEF InLine, raw
    <2>2. raw' \in Seq(Symbols)
      <3>1. text \in Seq(Seq(Symbols)) /\ line + 1 <= Len(text) /\ line \in Nat
        BY <1>1, <1>2, <2>1 DEF Typed
      <3>2. text[line + 1] \in Seq(Symbols)
        <4>1. line + 1 \in 1..Len(text)
          BY <3>1
        <4> QED
          BY <3>1, <4>1
      <3> QED
        BY <1>2, <2>1, <3>2, Zenon
    <2>3. Scanned(raw', 0, <<>>, <<>>, FALSE, FALSE)
      BY <2>2, ScanBegins
    <2>4. at' - 1 = 0
      BY <1>2
    <2> QED
      BY <1>2, <1>3, <2>3, <2>4, Zenon
  <1>7. ReadInv'
    <2>1. line' - 1 = line
      BY <1>1, <1>2
    <2>2. ReadUpTo(text', line' - 1, policy')
      BY <1>2, <2>1, Zenon
    <2>3. answer' = "running"
      BY <1>2
    <2> QED
      BY <2>2, <2>3 DEF ReadInv
  <1> QED
    BY <1>5, <1>6, <1>7 DEF IInv

\* A line that is refused.
LEMMA LineFails ==
  ASSUME IInv, InLine, Fail, ~Grammatical(text)
  PROVE  IInv'
  <1>1. /\ answer' = "error"
        /\ text' = text /\ line' = line /\ at' = at /\ policy' = policy
        /\ toks' = toks /\ cur' = cur /\ inQuote' = inQuote /\ started' = started
    BY DEF Fail, scan
  <1>2. Typed'
    BY <1>1 DEF IInv, Typed
  <1>3. ScanInv'
    BY <1>1 DEF ScanInv, InLine
  <1>4. ReadInv'
    BY <1>1 DEF ReadInv
  <1> QED
    BY <1>2, <1>3, <1>4 DEF IInv

\* What Parse has at the end of a line that is closed.
LEMMA AtTheEnd ==
  ASSUME IInv, AtEnd
  PROVE  /\ text \in Seq(Seq(Symbols)) /\ line - 1 \in Nat /\ (line - 1) + 1 = line
         /\ (line - 1) + 1 <= Len(text) /\ InLine
         /\ policy \in Policies /\ \A k \in DOMAIN policy.rules : policy.rules[k].matchers # <<>>
         /\ ReadUpTo(text, line - 1, policy)
         /\ inQuote <=> Unclosed(text[line])
         /\ Tokens = TokensOf(text[line]) /\ Tokens \in Seq(Seq(Symbols))
  <1>1. InLine /\ Typed /\ ScanInv /\ ReadInv /\ answer = "running"
    BY DEF AtEnd, InLine, IInv
  <1>2. line - 1 \in Nat /\ (line - 1) + 1 = line /\ (line - 1) + 1 <= Len(text)
    BY <1>1, InTheLine, Zenon
  <1>3. text \in Seq(Seq(Symbols)) /\ policy \in Policies
        /\ \A k \in DOMAIN policy.rules : policy.rules[k].matchers # <<>>
    BY <1>1 DEF Typed
  <1>4. ReadUpTo(text, line - 1, policy)
    BY <1>1 DEF ReadInv
  <1>5. /\ inQuote <=> Unclosed(text[line])
        /\ Tokens = TokensOf(text[line]) /\ Tokens \in Seq(Seq(Symbols))
    <2>1. /\ inQuote <=> Unclosed(raw)
          /\ Tokens = TokensOf(raw) /\ Tokens \in Seq(Seq(Symbols))
      BY <1>1, EndOfLine, Zenon
    <2> QED
      BY <2>1, Zenon DEF raw
  <1> QED
    BY <1>1, <1>2, <1>3, <1>4, <1>5, Zenon

LEMMA UnterminatedInv ==
  ASSUME IInv, Unterminated
  PROVE  IInv'
  <1>1. AtEnd /\ inQuote /\ Fail
    BY DEF Unterminated
  <1>2. PICK n \in Nat : n = line - 1
    BY <1>1, AtTheEnd, Zenon
  <1>3. text \in Seq(Seq(Symbols)) /\ n + 1 = line /\ n + 1 <= Len(text) /\ InLine
    BY <1>1, <1>2, AtTheEnd, Zenon
  <1>4. Unclosed(text[n + 1])
    BY <1>1, <1>3, AtTheEnd, Zenon
  <1>5. ~Grammatical(text)
    BY <1>3, <1>4, BadQuote, Zenon
  <1> QED
    BY <1>1, <1>3, <1>5, LineFails, Zenon

LEMMA SkipLineInv ==
  ASSUME IInv, SkipLine
  PROVE  IInv'
  <1>1. AtEnd /\ ~inQuote /\ Tokens = <<>> /\ NextLine /\ policy' = policy
    BY DEF SkipLine
  <1>2. PICK n \in Nat : n = line - 1
    BY <1>1, AtTheEnd, Zenon
  <1>3. /\ text \in Seq(Seq(Symbols)) /\ n + 1 = line /\ n + 1 <= Len(text) /\ InLine
        /\ policy \in Policies /\ \A k \in DOMAIN policy.rules : policy.rules[k].matchers # <<>>
        /\ ReadUpTo(text, n, policy)
    BY <1>1, <1>2, AtTheEnd, Zenon
  <1>4. ~Unclosed(text[n + 1]) /\ TokensOf(text[n + 1]) = <<>>
    BY <1>1, <1>3, AtTheEnd, Zenon
  <1>5. ReadUpTo(text, n + 1, policy)
    BY <1>3, <1>4, SkipRead
  <1>6. ReadUpTo(text, line, policy')
    BY <1>1, <1>3, <1>5, Zenon
  <1> QED
    BY <1>1, <1>3, <1>6, LineDone, Zenon

LEMMA SetDefaultInv ==
  ASSUME IInv, SetDefault
  PROVE  IInv'
  <1>1. AtEnd /\ ~inQuote /\ Tokens # <<>> /\ IsDefault(Tokens)
    BY DEF SetDefault
  <1>2. PICK n \in Nat : n = line - 1
    BY <1>1, AtTheEnd, Zenon
  <1>3. /\ text \in Seq(Seq(Symbols)) /\ n + 1 = line /\ n + 1 <= Len(text) /\ InLine
        /\ policy \in Policies /\ \A k \in DOMAIN policy.rules : policy.rules[k].matchers # <<>>
    BY <1>1, <1>2, AtTheEnd, Zenon
  <1>3a. ReadUpTo(text, n, policy)
    BY <1>1, <1>2, AtTheEnd, Zenon
  <1>4. ~Unclosed(text[n + 1]) /\ Tokens = TokensOf(text[n + 1]) /\ Tokens \in Seq(Seq(Symbols))
    BY <1>1, <1>3, AtTheEnd, Zenon
  <1>5. PICK ts : ts = Tokens
    OBVIOUS
  <1>6. /\ ts = TokensOf(text[n + 1]) /\ ts \in Seq(Seq(Symbols)) /\ ts # <<>> /\ IsDefault(ts)
    BY <1>1, <1>4, <1>5, Zenon
  <1>7. \/ /\ DefaultOK(ts) /\ NextLine
           /\ policy' = [policy EXCEPT !.default = ts[2][1], !.defaultLine = line]
        \/ ~DefaultOK(ts) /\ Fail
    BY <1>5 DEF SetDefault
  <1>8. CASE DefaultOK(ts) /\ NextLine
             /\ policy' = [policy EXCEPT !.default = ts[2][1], !.defaultLine = line]
    <2>1. policy.defaultLine = 0 /\ Len(ts) = 2 /\ IsEffect(ts[2])
      BY <1>8 DEF DefaultOK
    <2>2. ts[2][1] \in Effects
      <3>1. PICK w \in Effects : ts[2] = <<w>>
        BY <2>1 DEF IsEffect
      <3> QED
        BY <3>1
    <2>3. /\ policy'.default = ts[2][1] /\ policy'.defaultLine = n + 1
          /\ policy'.rules = policy.rules /\ policy' \in Policies
      <3>1. PICK w \in Effects : w = ts[2][1]
        BY <2>2
      <3>2. PICK m \in Nat : m = line
        BY <1>3
      <3>3. policy \in Policies
        BY <1>3
      <3>4. policy' = [policy EXCEPT !.default = w, !.defaultLine = m]
        BY <1>8, <3>1, <3>2, Zenon
      <3>5. /\ policy'.default = w /\ policy'.defaultLine = m
            /\ policy'.rules = policy.rules /\ policy' \in Policies
        BY <3>3, <3>4 DEF Policies
      <3> QED
        BY <1>3, <3>1, <3>2, <3>5, Zenon
    <2>4. ReadUpTo(text, n + 1, policy')
      BY <1>3, <1>4, <1>6, <1>3a, <2>1, <2>3, SetDefaultRead
    <2>5. /\ ReadUpTo(text, line, policy')
          /\ \A k \in DOMAIN policy'.rules : policy'.rules[k].matchers # <<>>
      BY <1>3, <2>3, <2>4, Zenon
    <2> QED
      BY <1>1, <1>3, <1>8, <2>3, <2>5, LineDone, Zenon
  <1>9. CASE ~DefaultOK(ts) /\ Fail
    <2>1. ~(policy.defaultLine = 0 /\ Len(ts) = 2 /\ IsEffect(ts[2]))
      BY <1>9, Zenon DEF DefaultOK
    <2>2. ~Grammatical(text)
      BY <1>3, <1>6, <1>3a, <2>1, BadDefault
    <2> QED
      BY <1>3, <1>9, <2>2, LineFails, Zenon
  <1> QED
    BY <1>7, <1>8, <1>9, Zenon

LEMMA AddRuleInv ==
  ASSUME IInv, AddRule
  PROVE  IInv'
  <1>1. AtEnd /\ ~inQuote /\ Tokens # <<>> /\ ~IsDefault(Tokens)
    BY DEF AddRule
  <1>2. PICK n \in Nat : n = line - 1
    BY <1>1, AtTheEnd, Zenon
  <1>3. /\ text \in Seq(Seq(Symbols)) /\ n + 1 = line /\ n + 1 <= Len(text) /\ InLine
        /\ policy \in Policies /\ \A k \in DOMAIN policy.rules : policy.rules[k].matchers # <<>>
    BY <1>1, <1>2, AtTheEnd, Zenon
  <1>3a. ReadUpTo(text, n, policy)
    BY <1>1, <1>2, AtTheEnd, Zenon
  <1>4. ~Unclosed(text[n + 1]) /\ Tokens = TokensOf(text[n + 1]) /\ Tokens \in Seq(Seq(Symbols))
    BY <1>1, <1>3, AtTheEnd, Zenon
  <1>5. PICK ts : ts = Tokens
    OBVIOUS
  <1>6. /\ ts = TokensOf(text[n + 1]) /\ ts \in Seq(Seq(Symbols)) /\ ts # <<>> /\ ~IsDefault(ts)
    BY <1>1, <1>4, <1>5, Zenon
  <1>7. \/ /\ RuleOK(ts) /\ NextLine
           /\ policy' = [policy EXCEPT !.rules = Append(@, ParseRule(ts))]
        \/ ~RuleOK(ts) /\ Fail
    BY <1>5 DEF AddRule
  <1>8. CASE RuleOK(ts) /\ NextLine
             /\ policy' = [policy EXCEPT !.rules = Append(@, ParseRule(ts))]
    <2>1. PICK w \in Effects : ts[1] = <<w>>
      BY <1>8 DEF RuleOK, IsEffect
    <2>2. ts[1][1] = w
      BY <2>1
    <2>3. PICK rule : rule = ParseRule(ts)
      OBVIOUS
    <2>4. rule = [effect |-> w, line |-> line, reason |-> ReasonsIn(Parts(ts)),
                  matchers |-> MatchersIn(Parts(ts))]
      BY <2>2, <2>3 DEF ParseRule
    <2>5. /\ rule.effect = w /\ rule.line = n + 1
          /\ rule.matchers = MatchersIn(Parts(ts)) /\ rule.reason = ReasonsIn(Parts(ts))
          /\ rule \in Rule
      <3>1. MatchersIn(Parts(ts)) \in Seq(Parsed) /\ ReasonsIn(Parts(ts)) \in Seq(Parsed)
        BY <1>6, RuleTypes
      <3>2. line \in Nat
        BY <1>3
      <3> QED
        BY <1>3, <2>4, <3>1, <3>2 DEF Rule
    <2>6. SameRule(text, n + 1, rule)
      <3>1. /\ Says(rule.matchers, MatcherTokens(ts))
            /\ Says(rule.reason, ReasonTokens(ts))
        BY <1>6, <2>5, MatchersKept, ReasonsKept, Zenon
      <3> QED
        BY <1>6, <2>1, <2>5, <3>1, Zenon DEF SameRule
    <2>7. rule.matchers # <<>>
      BY <1>8, <2>5 DEF RuleOK
    <2>8. PICK rs : rs = Append(policy.rules, rule)
      OBVIOUS
    <2>9. /\ policy'.rules = Append(policy.rules, rule) /\ policy'.rules = rs
          /\ policy'.default = policy.default /\ policy'.defaultLine = policy.defaultLine
      BY <1>3, <1>8, <2>3, <2>8 DEF Policies
    <2>10. rs \in Seq(Rule) /\ \A k \in DOMAIN rs : rs[k].matchers # <<>>
      <3>1. PICK old : old = policy.rules
        OBVIOUS
      <3>2. old \in Seq(Rule) /\ rs = Append(old, rule)
            /\ \A k \in 1..Len(old) : old[k].matchers # <<>>
        BY <1>3, <2>8, <3>1 DEF Policies
      <3>3. /\ rs \in Seq(Rule) /\ Len(old) \in Nat /\ Len(rs) = Len(old) + 1
            /\ \A k \in 1..Len(old) : rs[k] = old[k]
            /\ rs[Len(old) + 1] = rule
        BY <2>5, <3>2, Appended
      <3>4. ASSUME NEW k \in DOMAIN rs PROVE rs[k].matchers # <<>>
        <4>1. k \in 1..Len(old) \/ k = Len(old) + 1
          BY <3>3
        <4> QED
          BY <2>7, <3>2, <3>3, <4>1
      <3> QED
        BY <3>3, <3>4
    <2>11. policy' \in Policies
      BY <1>3, <1>8, <2>3, <2>8, <2>10 DEF Policies
    <2>12. ReadUpTo(text, n + 1, policy')
      BY <1>3, <1>4, <1>6, <1>8, <1>3a, <2>5, <2>6, <2>9, AddRuleRead
    <2>13. /\ ReadUpTo(text, line, policy')
           /\ \A k \in DOMAIN policy'.rules : policy'.rules[k].matchers # <<>>
      BY <1>3, <2>9, <2>10, <2>12, Zenon
    <2> QED
      BY <1>1, <1>3, <1>8, <2>11, <2>13, LineDone, Zenon
  <1>9. CASE ~RuleOK(ts) /\ Fail
    <2>1. ~Grammatical(text)
      BY <1>3, <1>6, <1>9, BadRule
    <2> QED
      BY <1>3, <1>9, <2>1, LineFails, Zenon
  <1> QED
    BY <1>7, <1>8, <1>9, Zenon

LEMMA FinishInv ==
  ASSUME IInv, Finish
  PROVE  IInv'
  <1>1. /\ answer = "running" /\ line > Len(text) /\ answer' = "ok"
        /\ text' = text /\ line' = line /\ at' = at /\ policy' = policy
        /\ toks' = toks /\ cur' = cur /\ inQuote' = inQuote /\ started' = started
    BY DEF Finish, scan
  <1>2. Typed'
    BY <1>1 DEF IInv, Typed
  <1>3. ScanInv'
    BY <1>1 DEF ScanInv, InLine
  <1>4. line - 1 = Len(text)
    <2>1. text \in Seq(Seq(Symbols)) /\ line \in 1..Len(text) + 1
      BY DEF IInv, Typed
    <2> QED
      BY <1>1, <2>1
  <1>5. ReadUpTo(text, line - 1, policy)
    BY <1>1 DEF IInv, ReadInv
  <1>6. ReadInv'
    <2>1. ReadUpTo(text', Len(text'), policy')
      BY <1>1, <1>4, <1>5, Zenon
    <2> QED
      BY <1>1, <2>1 DEF ReadInv
  <1> QED
    BY <1>2, <1>3, <1>6 DEF IInv

LEMMA StutterInv ==
  ASSUME IInv, UNCHANGED vars
  PROVE  IInv'
  <1>1. Typed'
    BY DEF IInv, Typed, vars
  <1>2. ScanInv'
    BY DEF IInv, ScanInv, InLine, raw, vars
  <1>3. ReadInv'
    BY DEF IInv, ReadInv, vars
  <1> QED
    BY <1>1, <1>2, <1>3 DEF IInv

LEMMA InvHolds == Spec => []IInv
  <1>1. Init => IInv
    BY InitInv
  <1>2. IInv /\ [Next]_vars => IInv'
    <2> SUFFICES ASSUME IInv, [Next]_vars PROVE IInv'
      OBVIOUS
    <2>1. CASE Escape
      BY <2>1, EscapeInv
    <2>2. CASE ToggleQuote
      BY <2>2, ToggleInv
    <2>3. CASE Comment
      BY <2>3, CommentInv
    <2>4. CASE Blank
      BY <2>4, BlankInv
    <2>5. CASE Copy
      BY <2>5, CopyInv
    <2>6. CASE Unterminated
      BY <2>6, UnterminatedInv
    <2>7. CASE SkipLine
      BY <2>7, SkipLineInv
    <2>8. CASE SetDefault
      BY <2>8, SetDefaultInv
    <2>9. CASE AddRule
      BY <2>9, AddRuleInv
    <2>10. CASE Finish
      BY <2>10, FinishInv
    <2>11. CASE UNCHANGED vars
      BY <2>11, StutterInv
    <2> QED
      BY <2>1, <2>2, <2>3, <2>4, <2>5, <2>6, <2>7, <2>8, <2>9, <2>10, <2>11 DEF Next
  <1> QED
    BY <1>1, <1>2, PTL DEF Spec

-----------------------------------------------------------------------------
\* The scan stays inside the line, a token that has not begun is empty, and no rule is
\* made that would hold of every request.
THEOREM TypeCorrect == Spec => []TypeOK
  <1>1. IInv => TypeOK
    <2> SUFFICES ASSUME IInv PROVE TypeOK
      OBVIOUS
    <2>1. Typed /\ ScanInv
      BY DEF IInv
    <2>2. ASSUME InLine PROVE at \in 1..Len(raw) + 1
      <3>1. Len(raw) \in Nat /\ at \in Nat
        BY <2>1, <2>2, InTheLine DEF Typed
      <3>2. CASE Scanned(raw, at - 1, toks, cur, started, inQuote)
        <4>1. at - 1 \in 0..Len(raw)
          BY <3>2 DEF Scanned
        <4> QED
          BY <3>1, <4>1
      <3>3. CASE at = Len(raw) + 1
        BY <3>1, <3>3
      <3> QED
        BY <2>1, <2>2, <3>2, <3>3 DEF ScanInv
    <2>3. policy.default \in Effects
      BY <2>1 DEF Typed, Policies
    <2> QED
      BY <2>1, <2>2, <2>3 DEF Typed, TypeOK
  <1> QED
    BY <1>1, InvHolds, PTL

\* At its end a line is split as its quotes, escapes, blanks and comment say: no symbol
\* of a value is lost, moved to another token or read as a comment.
THEOREM SplitsRight == Spec => []SplitRight
  <1>1. IInv => SplitRight
    <2> SUFFICES ASSUME IInv, AtEnd
                 PROVE  (inQuote <=> Unclosed(raw)) /\ (~inQuote => Tokens = TokensOf(raw))
      BY DEF SplitRight
    <2>1. Typed /\ ScanInv
      BY DEF IInv
    <2>2. (inQuote <=> Unclosed(raw)) /\ Tokens = TokensOf(raw)
      BY <2>1, EndOfLine, Zenon
    <2> QED
      BY <2>2, Zenon
  <1> QED
    BY <1>1, InvHolds, PTL

\* A text is a policy when every line of it is grammatical and one at most sets the
\* default; anything else is an error, never a policy with a line left out.
THEOREM NothingLeftOut == Spec => []AllOrNothing
  <1>1. IInv => AllOrNothing
    <2> SUFFICES ASSUME IInv, answer # "running" PROVE answer = "ok" <=> Grammatical(text)
      BY DEF AllOrNothing
    <2>1. text \in Seq(Seq(Symbols)) /\ answer \in {"ok", "error"}
      BY DEF IInv, Typed
    <2>2. ASSUME answer = "ok" PROVE Grammatical(text)
      <3>1. ReadUpTo(text, Len(text), policy)
        BY <2>2 DEF IInv, ReadInv
      <3> QED
        BY <2>1, <3>1, AllRead
    <2>3. ASSUME answer = "error" PROVE ~Grammatical(text)
      BY <2>3 DEF IInv, ReadInv
    <2> QED
      BY <2>1, <2>2, <2>3
  <1> QED
    BY <1>1, InvHolds, PTL

\* A text that is read whole gives the rules of its rule lines, in their order, each
\* matcher and the reason as written and under its own line number, and the default.
LEMMA WholePolicy ==
  ASSUME NEW tx \in Seq(Seq(Symbols)), NEW p \in Policies, ReadUpTo(tx, Len(tx), p),
         NEW q, q = Picks(Positions(tx), RulesOf(tx))
  PROVE  /\ Len(p.rules) = Len(q) /\ DOMAIN q = 1..Len(q)
         /\ \A k \in 1..Len(q) :
              SameRule(tx, q[k], p.rules[k])
         /\ IF DefaultsOf(tx) = {} THEN p.default = "ask"
            ELSE \E n \in DefaultsOf(tx) : <<p.default>> = TokensOf(tx[n])[2]
  <1>1. Len(Positions(tx)) = Len(tx) /\ DOMAIN tx = 1..Len(tx)
    BY PositionsAre
  <1>2. DefaultRead(tx, Len(tx), p) /\ RulesRead(tx, Len(tx), p.rules)
    BY DEF ReadUpTo
  <1>3. q = Picking(Positions(tx), RulesOf(tx))[Len(tx)]
    BY <1>1 DEF Picks
  <1>4. /\ Len(p.rules) = Len(q) /\ q \in Seq(Nat)
        /\ \A k \in 1..Len(q) : SameRule(tx, q[k], p.rules[k])
    BY <1>2, <1>3 DEF RulesRead
  <1>5. DOMAIN q = 1..Len(q)
    BY <1>4
  <1>6. CASE p.defaultLine = 0
    <2>1. p.default = "ask" /\ \A m \in 1..Len(tx) : m \notin DefaultsOf(tx)
      BY <1>2, <1>6 DEF DefaultRead
    <2>2. DefaultsOf(tx) = {}
      BY <1>1, <2>1 DEF DefaultsOf
    <2> QED
      BY <1>4, <1>5, <2>1, <2>2
  <1>7. CASE p.defaultLine # 0
    <2>1. /\ p.defaultLine \in DefaultsOf(tx)
          /\ <<p.default>> = TokensOf(tx[p.defaultLine])[2]
      BY <1>2, <1>7 DEF DefaultRead
    <2> QED
      BY <1>4, <1>5, <2>1
  <1> QED
    BY <1>6, <1>7

\* The policy says what the text says: the rules of its rule lines in their order, each
\* matcher and the reason as they were written, under its own line number; and its
\* default.
THEOREM PolicyIsTheText == Spec => []PolicyRead
  <1>1. IInv => PolicyRead
    <2> SUFFICES ASSUME IInv, answer = "ok" PROVE PolicyRead
      BY DEF PolicyRead
    <2>1. text \in Seq(Seq(Symbols)) /\ policy \in Policies
      BY DEF IInv, Typed
    <2>2. ReadUpTo(text, Len(text), policy)
      BY DEF IInv, ReadInv
    <2>3. PICK q : q = Picks(Positions(text), RulesOf(text))
      OBVIOUS
    <2>4. /\ Len(policy.rules) = Len(q) /\ DOMAIN q = 1..Len(q)
          /\ \A k \in 1..Len(q) : SameRule(text, q[k], policy.rules[k])
          /\ IF DefaultsOf(text) = {} THEN policy.default = "ask"
             ELSE \E n \in DefaultsOf(text) : <<policy.default>> = TokensOf(text[n])[2]
      BY <2>1, <2>2, <2>3, WholePolicy
    <2>5. /\ q = Picks(Positions(text), {n \in DOMAIN text : RuleLine(TokensOf(text[n]))})
          /\ DefaultsOf(text) = {n \in DOMAIN text : DefaultLine(TokensOf(text[n]))}
      BY <2>3 DEF RulesOf, DefaultsOf
    <2>6. \A k \in DOMAIN q :
            /\ policy.rules[k].line = q[k]
            /\ <<policy.rules[k].effect>> = TokensOf(text[q[k]])[1]
            /\ Says(policy.rules[k].matchers, MatcherTokens(TokensOf(text[q[k]])))
            /\ Says(policy.rules[k].reason, ReasonTokens(TokensOf(text[q[k]])))
      BY <2>4, Zenon DEF SameRule
    <2> QED
      BY <2>4, <2>5, <2>6, Zenon DEF PolicyRead
  <1> QED
    BY <1>1, InvHolds, PTL

=============================================================================
