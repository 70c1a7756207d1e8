----------------------------- MODULE GlobProofs ------------------------------
(***************************************************************************)
(* Glob for every alphabet and every length: it never indexes outside its  *)
(* strings, every step is progress, and its answer is what Means says (up  *)
(* to the subjects with a '*' that GlobComment is about).                  *)
(***************************************************************************)
EXTENDS Glob, Induction, SequenceTheorems

StringsOK == pattern \in Seq(Alphabet) /\ s \in Seq(Alphabet)

LEMMA StringsAreSeqs == \A n \in Nat : Strings(n) \subseteq Seq(Alphabet)
  BY IsASeq DEF Strings

-----------------------------------------------------------------------------
\* What Fits means, unfolded once.

\* The suffixes covered from i on, given those covered from i + 1 on.
Covered(i, rest) ==
  {j \in 0..Len(s) :
     IF i = Len(pattern) THEN j = Len(s)
     ELSE IF PatternAt(i) = "*" THEN \E k \in rest : j <= k
     ELSE /\ j < Len(s)
          /\ PatternAt(i) \in {"?", SubjectAt(j)}
          /\ j + 1 \in rest}

\* The recursion of Fits has a solution: it goes down the suffixes of the pattern.
LEMMA FitsExists ==
  ASSUME StringsOK
  PROVE  \E f : f = [i \in 0..Len(pattern) |-> Covered(i, f[i + 1])]
  <1> DEFINE D == SUBSET (0..Len(s))
             L == Len(pattern)
             base == {Len(s)}
             step == [p \in Nat \X D |-> Covered(L - p[1], p[2])]
  <1>1. L \in Nat /\ Len(s) \in Nat
    BY DEF StringsOK
  <1>2. base \in D /\ step \in [Nat \X D -> D]
    BY <1>1 DEF Covered
  <1>3. PICK f \in [0..L -> D] : Recurs(f, base, step, L)
    <2> HIDE DEF D, L, base, step
    <2> QED
      BY <1>1, <1>2, Recurse
  <1> DEFINE g == [i \in 0..L |-> f[L - i]]
  <1>4. ASSUME NEW i \in 0..L PROVE g[i] = Covered(i, g[i + 1])
    <2>1. CASE i = L
      <3>1. \A rest : Covered(L, rest) = {Len(s)}
        BY <1>1 DEF Covered
      <3>2. g[L] = f[0]
        BY <1>1
      <3>3. f[0] = base
        BY <1>3 DEF Recurs
      <3> HIDE DEF g
      <3> QED
        BY <2>1, <3>1, <3>2, <3>3
    <2>2. CASE i < L
      <3> DEFINE n == L - i
      <3>1. n \in 1..L /\ L - n = i /\ g[i] = f[n] /\ g[i + 1] = f[n - 1]
        BY <1>1, <2>2
      <3>2. f[n - 1] \in D /\ n \in Nat
        BY <1>1, <3>1
      <3>3. step[<<n, f[n - 1]>>] = Covered(L - n, f[n - 1])
        BY <3>2
      <3> HIDE DEF n, g, step
      <3> QED
        BY <1>3, <3>1, <3>3 DEF Recurs
    <2> QED
      BY <1>1, <2>1, <2>2
  <1>5. g = [i \in 0..L |-> Covered(i, g[i + 1])]
    <2> HIDE DEF L, D, step
    <2>1. [i \in 0..L |-> g[i]] = [i \in 0..L |-> Covered(i, g[i + 1])]
      <3> HIDE DEF g
      <3> QED
        BY <1>4
    <2> QED
      BY <2>1
  <1> QED
    BY <1>5

LEMMA FitsUnfolds ==
  ASSUME StringsOK, NEW i \in 0..Len(pattern)
  PROVE  Fits[i] = Covered(i, Fits[i + 1])
  <1>1. PICK f : f = [n \in 0..Len(pattern) |-> Covered(n, f[n + 1])]
    BY FitsExists
  <1>2. Fits = CHOOSE g : g = [n \in 0..Len(pattern) |-> Covered(n, g[n + 1])]
    BY DEF Fits, Covered
  <1>3. Fits = [n \in 0..Len(pattern) |-> Covered(n, Fits[n + 1])]
    BY <1>1, <1>2
  <1> QED
    BY <1>3

\* The same, case by case.
LEMMA FitsCases ==
  ASSUME StringsOK, NEW j \in 0..Len(s)
  PROVE  /\ j \in Fits[Len(pattern)] <=> j = Len(s)
         /\ \A i \in 0..Len(pattern) - 1 :
              /\ PatternAt(i) = "*" =>
                   (j \in Fits[i] <=> \E k \in Fits[i + 1] : j <= k)
              /\ PatternAt(i) # "*" =>
                   (j \in Fits[i] <=> /\ j < Len(s)
                                      /\ PatternAt(i) \in {"?", SubjectAt(j)}
                                      /\ j + 1 \in Fits[i + 1])
  <1>1. Len(pattern) \in Nat /\ Len(s) \in Nat
    BY DEF StringsOK
  <1>2. j \in Fits[Len(pattern)] <=> j = Len(s)
    <2>1. Fits[Len(pattern)] = Covered(Len(pattern), Fits[Len(pattern) + 1])
      BY <1>1, FitsUnfolds
    <2> QED
      BY <2>1 DEF Covered
  <1>3. ASSUME NEW i \in 0..Len(pattern) - 1
        PROVE  /\ PatternAt(i) = "*" =>
                    (j \in Fits[i] <=> \E k \in Fits[i + 1] : j <= k)
               /\ PatternAt(i) # "*" =>
                    (j \in Fits[i] <=> /\ j < Len(s)
                                       /\ PatternAt(i) \in {"?", SubjectAt(j)}
                                       /\ j + 1 \in Fits[i + 1])
    <2>1. i \in 0..Len(pattern) /\ i # Len(pattern)
      BY <1>1
    <2>2. Fits[i] = Covered(i, Fits[i + 1])
      BY <2>1, FitsUnfolds
    <2> QED
      BY <2>1, <2>2 DEF Covered
  <1> QED
    BY <1>2, <1>3

LEMMA FitsBounded ==
  ASSUME StringsOK, NEW i \in 0..Len(pattern)
  PROVE  Fits[i] \subseteq 0..Len(s)
  BY FitsUnfolds DEF Covered

\* The meaning is that of the arguments, which no step changes.
LEMMA ArgumentsStay ==
  ASSUME [Next]_vars
  PROVE  pattern' = pattern /\ s' = s
  BY DEF Next, vars, Advance, TakeStar, Backtrack, Mismatch, SkipStar, Finish

LEMMA FitsStays ==
  ASSUME [Next]_vars
  PROVE  Fits' = Fits /\ Means' = Means
  <1> DEFINE FitsOf(p, t) ==
        CHOOSE f : f = [i \in 0..Len(p) |->
          {j \in 0..Len(t) :
             IF i = Len(p) THEN j = Len(t)
             ELSE IF p[i + 1] = "*" THEN \E k \in f[i + 1] : j <= k
             ELSE /\ j < Len(t)
                  /\ p[i + 1] \in {"?", t[j + 1]}
                  /\ j + 1 \in f[i + 1]}]
  <1>1. Fits = FitsOf(pattern, s)
    BY DEF Fits, PatternAt, SubjectAt
  <1>2. Fits' = FitsOf(pattern', s')
    BY DEF Fits, PatternAt, SubjectAt
  <1>3. Fits' = Fits
    <2> HIDE DEF FitsOf
    <2> QED
      BY <1>1, <1>2, ArgumentsStay
  <1> QED
    BY <1>3 DEF Means

-----------------------------------------------------------------------------
\* Indexes.

IndexInv == StringsOK /\ IndexesOK

LEMMA InitIndexInv == Init => IndexInv
  BY StringsAreSeqs, LengthAssumption
  DEF Init, IndexInv, StringsOK, IndexesOK

LEMMA NextIndexInv == IndexInv /\ [Next]_vars => IndexInv'
  <1> SUFFICES ASSUME IndexInv, [Next]_vars PROVE IndexInv'
    OBVIOUS
  <1>1. Len(pattern) \in Nat /\ Len(s) \in Nat
    BY DEF IndexInv, StringsOK
  <1> USE <1>1 DEF IndexInv, StringsOK, IndexesOK, Scanning, OnStar
  <1>2. CASE Advance
    BY <1>2 DEF Advance, OneByte, PatternAt
  <1>3. CASE TakeStar
    BY <1>3 DEF TakeStar, PatternAt
  <1>4. CASE Backtrack
    BY <1>4 DEF Backtrack, PatternAt
  <1>5. CASE Mismatch
    BY <1>5 DEF Mismatch, PatternAt
  <1>6. CASE SkipStar
    BY <1>6 DEF SkipStar, PatternAt
  <1>7. CASE Finish
    BY <1>7 DEF Finish, PatternAt
  <1>8. CASE UNCHANGED vars
    BY <1>8 DEF vars, PatternAt
  <1> QED
    BY <1>2, <1>3, <1>4, <1>5, <1>6, <1>7, <1>8 DEF Next

\* No index ever leaves its string: Glob cannot panic, whatever the strings.
THEOREM IndexesStayInside == Spec => []IndexesOK
  <1>1. IndexInv => IndexesOK
    BY DEF IndexInv
  <1> QED
    BY <1>1, InitIndexInv, NextIndexInv, PTL DEF Spec

\* Every step is progress (star, mark and px, in this order, only grow), so the
\* loop of Glob runs a bounded number of times.
THEOREM EveryStepAdvances == Spec => Progress
  <1> DEFINE Advances ==
        answer' = "running" =>
          \/ star' > star
          \/ star' = star /\ mark' > mark
          \/ star' = star /\ mark' = mark /\ px' > px /\ sx' >= sx
  <1>1. IndexInv /\ [Next]_vars => [Advances]_vars
    <2> SUFFICES ASSUME IndexInv, Next PROVE Advances
      OBVIOUS
    <2>1. /\ Len(pattern) \in Nat /\ Len(s) \in Nat
          /\ px \in Nat /\ sx \in Nat /\ mark \in Nat
          /\ star \in Int /\ star < px
      BY DEF IndexInv, StringsOK, IndexesOK
    <2> QED
      BY <2>1
      DEF Next, Advance, TakeStar, Backtrack, Mismatch, SkipStar, Finish
  <1> QED
    BY <1>1, InitIndexInv, NextIndexInv, PTL DEF Spec, Progress

-----------------------------------------------------------------------------
(***************************************************************************)
(* Soundness: whatever the loop has left to match, matching it is enough   *)
(* for the whole; so is any longer run of the last '*'.                    *)
(***************************************************************************)
Enough ==
  /\ sx \in Fits[px] => Means
  /\ star >= 0 => \A k \in Fits[star + 1] : mark <= k => Means

SoundInv == IndexInv /\ Enough /\ GlobSound

\* The indexes of a running loop, and what Fits says of them.
LEMMA Position ==
  ASSUME IndexInv
  PROVE  /\ Len(pattern) \in Nat /\ Len(s) \in Nat
         /\ px \in 0..Len(pattern) /\ sx \in 0..Len(s)
         /\ star \in -1..(px - 1) /\ mark \in 0..sx
         /\ star >= 0 => star \in 0..Len(pattern) - 1 /\ PatternAt(star) = "*"
  BY DEF IndexInv, StringsOK, IndexesOK

LEMMA NextEnough == SoundInv /\ [Next]_vars => Enough'
  <1> SUFFICES ASSUME SoundInv, [Next]_vars PROVE Enough'
    OBVIOUS
  <1>0. StringsOK /\ Fits' = Fits /\ Means' = Means
    BY FitsStays DEF SoundInv, IndexInv
  <1>1. /\ Len(pattern) \in Nat /\ Len(s) \in Nat
        /\ px \in 0..Len(pattern) /\ sx \in 0..Len(s)
        /\ star \in -1..(px - 1) /\ mark \in 0..sx
    BY Position DEF SoundInv
  <1>2. CASE Advance
    <2>1. px \in 0..Len(pattern) - 1 /\ sx < Len(s)
      BY <1>1, <1>2 DEF Advance, Scanning, OneByte
    <2>2. sx + 1 \in Fits[px + 1] => sx \in Fits[px]
      <3>1. CASE PatternAt(px) = "*"
        <4>1. \A k \in Fits[px + 1] : sx <= k => sx \in Fits[px]
          BY <1>0, <1>1, <2>1, <3>1, FitsCases
        <4> QED
          BY <1>1, <4>1
      <3>2. CASE PatternAt(px) # "*"
        BY <1>0, <1>1, <1>2, <2>1, <3>2, FitsCases DEF Advance, OneByte
      <3> QED
        BY <3>1, <3>2
    <2> QED
      BY <1>0, <1>2, <2>2 DEF Advance, SoundInv, Enough
  <1>3. CASE TakeStar
    <2>1. px \in 0..Len(pattern) - 1 /\ PatternAt(px) = "*"
      BY <1>1, <1>3 DEF TakeStar, OnStar
    <2>2. \A k \in Fits[px + 1] : sx <= k => sx \in Fits[px]
      BY <1>0, <1>1, <2>1, FitsCases
    <2> QED
      BY <1>0, <1>1, <1>3, <2>2 DEF TakeStar, SoundInv, Enough
  <1>4. CASE Backtrack
    <2>1. \A k \in Fits[star + 1] : k \in Nat
      <3>1. star + 1 \in 0..Len(pattern)
        BY <1>1
      <3> QED
        BY <1>0, <1>1, <3>1, FitsBounded
    <2> QED
      BY <1>0, <1>1, <1>4, <2>1 DEF Backtrack, SoundInv, Enough
  <1>5. CASE SkipStar
    <2>1. px \in 0..Len(pattern) - 1 /\ PatternAt(px) = "*"
      BY <1>1, <1>5 DEF SkipStar, OnStar
    <2>2. \A k \in Fits[px + 1] : sx <= k => sx \in Fits[px]
      BY <1>0, <1>1, <2>1, FitsCases
    <2> QED
      BY <1>0, <1>1, <1>5, <2>2 DEF SkipStar, SoundInv, Enough
  <1>6. CASE Mismatch \/ Finish \/ UNCHANGED vars
    BY <1>0, <1>6 DEF Mismatch, Finish, vars, SoundInv, Enough
  <1> QED
    BY <1>2, <1>3, <1>4, <1>5, <1>6 DEF Next

\* A name Glob accepts is covered by the pattern, for every pattern and name: no
\* action or agent slips under a rule that was not written for it.
THEOREM AcceptsOnlyMatches == Spec => []GlobSound
  <1>1. Init => SoundInv
    <2> SUFFICES ASSUME Init PROVE SoundInv
      OBVIOUS
    <2> QED
      BY InitIndexInv DEF Init, SoundInv, Enough, GlobSound, Means
  <1>2. SoundInv /\ [Next]_vars => SoundInv'
    <2> SUFFICES ASSUME SoundInv, [Next]_vars PROVE SoundInv'
      OBVIOUS
    <2>1. IndexInv' /\ Enough' /\ Means' = Means
      BY NextIndexInv, NextEnough, FitsStays DEF SoundInv
    <2>2. GlobSound'
      <3>1. CASE Finish
        <4>1. answer' = "yes" => px = Len(pattern) /\ sx = Len(s)
          BY <3>1, Position DEF Finish, SoundInv
        <4>2. answer' = "yes" => sx \in Fits[px]
          BY <4>1, Position, FitsCases DEF SoundInv, IndexInv
        <4> QED
          BY <2>1, <4>2 DEF SoundInv, Enough, GlobSound
      <3>2. CASE Mismatch
        BY <3>2 DEF Mismatch, GlobSound
      <3>3. ASSUME ~Finish, ~Mismatch PROVE answer' = answer
        BY <3>3 DEF Next, vars, Advance, TakeStar, Backtrack, SkipStar
      <3> QED
        BY <2>1, <3>1, <3>2, <3>3 DEF SoundInv, GlobSound
    <2> QED
      BY <2>1, <2>2 DEF SoundInv
  <1>3. SoundInv => GlobSound
    BY DEF SoundInv
  <1> QED
    BY <1>1, <1>2, <1>3, PTL DEF Spec

-----------------------------------------------------------------------------
(***************************************************************************)
(* Completeness, for a subject without a '*': if the pattern covers it,    *)
(* then what is left can still be matched, or can be once the run of the   *)
(* last '*' has grown.  Since that '*' the loop has only passed bytes one  *)
(* by one, so a run grown to k leaves px at k plus the bytes passed; this  *)
(* is why going back to the last '*' alone is enough.                      *)
(***************************************************************************)
Plain == \A i \in DOMAIN s : s[i] # "*"

Passed == px - (star + 1)

Reachable ==
  /\ star >= 0 /\ sx = mark + Passed
  /\ \E k \in Fits[star + 1] : mark <= k
  /\ \A k \in Fits[star + 1] : mark <= k => k + Passed \in Fits[px]

Open == sx \in Fits[px] \/ Reachable

CompleteInv ==
  /\ IndexInv
  /\ answer = "running" /\ Plain /\ Means => Open
  /\ GlobComplete

\* Nothing fits where the next byte does not.
LEMMA Stuck ==
  ASSUME IndexInv, ~OneByte, ~OnStar, sx < Len(s)
  PROVE  sx \notin Fits[px]
  <1>1. CASE px = Len(pattern)
    BY <1>1, Position, FitsCases DEF IndexInv
  <1>2. CASE px # Len(pattern)
    <2>1. px \in 0..Len(pattern) - 1
      BY <1>2, Position
    <2>2. PatternAt(px) # "*" /\ PatternAt(px) \notin {"?", SubjectAt(sx)}
      BY <2>1, Position DEF OneByte, OnStar
    <2> QED
      BY <2>1, <2>2, Position, FitsCases DEF IndexInv
  <1> QED
    BY <1>1, <1>2

\* At the end of the subject the last '*' has no more to take.
LEMMA OpenAtEnd ==
  ASSUME IndexInv, Open, sx = Len(s)
  PROVE  sx \in Fits[px]
  <1> SUFFICES ASSUME Reachable PROVE sx \in Fits[px]
    BY DEF Open
  <1>1. PICK k \in Fits[star + 1] : mark <= k
    BY DEF Reachable
  <1>2. /\ px \in 0..Len(pattern) /\ star + 1 \in 0..Len(pattern)
        /\ Len(s) \in Nat /\ mark \in Nat /\ Passed \in Int
    BY Position DEF Reachable, Passed
  <1>3. k \in 0..Len(s) /\ k + Passed \in 0..Len(s) /\ k + Passed \in Fits[px]
    BY <1>1, <1>2, FitsBounded DEF Reachable, IndexInv
  <1>4. k = mark
    BY <1>1, <1>2, <1>3 DEF Reachable
  <1> QED
    BY <1>3, <1>4 DEF Reachable

LEMMA NextOpen ==
  ASSUME CompleteInv, [Next]_vars, answer' = "running", Plain, Means
  PROVE  Open'
  <1>0. StringsOK /\ Fits' = Fits /\ s' = s /\ pattern' = pattern
    BY FitsStays, ArgumentsStay DEF CompleteInv, IndexInv
  <1>1. /\ Len(pattern) \in Nat /\ Len(s) \in Nat
        /\ px \in 0..Len(pattern) /\ sx \in 0..Len(s)
        /\ star \in -1..(px - 1) /\ mark \in 0..sx /\ Passed \in Int
    BY Position DEF CompleteInv, Passed
  <1>2. ASSUME Next PROVE Open
    <2>1. answer = "running"
      BY <1>2 DEF Next, Advance, TakeStar, Backtrack, Mismatch, SkipStar, Finish, Scanning
    <2> QED
      BY <2>1 DEF CompleteInv
  <1>3. CASE Advance
    <2>1. px \in 0..Len(pattern) - 1 /\ sx < Len(s) /\ PatternAt(px) # "*"
      <3>1. px \in 0..Len(pattern) - 1 /\ sx < Len(s)
        BY <1>1, <1>3 DEF Advance, Scanning, OneByte
      <3>2. SubjectAt(sx) # "*"
        <4>1. sx + 1 \in DOMAIN s
          BY <1>0, <1>1, <3>1 DEF StringsOK
        <4> QED
          BY <4>1 DEF Plain, SubjectAt
      <3> QED
        BY <1>3, <3>1, <3>2 DEF Advance, OneByte
    <2>2. \A j \in Fits[px] : j + 1 \in Fits[px + 1]
      <3>1. Fits[px] \subseteq 0..Len(s)
        BY <1>0, <1>1, FitsBounded
      <3> QED
        BY <1>0, <2>1, <3>1, FitsCases
    <2>3. px' = px + 1 /\ sx' = sx + 1 /\ star' = star /\ mark' = mark
      BY <1>3 DEF Advance
    <2>4. CASE sx \in Fits[px]
      BY <1>0, <2>2, <2>3, <2>4 DEF Open
    <2>5. CASE Reachable
      <3>1. Passed' = Passed + 1
        BY <1>1, <2>3 DEF Passed
      <3>2. sx' = mark' + Passed'
        BY <1>1, <2>3, <2>5, <3>1 DEF Reachable
      <3>3. ASSUME NEW k \in Fits[star + 1], mark <= k
            PROVE  k + Passed' \in Fits[px + 1]
        <4>1. k + Passed \in Fits[px] /\ k \in Int
          <5>1. star + 1 \in 0..Len(pattern)
            BY <1>1, <2>5 DEF Reachable
          <5> QED
            BY <1>0, <1>1, <2>5, <3>3, <5>1, FitsBounded DEF Reachable
        <4>2. k + Passed + 1 \in Fits[px + 1]
          BY <2>2, <4>1
        <4>3. k + Passed' = k + Passed + 1
          BY <1>1, <3>1, <4>1
        <4> QED
          BY <4>2, <4>3
      <3> QED
        BY <1>0, <2>3, <2>5, <3>2, <3>3 DEF Open, Reachable
    <2> QED
      BY <1>2, <1>3, <2>4, <2>5 DEF Open, Next
  <1>4. CASE TakeStar
    <2>1. px \in 0..Len(pattern) - 1 /\ PatternAt(px) = "*" /\ mark <= sx
      BY <1>1, <1>4 DEF TakeStar, OnStar
    <2>2. star' = px /\ mark' = sx /\ px' = px + 1 /\ sx' = sx /\ Passed' = 0
      BY <1>1, <1>4 DEF TakeStar, Passed
    <2>3. PICK j \in Fits[px] : sx <= j
      <3>1. CASE sx \in Fits[px]
        BY <1>1, <3>1
      <3>2. CASE Reachable
        <4>1. PICK k \in Fits[star + 1] : mark <= k /\ k + Passed \in Fits[px]
          BY <3>2 DEF Reachable
        <4>2. k \in Int
          <5>1. star + 1 \in 0..Len(pattern)
            BY <1>1, <3>2 DEF Reachable
          <5> QED
            BY <1>0, <1>1, <5>1, FitsBounded
        <4> QED
          BY <1>1, <3>2, <4>1, <4>2 DEF Reachable
      <3> QED
        BY <1>2, <1>4, <3>1, <3>2 DEF Open, Next
    <2>4. j \in 0..Len(s) /\ Fits[px + 1] \subseteq 0..Len(s)
      BY <1>0, <1>1, <2>1, FitsBounded
    <2>5. \E k \in Fits[px + 1] : j <= k
      BY <1>0, <2>1, <2>4, FitsCases
    <2>6. \E k \in Fits[px + 1] : sx <= k
      BY <1>1, <2>3, <2>4, <2>5
    <2>7. \A k \in Fits[px + 1] : k + 0 \in Fits[px + 1]
      BY <2>4
    <2> QED
      BY <1>0, <1>1, <2>2, <2>6, <2>7 DEF Open, Reachable
  <1>5. CASE Backtrack
    <2>1. sx \notin Fits[px]
      BY <1>5, Stuck DEF Backtrack, Scanning, CompleteInv
    <2>2. Reachable
      BY <1>2, <1>5, <2>1 DEF Open, Next
    <2>3. star + 1 \in 0..Len(pattern) /\ Fits[star + 1] \subseteq 0..Len(s)
      BY <1>0, <1>1, <2>2, FitsBounded DEF Reachable
    <2>4. \A k \in Fits[star + 1] : mark <= k => mark + 1 <= k
      BY <1>1, <2>1, <2>2, <2>3 DEF Reachable
    <2>5. star' = star /\ mark' = mark + 1 /\ sx' = mark + 1 /\ px' = star + 1 /\ Passed' = 0
      BY <1>1, <1>5 DEF Backtrack, Passed
    <2>6. \A k \in Fits[star + 1] : k + 0 \in Fits[star + 1]
      BY <2>3
    <2>7. \E k \in Fits[star + 1] : mark + 1 <= k
      BY <2>2, <2>4 DEF Reachable
    <2> QED
      BY <1>0, <1>1, <2>2, <2>5, <2>6, <2>7 DEF Open, Reachable
  <1>6. CASE SkipStar
    <2>1. px \in 0..Len(pattern) - 1 /\ PatternAt(px) = "*" /\ sx = Len(s)
      BY <1>1, <1>6 DEF SkipStar, OnStar
    <2>2. sx \in Fits[px]
      BY <1>2, <1>6, <2>1, OpenAtEnd DEF Next, CompleteInv
    <2>3. PICK k \in Fits[px + 1] : sx <= k
      BY <1>0, <1>1, <2>1, <2>2, FitsCases
    <2>4. k = sx
      BY <1>0, <1>1, <2>1, <2>3, FitsBounded
    <2> QED
      BY <1>0, <1>6, <2>3, <2>4 DEF SkipStar, Open
  <1>7. CASE UNCHANGED vars
    <2>1. Open' <=> Open
      BY <1>0, <1>7 DEF vars, Open, Reachable, Passed
    <2> QED
      BY <1>7, <2>1 DEF vars, CompleteInv
  <1>8. ~Mismatch /\ ~Finish
    BY DEF Mismatch, Finish
  <1> QED
    BY <1>3, <1>4, <1>5, <1>6, <1>7, <1>8 DEF Next

\* A name without a '*' of its own that Glob refuses is covered by no reading of
\* the pattern: going back to the last '*' alone loses no match.
THEOREM RefusesNoMatch == Spec => []GlobComplete
  <1>1. Init => CompleteInv
    <2> SUFFICES ASSUME Init PROVE CompleteInv
      OBVIOUS
    <2>1. Means => Open
      BY DEF Init, Means, Open
    <2> QED
      BY <2>1, InitIndexInv DEF Init, CompleteInv, GlobComplete
  <1>2. CompleteInv /\ [Next]_vars => CompleteInv'
    <2> SUFFICES ASSUME CompleteInv, [Next]_vars PROVE CompleteInv'
      OBVIOUS
    <2>1. IndexInv' /\ Means' = Means /\ s' = s /\ (Plain' <=> Plain)
      BY NextIndexInv, FitsStays, ArgumentsStay DEF CompleteInv, Plain
    <2>2. answer' = "running" /\ Plain /\ Means => Open'
      BY NextOpen
    <2>3. ASSUME Plain, answer' = "no", answer # "no" PROVE ~Means
      <3>1. CASE Mismatch
        <4>1. sx \notin Fits[px]
          BY <3>1, Stuck DEF Mismatch, Scanning, CompleteInv
        <4>2. ~Reachable
          BY <3>1, Position DEF Mismatch, Reachable, CompleteInv
        <4>3. ~Open /\ answer = "running"
          BY <3>1, <4>1, <4>2 DEF Mismatch, Scanning, Open
        <4> QED
          BY <2>3, <4>3 DEF CompleteInv
      <3>2. CASE Finish
        <4>1. sx = Len(s) /\ px # Len(pattern) /\ ~OnStar /\ answer = "running"
          BY <2>3, <3>2, Position DEF Finish, CompleteInv
        <4>2. sx \notin Fits[px]
          <5>1. px \in 0..Len(pattern) - 1 /\ PatternAt(px) # "*" /\ ~(sx < Len(s))
            BY <4>1, Position DEF CompleteInv, OnStar
          <5> QED
            BY <5>1, Position, FitsCases DEF CompleteInv, IndexInv
        <4> QED
          BY <2>3, <4>1, <4>2, OpenAtEnd DEF CompleteInv
      <3>3. Mismatch \/ Finish
        BY <2>3 DEF Next, vars, Advance, TakeStar, Backtrack, SkipStar
      <3> QED
        BY <3>1, <3>2, <3>3
    <2>4. GlobComplete'
      BY <2>1, <2>3 DEF CompleteInv, GlobComplete, Plain
    <2> QED
      BY <2>1, <2>2, <2>4 DEF CompleteInv
  <1>3. CompleteInv => GlobComplete
    BY DEF CompleteInv
  <1> QED
    BY <1>1, <1>2, <1>3, PTL DEF Spec

=============================================================================
