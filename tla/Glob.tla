-------------------------------- MODULE Glob ---------------------------------
(***************************************************************************)
(* policy.Glob, the matcher behind action: and agent:.  One action per     *)
(* case of its loop; a behaviour matches one pattern against one subject.  *)
(* Indexes count from 0, as in the Go code.                                *)
(***************************************************************************)
EXTENDS Integers, Sequences

CONSTANTS
  Alphabet,      \* bytes a pattern or a subject may hold, "*" and "?" included
  MaxPattern,    \* bound on the length of a pattern
  MaxSubject     \* bound on the length of a subject

ASSUME AlphabetAssumption == {"*", "?"} \subseteq Alphabet
ASSUME LengthAssumption == MaxPattern \in Nat /\ MaxSubject \in Nat

VARIABLES
  pattern, s,    \* the arguments
  px, sx,        \* the next byte of each
  star, mark,    \* the last '*' seen, and where its run ends; -1: no '*' yet
  answer         \* "running", or what Glob returned

vars == <<pattern, s, px, sx, star, mark, answer>>

Strings(n) == UNION {[1..k -> Alphabet] : k \in 0..n}

PatternAt(i) == pattern[i + 1]
SubjectAt(i) == s[i + 1]

Init ==
  /\ pattern \in Strings(MaxPattern)
  /\ s \in Strings(MaxSubject)
  /\ px = 0 /\ sx = 0
  /\ star = -1 /\ mark = 0
  /\ answer = "running"

-----------------------------------------------------------------------------
\* for sx < len(s): the first case of the switch that holds.
Scanning == answer = "running" /\ sx < Len(s)

OneByte == px < Len(pattern) /\ PatternAt(px) \in {"?", SubjectAt(sx)}
OnStar  == px < Len(pattern) /\ PatternAt(px) = "*"

Advance ==
  /\ Scanning /\ OneByte
  /\ px' = px + 1
  /\ sx' = sx + 1
  /\ UNCHANGED <<pattern, s, star, mark, answer>>

\* Mutant: a '*' swallows one byte at least.
TakeStarGreedy ==
  /\ Scanning /\ ~OneByte /\ OnStar
  /\ star' = px
  /\ mark' = sx + 1
  /\ px' = px + 1
  /\ UNCHANGED <<pattern, s, sx, answer>>

TakeStar ==
  /\ Scanning /\ ~OneByte /\ OnStar
  /\ star' = px
  /\ mark' = sx
  /\ px' = px + 1
  /\ UNCHANGED <<pattern, s, sx, answer>>

\* Mutant: the run of the '*' is not remembered to have grown.
BacktrackForgets ==
  /\ Scanning /\ ~OneByte /\ ~OnStar /\ star >= 0
  /\ px' = star + 1
  /\ sx' = mark + 1
  /\ UNCHANGED <<pattern, s, star, mark, answer>>

\* Mutant: the '*' is resumed without swallowing another byte.
BacktrackInPlace ==
  /\ Scanning /\ ~OneByte /\ ~OnStar /\ star >= 0
  /\ px' = star + 1
  /\ sx' = mark
  /\ UNCHANGED <<pattern, s, star, mark, answer>>

\* Let the last '*' swallow one more byte.
Backtrack ==
  /\ Scanning /\ ~OneByte /\ ~OnStar /\ star >= 0
  /\ px' = star + 1
  /\ mark' = mark + 1
  /\ sx' = mark + 1
  /\ UNCHANGED <<pattern, s, star, answer>>

Mismatch ==
  /\ Scanning /\ ~OneByte /\ ~OnStar /\ star < 0
  /\ answer' = "no"
  /\ UNCHANGED <<pattern, s, px, sx, star, mark>>

\* Mutant: no loop over the '*'s left at the end.
SkipNothing ==
  /\ answer = "running" /\ sx >= Len(s) /\ OnStar
  /\ answer' = "no"
  /\ UNCHANGED <<pattern, s, px, sx, star, mark>>

\* The subject is used up: what is left of the pattern may only be '*'s.
SkipStar ==
  /\ answer = "running" /\ sx >= Len(s) /\ OnStar
  /\ px' = px + 1
  /\ UNCHANGED <<pattern, s, sx, star, mark, answer>>

\* Mutant: a used-up subject is a match, whatever is left of the pattern.
FinishEarly ==
  /\ answer = "running" /\ sx >= Len(s) /\ ~OnStar
  /\ answer' = "yes"
  /\ UNCHANGED <<pattern, s, px, sx, star, mark>>

Finish ==
  /\ answer = "running" /\ sx >= Len(s) /\ ~OnStar
  /\ answer' = IF px = Len(pattern) THEN "yes" ELSE "no"
  /\ UNCHANGED <<pattern, s, px, sx, star, mark>>

Next == Advance \/ TakeStar \/ Backtrack \/ Mismatch \/ SkipStar \/ Finish

Spec == Init /\ [][Next]_vars

\* The loop runs on until Glob returns.
FairSpec == Spec /\ WF_vars(Next)

-----------------------------------------------------------------------------
(***************************************************************************)
(* What the comment on Glob says: the suffixes of s, by where they begin,  *)
(* that the pattern covers from i on.  '*' stands for any run, '?' for one *)
(* byte, the rest for itself.                                              *)
(***************************************************************************)
Fits[i \in 0..Len(pattern)] ==
  {j \in 0..Len(s) :
     IF i = Len(pattern) THEN j = Len(s)
     ELSE IF PatternAt(i) = "*" THEN \E k \in Fits[i + 1] : j <= k
     ELSE /\ j < Len(s)
          /\ PatternAt(i) \in {"?", SubjectAt(j)}
          /\ j + 1 \in Fits[i + 1]}

Means == 0 \in Fits[0]

\* No index runs outside its string (Go would panic), and a '*' is resumed only
\* from where it was seen.
IndexesOK ==
  /\ px \in 0..Len(pattern)
  /\ sx \in 0..Len(s)
  /\ star \in -1..(px - 1)
  /\ mark \in 0..sx
  /\ star >= 0 => PatternAt(star) = "*"
  /\ answer \in {"running", "yes", "no"}

\* An action or agent name is only ever accepted by a pattern that covers it.
GlobSound == answer = "yes" => Means

\* A name without a '*' of its own is accepted by every pattern that covers it:
\* backtracking to the last '*' alone loses no match.
GlobComplete ==
  answer = "no" /\ (\A i \in DOMAIN s : s[i] # "*") => ~Means

\* Every step makes progress that no later step undoes, so the loop ends: the run
\* of the current '*' grows, or a later '*' is taken, or both indexes move on.
Progress ==
  [][answer' = "running" =>
       \/ star' > star
       \/ star' = star /\ mark' > mark
       \/ star' = star /\ mark' = mark /\ px' > px /\ sx' >= sx]_vars

\* Glob returns.
Returns == <>(answer # "running")

\* glob.go: "'*' matches any run of characters (including none, and including
\* '.')"; docs/policy.md: "`*` = any run of characters".
GlobComment == answer # "running" => (answer = "yes" <=> Means)

=============================================================================
