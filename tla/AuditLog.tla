------------------------------ MODULE AuditLog ------------------------------
(***************************************************************************)
(* audit.jsonl, symbol by symbol: Store.Append from several handlers and   *)
(* processes at once, and what Store.Events makes of the bytes.  There is  *)
(* no lock; O_APPEND keeps one write(2) in one piece, but a line may take  *)
(* more than one.  A write may stop half-way and go on, fail for good, or  *)
(* the writer may die.  Module Inbox has the calls these lines belong to.  *)
(***************************************************************************)
EXTENDS Naturals, Sequences, FiniteSets

CONSTANTS
  Requests,    \* requests whose lines are appended
  Appenders,   \* calls of inbox.Submit and inbox.Decide at a time
  MaxCuts      \* bound: writes that stop half-way; 0 when the disk is sound

ASSUME LogAssumption == MaxCuts \in Nat

Events == {<<r, kind>> : r \in Requests, kind \in {"submitted", "auto", "decision"}}

VARIABLES
  log,      \* the file
  todo,     \* the events each call has left to append
  sent,     \* how many symbols of the first one's line are in the file
  begun,    \* history: events some call has set out to append
  written,  \* history: the events whose lines were written to the end, in order
  cuts      \* history: <<event, n>> when a write stopped after n symbols of its line

logVars == <<log, todo, sent, begun, written, cuts>>

Newline == <<"newline">>

\* Mutant: the line is not ended.
LineUnended(e) == <<<<e, "head">>, <<e, "tail">>>>

\* A JSONL line: the event in two pieces, neither of them JSON on its own.
Line(e) == <<<<e, "head">>, <<e, "tail">>, Newline>>

LogInit ==
  /\ log     = <<>>
  /\ todo    = [a \in Appenders |-> <<>>]
  /\ sent    = [a \in Appenders |-> 0]
  /\ begun   = {}
  /\ written = <<>>
  /\ cuts    = {}

\* inbox.Submit has one line or two to append, inbox.Decide one.
Begin(a) ==
  /\ todo[a] = <<>>
  /\ \E r \in Requests :
       \E events \in {<<<<r, "submitted">>>>, <<<<r, "submitted">>, <<r, "auto">>>>,
                      <<<<r, "decision">>>>} :
         /\ begun \cap {events[k] : k \in DOMAIN events} = {}
         /\ begun' = begun \cup {events[k] : k \in DOMAIN events}
         /\ todo'  = [todo EXCEPT ![a] = events]
  /\ UNCHANGED <<log, sent, written, cuts>>

\* Mutant: the file is opened with O_TRUNC instead of O_APPEND.
PutAnew(symbols) == log' = symbols

\* O_APPEND: every write goes to the end.
Put(symbols) == log' = log \o symbols

Rest(a) == SubSeq(Line(Head(todo[a])), sent[a] + 1, Len(Line(Head(todo[a]))))

WriteRest(a) ==
  /\ todo[a] # <<>>
  /\ Put(Rest(a))
  /\ written' = Append(written, Head(todo[a]))
  /\ todo' = [todo EXCEPT ![a] = Tail(@)]
  /\ sent' = [sent EXCEPT ![a] = 0]
  /\ UNCHANGED <<begun, cuts>>

\* A short write; the rest is the next write's, and others come between.
WritePart(a) ==
  /\ Cardinality(cuts) < MaxCuts
  /\ todo[a] # <<>>
  /\ \E k \in 1..Len(Rest(a)) - 1 :
       /\ Put(SubSeq(Rest(a), 1, k))
       /\ sent' = [sent EXCEPT ![a] = @ + k]
       /\ cuts' = cuts \cup {<<Head(todo[a]), sent[a] + k>>}
  /\ UNCHANGED <<todo, begun, written>>

\* Mutant: the next line starts where this one stopped.
GiveUpInPlace(a) ==
  /\ todo[a] # <<>>
  /\ todo' = [todo EXCEPT ![a] = <<>>]
  /\ UNCHANGED <<log, sent, begun, written, cuts>>

\* Open or Write fails and the call returns the error, or its process dies.
GiveUp(a) ==
  /\ todo[a] # <<>>
  /\ todo' = [todo EXCEPT ![a] = <<>>]
  /\ sent' = [sent EXCEPT ![a] = 0]
  /\ UNCHANGED <<log, begun, written, cuts>>

LogNext == \E a \in Appenders : Begin(a) \/ WriteRest(a) \/ WritePart(a) \/ GiveUp(a)

LogSpec == LogInit /\ [][LogNext]_logVars

-----------------------------------------------------------------------------
\* Store.Events: split at newlines; every line that is not blank must be an event.

Breaks(symbols) == {0, Len(symbols) + 1} \cup {i \in DOMAIN symbols : symbols[i] = Newline}

Lines(symbols) ==
  LET ends == {p \in Breaks(symbols) \X Breaks(symbols) :
                 p[1] < p[2] /\ \A k \in Breaks(symbols) : k <= p[1] \/ p[2] <= k}
  IN  {SubSeq(symbols, p[1] + 1, p[2] - 1) : p \in ends}

WholeEvent(line) == \E e \in Events : line = <<<<e, "head">>, <<e, "tail">>>>

Readable == \A line \in Lines(log) : line = <<>> \/ WholeEvent(line)

\* Where `log` prints an event, when the log can be read.
PlacesOf(e) == {i \in DOMAIN log : log[i] = <<e, "head">>}

-----------------------------------------------------------------------------
Written == {written[k] : k \in DOMAIN written}

LogTypeOK ==
  /\ log     \in Seq((Events \X {"head", "tail"}) \cup {Newline})
  /\ todo    \in [Appenders -> Seq(Events)]
  /\ sent    \in [Appenders -> 0..2]
  /\ \A a \in Appenders : sent[a] > 0 => todo[a] # <<>>
  /\ begun   \subseteq Events
  /\ written \in Seq(Events)
  /\ cuts    \subseteq Events \X {1, 2}

\* Store.Events: a log that can be read shows each event that was written to
\* the end, once, in the order they were written.
LogKeepsAll ==
  Readable =>
    \A k \in DOMAIN written :
      \E i \in DOMAIN log :
        /\ PlacesOf(written[k]) = {i}
        /\ \A j \in 1..(k - 1) : \A h \in PlacesOf(written[j]) : h < i

\* On a sound disk, concurrent appends and deaths leave a log that can be read.
OnlyCutsSpoilLog == ~Readable => cuts # {}

OnItsLine(e) ==
  \E i \in 1..Len(log) + 1 - Len(Line(e)) :
    /\ SubSeq(log, i, i + Len(Line(e)) - 1) = Line(e)
    /\ i = 1 \/ log[i - 1] = Newline

\* A write that stops half-way spoils no more than its own line and the one
\* its fragment runs into: all others are still lines of their own, although
\* Events no longer reads them.
DamageIsLocal ==
  Cardinality({e \in Written : ~OnItsLine(e)})
    <= Cardinality(cuts) + Cardinality({c[1] : c \in cuts})

=============================================================================
