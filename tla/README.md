# Specification of askfirst

askfirst is an approval queue for the actions of AI agents. An agent submits a
request; a policy allows it, denies it or leaves it to a human; the human's
decision comes in through an HTTP server or a command line; every decision is
meant to be in an audit log. All state is in one directory (the *inbox*), and
several processes may work on it at once.

These modules model the code under `src/`. TLC checks them on small instances;
TLAPS proves the safety properties of the queue, of start-up, of the two doors, of
listings and the audit log, and of policy evaluation and the glob matcher, for any
number of requests, threads, processes, faults and crashes, and any input.

## 1. The system

| Part | Code | State | Operations |
|---|---|---|---|
| Request store | `queue/store.go`, `queue/queue.go` | one JSON file per request, written by rename; a mutex per `Store` object | `Add`, `Get`, `List`, `Decide`, `Init` |
| Decision flow | `inbox/inbox.go` | none | `Submit` = evaluate, `Add`, one or two `Append`s; `Decide` = `Store.Decide`, `Append` |
| Waiting | `Store.Wait` | deadline and interval of a caller | read, compare with the clock, sleep, again |
| Audit log | `Store.Append`, `Store.Events` | `audit.jsonl`, append-only | append one line; read all |
| Policy engine | `policy/policy.go` | none (pure) | `Evaluate`, `Matches`, `match`, `lookup` |
| Glob matcher | `policy/glob.go` | none (pure) | `Glob` |
| Policy parser | `policy/parse.go` | none | `Parse` and its helpers |
| HTTP door | `httpapi/server.go` | the `Store` and the policy parsed at start | submit, get/wait, list, approve, deny, policy |
| CLI door | `cli/commands.go`, `cli/cli.go` | none: a process and a `Store` per call | submit, list, show, approve, deny, log, policy check, policy test |
| Bootstrap | `cmdInit`, `cmdServe`, `loadPolicy`, `Store.Init` | `policy.rules`, `requests/`, the server on the port | init, serve, and an operator's edits |
| Rendering, version | `cli/render.go`, `version/`, `cmd/` | none | text layout |

**How they meet.** Both doors build a request, compute `expires_at` and call
`inbox.Submit`, or call `inbox.Decide`. These call the store and then the audit
log. The handlers of a server share one `Store`, and so its mutex; a CLI call
opens its own, so two processes share nothing but the files. Readers (`Get`,
`Wait`) take no lock at all. "Expired" is never stored: it is computed from the
clock each time a record is read.

**What is hard.**

- `Store.Decide` is a read, a check and a write. Inside one process the mutex
  makes them one; between two processes nothing does.
- The clock moves between a check and the write it allows, and between the read
  of a file and the computation of "expired".
- The decision is on disk before its audit line. The line may fail, or the
  process may die first.
- A waiter's deadline races the decision it waits for.
- Ids are random; `Add` guards against a collision by looking for the file.
- `List` reads a directory file by file while others write to it, and one file it
  cannot read fails all of it.
- Lines are appended to `audit.jsonl` without a lock, and one torn line makes the
  whole log unreadable.
- `Init` looks for the policy file, creates it empty and fills it, while another
  `init` or an editor may be at work; a server goes by the policy it read at start.
- An exit code or a status is chosen from what was true a moment ago, by two doors
  that check their arguments in different orders and count time in different units.
- A policy is a security boundary made of loops: glob backtracking, the first
  rule that matches, and matchers that have to fail closed.

**What makes each part correct.**

| Part | Properties |
|---|---|
| Store | a decision is final; nothing is decided after its expiry; a record is never lost or reopened |
| Decision flow | every human decision on disk was asked for; what a caller was told stands |
| Waiting | every call returns; a decision that lands before the last read is heard |
| Audit log | a line never contradicts the record; one decision line per request; a missing line has a cause |
| Policy | the first rule that holds decides; a request satisfies no rule that a fuller one does not |
| Glob | indexes in range, sound, complete, terminates |
| Parser | a text is read whole and as written, or refused |
| Listing | misses no request that had the status asked for all along; shows no status its request did not have meanwhile |
| Audit file | what was appended is there, once, in order; a torn write costs no more than the lines it touches |
| Bootstrap | the starter policy never replaces an edit; nothing listens beyond loopback without a token |
| Doors | exit code and status tell the caller the truth, whatever other calls do meanwhile; where both doors file the same record, and where not; a dry run predicts |

## 2. The modules

| Module | What it is |
|---|---|
| `Records` | the request record, the audit event, and the pure functions on them (`applyExpiry`, the record `Submit` builds, the record `Decide` writes) |
| `Inbox` | the queue as its concurrent callers meet it: submit, decide, wait, over shared files |
| `ApprovalQueue` | the abstract specification: one verdict per request, for good |
| `MCInbox` | instances of `Inbox` for TLC: who shares a `Store` |
| `InboxProofs`, `InboxFinality` | theorems about `Inbox`: types and authority; finality, what it makes true, that `Inbox` implements `ApprovalQueue`, and the audit lines |
| `Listing` | `Store.List` beside the processes that file and decide, deaths, the clock and a disk that fails |
| `AuditLog` | the symbols of `audit.jsonl`: appends that are cut, and `Store.Events` |
| `MCReaders` | an instance of `Listing` and `AuditLog` |
| `Bootstrap` | `init`, `serve` and an editor over one policy file |
| `Doors` | extends `Bootstrap`: what each CLI command and HTTP route checks, reads, writes and answers, beside others |
| `MCDoors` | an instance of `Doors` |
| `ReadersProofs` | theorems about `Listing` and `AuditLog` |
| `DoorsProofs` | theorems about `Bootstrap` and `Doors` |
| `Policy`, `MCPolicy` | the evaluation of one request against one policy, and its instances |
| `PolicyProofs` | theorems about `Policy` |
| `Glob` | the glob matcher's loop |
| `GlobProofs` | theorems about `Glob` |
| `Parser`, `MCParser` | the parsing of one policy text, and its instances |
| `ParserProofs` | theorems about `Parser` |
| `Induction` | induction, least elements and recursion over the naturals, as lemmas about sets and functions |

### Inbox

| Variable | Code |
|---|---|
| `files` | `requests/<id>.json`; `None` when there is no file |
| `audit` | the lines of `audit.jsonl` |
| `mu` | `Store.mu` of each process: the thread that holds it |
| `clock` | what `Now()` and `time.Now()` return, which the model takes to be one clock that never goes back |
| `pc`, `frame` | where a goroutine or CLI call is, and its local variables |
| `told`, `orders`, `lost` | history only: answers given, decisions asked for, audit lines never written. No action reads them, except that `orders` is bounded |

One action is one step another thread can come between:

| Actions | Code |
|---|---|
| `BeginSubmit` | `handleSubmit`, `cmdSubmit`, and `inbox.Submit` up to `st.Add` |
| `AddLock`, `AddStat`, `AddWrite`, `AddWriteFails` | `Store.Add`: the mutex, the id and `os.Stat`, `write` |
| `LogSubmitted`, `LogAuto`, `LogDecision`, `LogFails`, `LogFailsLate` | the `Append`s of `inbox.Submit` and `inbox.Decide`; one that fails has written nothing, or, when it is `Close` that fails, its line. `Owed` is what a caller has yet to append |
| `BeginDecide`, `DecideLock`, `DecideRead`, `DecideCheck`, `DecideStamp`, `DecideWrite`, `DecideWriteFails` | `inbox.Decide` and `Store.Decide`: the mutex, the file read in `Get`, `applyExpiry` and the switch on the status, the second clock read, `write` |
| `BeginPoll`, `PollRead`, `PollCheck`, `PollRemain`, `PollWake` | `Store.Wait`, and `Get` as a wait of no time; `submit --wait` enters it after its last append |
| `Tick`, `Crash` | time passes; a process dies and its mutex and locals with it |

What the policy answers is left open in `BeginSubmit`: any effect, with any
reason. A temporary file is read by nobody (`List` and `Get` look at `*.json`),
so `write` is one step that renames or fails. A process that dies leaves no lock
behind, because the lock is memory.

### Listing and AuditLog

| Variable | Code |
|---|---|
| `files`, `created`, `bad` | the directory: records, their `created_at`, and `*.json` names that hold no request |
| `draft` | the temporary file of each process: of the call that holds its mutex |
| `scan` | the listing: where it is, the names left, the record just read, the rows |
| `log` | `audit.jsonl` as symbols: two pieces of an event, and a newline |
| `todo`, `sent` | the lines a call has left to append, and how much of the first is in the file |
| `seen`, `fault` (in `scan`), `begun`, `written`, `cuts` | history; `seen` has the statuses each request had while the listing was under way |

`Listing` has `ReadDir`, each file read, each expiry check with its clock, and the
sort as steps; the sort is what `sort.Slice` promises, some reordering that leaves
no row before a lesser one. `ReadDir` and each `ReadFile` may fail. A call beside it is
its temporary file and its rename, and its process may die in between. A process has a
mutex of its own, so two may read the same request as pending, and the later rename
replace the earlier verdict. Ids are numbers because `ReadDir` sorts names and ids are random:
any order of creation meets any order of names. `AuditLog` lets one `write(2)` be
whole (`WriteRest`), stop half-way and go on (`WritePart`), or never end
(`GiveUp`); `Lines` and `WholeEvent` are what `Events` makes of the bytes, and
`PlacesOf` where it finds an event.

### Bootstrap and Doors

| Variable | Code |
|---|---|
| `ready` | `requests/` exists |
| `policy` | the content of `policy.rules`: a policy, `Broken`, or `None` |
| `setup` | each running `init` or `serve`: before the stat, the truncation, the write, or the end |
| `server` | the server on the port: its policy, whether it has a token, whether it listens beyond loopback |
| `requests`, `clock` | the records the doors file, and the time |
| `call` | each call under way: where it is, its locals, and the answer a caller is about to read |
| `seen` | history: the statuses a call's request had while it was under way |
| `saved`, `racing` | history: what the operator saved last, and who had found no file then |

`Bootstrap` has a step for each thing `os.WriteFile` and `Store.Init` do to the
file. In `Doors` a call begins with its checks: `SubmitCLI`, `SubmitHTTP`, `TestCLI` and
their like map a command line or a request to a code, or to a record to file, in the
order the code makes its checks. What it does to the files then is steps that those of
other calls come between:

| Actions | Code |
|---|---|
| `CmdSubmit`, `PostRequest`, `CmdDecide`, `PostDecision`, `CmdShow`, `GetRequest`, `CmdOther`, `GetOther` | the commands and routes, up to the store |
| `FileRequest` | `Store.Add` |
| `ReadRecord`, `CheckDecidable`, `CheckStatus` | `Get`'s read of the file, and its look at the deadline; for `Decide` the switch on the status, for `Wait` another round |
| `WriteVerdict` | the stamp and the write of `Store.Decide` |
| `LogLines` | the `Append`s, and the answer |
| `CallFails`, `CallDies`, `Boot` | a file cannot be read or written; a CLI call is killed; a server stops and takes its handlers along |

`Holds` and `MayLock` are the mutex of the server's `Store`: it keeps its handlers apart,
and no CLI call. `Inbox` has these steps more finely, with the log; `Listing` and
`AuditLog` have what `list` and `log` read, and here a listing or a log is only
answered, also with 500 or 3 when it cannot be read. A duration is an integer that
wraps at `MaxDuration`, as `time.Duration` does. A policy is the effect it has on each
action. `policy check`, `policy test` and `submit` read the file, or the one named by
`--policy`, each time; the server keeps what it loaded.

### Policy, Glob and Parser

`Policy` has the three nested loops of the code as indexes: `rule` of `Evaluate`,
`matcher` of `Matches`, `depth` and `cur` of `lookup`. A JSON value keeps its
kind; a regexp is the set of texts it finds a match in, a glob the set of names it
covers, float parsing and formatting are functions on a few texts. `Values` are the
JSON values there are: what an object holds is one of them, nested as deep as you like. A NaN literal
and one that is no number are both `NotANumber`: no comparison is true of either.
`Glob` has one action per case of the loop.

`Parser` has one action per case of `splitTokens`' switch, then one for what
`Parse` does with the line. Its alphabet is symbols: a word (bytes `keyRe`
accepts), an operator, a quote, a backslash, a blank, `#` (`Symbols` has these, and may
have any other bytes). `parseRule`'s loop, which keeps some of what it goes through, is
`Picks`: a recursion over positions, written as a function. Beside it stand the
tokens and the grammar of `docs/policy.md` as definitions of their own, which say
of each symbol what it is part of and of each token what it may be, and the
parser is held against them. They follow the code where that grammar is narrower: it
puts the reason last (`docs/policy.md:88`), the code takes one anywhere after the effect.
`Policy` takes parsed rules as given; what it assumes of them (a matcher at least, a
known effect) is `Parser`'s `TypeOK`.

Definitions whose comment starts with *Mutant* are small plausible bugs of the
definition that follows them. Nothing uses them; each shows that one of the
properties notices when that definition is wrong.

## 3. What TLC checks

| Run | Instance | Properties |
|---|---|---|
| `InboxAlone` | one server, 3 handlers, 1 request, colliding ids, a deadline that passes, 2 human decisions | `TypeOK`, `OneStoreInv`, `ToldStands`, `AuditTruthful`, `AuditOnce`, `DecisionFinal`, `Implements` (refinement of `ApprovalQueue`) |
| `InboxShared` | a server and a CLI call on one inbox, disk faults, either process may die, fresh ids | `NeverReopened`, `AuditExplained`, `Authority` |
| `InboxWait` | one server, 2 handlers, fair scheduling, timeout of two polls, disk faults | `CallsReturn`, `WaiterHears` |
| `Readers` | a listing beside 2 processes that write: 2 requests, a stray file, expiry, deaths, disk faults; the log: 2 appenders, 2 requests, 2 writes cut short | `ListTypeOK`, `ListMissesNone`, `ListIsCurrent`, `OnlyStraysFailList`, `LogTypeOK`, `LogKeepsAll`, `OnlyCutsSpoilLog`, `DamageIsLocal` |
| `Doors` | 2 setups and an editor, 2 policies and a broken one, then every call of both doors on one request, 2 at a time, disk faults, deaths, four-bit durations | `BootTypeOK`, `EditsStand`, `TypeOK`, `DoorsAgree`, `DryRunPredicts`, `CodesAreTrue`, `NetworkNeedsToken` |
| `Glob` | all patterns and subjects up to 4 bytes over `a`, `b`, `*`, `?` | `IndexesOK`, `GlobSound`, `GlobComplete`, `Progress`, `Returns` |
| `Parser` | every line of up to 6 symbols (word, blank, quote, backslash, `#`); every matcher of up to 4; every pair of parts of a rule; every order of up to 3 of eight lines | `TypeOK`, `SplitRight`, `AllOrNothing`, `PolicyRead` |
| `PolicyRules` | every operator × two paths × every kind of value; one rule of 1 or 2 matchers, or two rules | `TypeOK`, `FirstMatchDecides`, `OmissionNeverHelps` |

**Bounds.** `MaxTime` bounds when a timed operation may start (a sleeper may
still sleep to its end); `MaxOrders` bounds the distinct human decisions asked
for. With one request, `AddStat` reaches an id in use as soon as `Collisions`
holds, two decisions suffice for a flip, and a ttl of 1 expires at time 2, strictly
after its deadline, while a decision is under way: so those are the smallest instances in
which every hazard can happen. In `InboxAlone` three calls overlap at time 0 and two at a
time from then on (`Uncrowded`): three, so that two race while a third reads; that an
answer of "expired" races a decision takes two. Requests do not interact except through
ids and the log, so one is enough where ids collide, and in `Doors`, where a call looks
at one record. `Reasons` is empty in the runs, so that the reason on a decision line
is compared with the record's only by the theorem (`LogIsTruthful`).

`Readers` has two requests, for a listing that comes between them, and a stray name before
both; it asks for all of them or for the expired ones, since the other filters are stored
statuses. One listing is explored to its end (`Over`): it writes nothing a second could
meet. Two cuts are a fragment that runs into a line that is cut itself. `Listing` and
`AuditLog` share no variable, so `MCReaders` explores them one at a time.

In `MCDoors` the calls follow the start-up, whatever policy, directory and server it
leaves, because neither writes what the other reads; only the server may still stop, with
its handlers (`CallsLeaveBoot` in `DoorsProofs` is half of this, `Boot` the other). A call that is
answered at once, or without the token, has no other beside it, and answers are heard
first: neither touches a file. Two calls overlap where there is a server, one of the two
decides, and policy and token are the plain ones (`Plain`): a call looks at those only as
it begins, and two that only read or file do not meet. Time passes there, or for a call
alone, and submissions begin at time 0. Its seconds are two ticks and its durations four
bits, so that a ttl of 1 fits, one of 4 wraps to the past, one of -4 does not fit. The
starter policy allows one action, asks about another and denies the third, the empty one
asks about all, so a mixed-up policy shows in a code.

`Readers` and `Doors` have a `VIEW`, which leaves out of a record what no step and no
property looks at (when, by whom and why it was decided). In `PolicyRules` each
number is compared with an equal one, with one that the comparison holds of, and with
none. Four bytes of pattern hold two `*` with text after each, which is what backtracking to the last `*`
only has to survive.

**Fairness.** `Inbox` is fair to a thread inside an operation (the Go scheduler
runs it again), to taking the mutex (strongly: `sync.Mutex` in starvation mode
serves the longest waiter) and to time. Nobody has to begin an operation.
`Glob` runs on until it returns. `CHECK_DEADLOCK FALSE` is set for `Glob`, `Policy` and `Parser`,
which stop when they have their answer, and for `Readers` and `Doors`, which may
stop for good at their bounds: every line appended, the clock at its end.

**Deployment.** `DecisionFinal`, `ToldStands`, `AuditTruthful`, `AuditOnce` and
`Implements` hold for an inbox one process works on (`OneStore`), which is what
the mutex is made for. `AuditExplained`, `Authority` and `NeverReopened` hold
with any number of processes, and so does all that is said of `Listing`, `AuditLog`
and `Doors`. With two processes a listing may so show a verdict that is replaced later, and
an exit code or a 200 confirm a decision that another has overruled since:
`ListIsCurrent` and `CodesAreTrue` promise what was so at some moment of the listing or
the call, never that it stands. `NeverReopened` supposes that ids do not collide
(4 random bytes and the millisecond): two processes that draw the same id at the
same moment both pass `os.Stat`, and one record is lost. `Authority` is proved
with collisions too.

**An edge of `Authority`.** A decision asked for before the expiry may be written
after it, when another caller has been told "expired" already: the check and the
write of `Store.Decide` lie apart. `Authority` says how far this goes: the human
did ask in time. An approval that arrives later never lands.

### Where the code and its words part

Each is a run TLC is expected to find violated.

| Run | Words | What the code does |
|---|---|---|
| `InboxTwoDoors` | "A second decision must not silently flip the recorded outcome" (`store_test.go:202`) | a server and a CLI call both read "pending"; the second rename wins, and both were told they decided |
| `InboxAppendFails` | "every decision is audited" (`README.md:7`), "Every decision path must write its audit event" (`CONTRIBUTING.md:41`) | when the append fails, or the process dies before it, the decision stands with no line, and cannot be repeated |
| `GlobComment` | `*` "matches any run of characters" (`glob.go:3-4`) | a `*` in the name is taken literally first: `*` does not match `*x` |
| `PolicyComposites` | "composite values never satisfy a matcher" (`README.md:40`) | `key!=value` is true of arrays and objects |

Other edges are in the models and need no run to be seen:

- A pending request logs `submitted` with no reason, although a rule's reason
  "always lands in the audit log" (`docs/policy.md:21-23`); a reviewer's note replaces it.
- `ttl_seconds` wraps (`Seconds`), so that a large one may be refused or expire at once,
  where `--ttl` is a usage error; a negative `--ttl` is none at all, over HTTP it is
  refused. `DoorsAgree` is an equivalence: it says for which ttls and policies the
  doors file the same record, and that for all others they part.
- `serve --policy elsewhere` in a directory without a policy writes the starter
  policy there (`StartServe`, `Stat`), against the comment at `commands.go:307`.
- A NaN or Inf parameter fails only when the record is written, after the policy has
  spoken (`SubmitCLI`), which `policy test` does not foresee: where that one exits with
  an effect's code, `DryRunPredicts` says, `submit` exits with 3. `--params null` with a
  `--param` panics, and a panic exits with 2 as a usage error does (`ParamsBad`): by the
  code alone nobody tells them apart, so no property does.
- One torn line ends `askfirst log` for good (`Readable`), and one stray `*.json`
  every listing (`ListRead`): `OnlyCutsSpoilLog` and `OnlyStraysFailList` say that,
  apart from a disk that fails at that moment, nothing else does.
- An edit saved between the look of an `init` and the end of its write is lost.
  `EditsStand` says that this is the only way to lose one: `racing` has those who were
  in that window when the edit was saved.
- A process that dies between creating the policy file and filling it leaves an empty
  one, which asks a human about everything, and which no later `init` replaces.

## 4. What is proved

| Theorem | Module | Statement |
|---|---|---|
| `TypeCorrect` | `InboxProofs` | `Spec => []TypeOK` |
| `DecisionsAreFinal`, `StoreInvariant` | `InboxFinality` | with `OneStore`, `Spec => DecisionFinal`, `Spec => []OneStoreInv` |
| `AnswersStand` | `InboxFinality` | with `OneStore`, `Spec => []ToldStands` |
| `LogIsTruthful` | `InboxFinality` | with `OneStore`, `Spec => []AuditTruthful` |
| `HumansDecide` | `InboxProofs` | `Spec => []Authority` |
| `QueueRefines` | `InboxFinality` | with `OneStore`, `Spec => Implements` |
| `LoggedOnce` | `InboxFinality` | with `OneStore`, `Spec => []AuditOnce` |
| `MissingLinesExplained` | `InboxFinality` | `Spec => []AuditExplained` |
| `RecordsStay` | `InboxFinality` | without `Collisions`, `Spec => NeverReopened` |
| `BootTypeCorrect`, `EditsAreKept` | `DoorsProofs` | `Spec => []BootTypeOK`, `Spec => []EditsStand` |
| `NetworkIsGuarded` | `DoorsProofs` | `Spec => []NetworkNeedsToken` |
| `DoorsAreAlike`, `DryRunIsTrue` | `DoorsProofs` | `Spec => []DoorsAgree`, `Spec => []DryRunPredicts` |
| `DoorsTypeCorrect`, `CodesTellTruth` | `DoorsProofs` | `Spec => []TypeOK` and `Spec => []CodesAreTrue`, of `Doors` |
| `ListTypeCorrect`, `ListIsComplete`, `ListTellsTruth`, `OnlyStraysStopIt` | `ReadersProofs` | `ListSpec` implies always `ListTypeOK`, `ListMissesNone`, `ListIsCurrent`, `OnlyStraysFailList` |
| `LogTypeCorrect`, `ReadableIsWhole`, `SoundDiskReadable`, `DamageStaysLocal` | `ReadersProofs` | `LogSpec` implies always `LogTypeOK`, `LogKeepsAll`, `OnlyCutsSpoilLog`, `DamageIsLocal` |
| `WalkStaysInside`, `FirstMatchWins`, `SilenceGainsNothing` | `PolicyProofs` | `Spec` implies always `TypeOK`, `FirstMatchDecides`, `OmissionNeverHelps`, of `Policy` |
| `IndexesStayInside`, `AcceptsOnlyMatches`, `RefusesNoMatch` | `GlobProofs` | `Spec` implies always `IndexesOK`, `GlobSound`, `GlobComplete` |
| `EveryStepAdvances` | `GlobProofs` | `Spec => Progress` |
| `TypeCorrect`, `SplitsRight`, `NothingLeftOut`, `PolicyIsTheText` | `ParserProofs` | `Spec` implies always `TypeOK`, `SplitRight`, `AllOrNothing`, `PolicyRead`, of `Parser` |

They hold for every value of the constants that satisfies the assumptions of
`Inbox` (`None` is none of the other values, ttls and the poll interval are
positive, every thread has a `Store`), or of `Bootstrap` and `Doors` (`None` is no
policy, server or record, and a policy has an effect on each action); of `Listing`
(`None` is no record, no stray file has the name of a request) and `AuditLog`; of
`Policy` (a rule has a matcher and a known effect, a path has a key, an object holds
values, a float's shortest text parses back to it), `Glob` and `Parser` (a text is a
sequence of lines of symbols; keywords are words, operators and marks are not). Times, the
history and the width of a Duration are unbounded. The `Doors` here is the whole of
it: calls and start-ups interleave, unlike in `MCDoors`.

The argument for `Inbox`:

1. `TypeOK` is not inductive: that a write keeps `files` typed needs to know the
   frame holds a record there. `FramesOK` says what a frame holds at each label,
   and `TypeOK /\ FramesOK` is inductive (`InboxProofs`).
2. Finality is about the gap between the read and the write. `MutexOK` (whoever
   is between `Lock` and `Unlock` holds the mutex) makes two critical sections of
   one `Store` exclude each other, and `ReadsHold` carries what a thread read to
   where it uses it: no file at `add.write`, a pending one at `decide.write`.
   `OneStore` enters here and only here. `InboxFinality` proves both inductive;
   a write then never meets a decided record.
3. `AnswersStand` and `LogIsTruthful` use finality twice. A frame that holds a verdict holds the
   record on disk (`ReadsHold` again, for `poll.check` and the log labels), so an
   answer or a line is right when it is given; finality keeps it right.
4. `Authority` needs no mutex. `OrdersHold` (`InboxProofs`) ties each frame of
   a decision to an order recorded no later than the clock and, once the check
   has passed, no later than the record's expiry; a crash or a lost race only
   drops frames.

5. `Implements` maps a file to the abstract queue's verdict: absent, open, or the
   verdict decided. Initial states map to initial states. `AddWrite` is an `Enqueue`
   and `DecideWrite` a `Settle`: by `ReadsHold` each finds the entry as its action
   asks. A decision line or an answered verdict is a `Publish`, right by
   `AuditTruthful` and `ToldStands` after the step; an answer of "expired" is a
   `GiveUp`; every other step is a stutter.
6. `AuditOnce` needs to know who is still to append. `OnceInv` adds that a thread
   about to announce a decision finds no line of it yet, and that no two threads are
   about to announce the same request. `AuditExplained` is about the lines of the log,
   those a call still owes and those named in `lost`. It holds for any number of Stores:
   whoever writes a record owes the very line that tells of it (`WriterOwes`), and a line
   that is written, owed or lost stays one of these (`NothingForgotten`): the append
   settles it in `audit`, its failure or a crash in `lost`. `FoundStays`, that a decision
   works on a record that is there, completes the induction. `NeverReopened` needs
   `FreshReads`: with ids that do not collide, `add.write` finds no file and is one
   thread's, and what a decision read has the expiry still on disk.

And for start-up and the doors:

7. `BootInv` is inductive for `BootNext`. `NoWriterLeft` is the reason an edit
   stands: if nobody had just found no file when it was saved, nobody is at `truncate`
   or `fill`, and the next `Stat` finds a file. `GuardKept` carries the guard of
   `cmdServe` from its check to the server that takes the port. No call is a step of
   the start-up (`CallsLeaveBoot`), so `BootInv` holds of `Doors` too.
8. `NetInv` says of every call on a guarded route that it showed the token, or the server
   has none, or it is answered 401 (`Admitted`); the server may stop under it, but not
   become another. With `GuardKept` that is `NetworkNeedsToken`. `DoorsAgree` needs
   `WrapKeeps` and `TTLFits` (a duration that fits is not changed by wrapping),
   `EffectStatus` (two effects file two statuses), and the types of `BootInv`; `AgreeWhen`
   goes through the cases both ways.
9. `CallsInv` says of each call what it knows of its request at the stage it is at:
   `FileFits`, `WayFits`, `CheckFits`, `WriteFits`, `LogFits`, and at the end `Told`,
   which is `CodesAreTrue`. What it knows, that a status was seen, stays so while other
   calls write: no record goes away or changes its expiry (`KeepsFiles`, `CallStays`), and
   `seen` grows with every status there is (`SeenOf`). Nothing here says that the status
   still is what was read, which with two processes it need not be. One lemma per action
   shows that its own call fits the next stage (`...Begins`, `...Goes`); `TypeOK` is part
   of `CallFits`.

For the readers of the store:

10. No step of a writer, a death or a tick takes a record away, changes its expiry, or
    puts anything but a verdict in its place (`Grows`, which rests on `DraftFits`: a
    draft of a new record is of a name no other draft has). `ListInv` builds on that:
    `seen` has the status now (`SeenFits`); what was read of a file, and what a row shows,
    was seen or is "expired" after its deadline (`RecFits`, `RowsFit`); a request seen
    only with statuses asked for is left to read or has its row (`AllCovered`); and a
    listing that failed met the disk or a stray (`EndFits`). No property says that the
    rows are in order: the sort is a guard of `ListSort`, and they are by construction.
11. `Clean \/ Ruined` is the invariant of the log file. `Clean` is the lines of the
    written events in order, with at most one more unfinished that only its own call goes
    on with. The first call to write after another's fragment makes it `Ruined`, a symbol
    of a line that is not followed by the next, and as the file is only appended to, it
    stays so: `RuinedUnreadable` finds the line that `Events` trips over. In a clean file
    the line of the k-th event begins at symbol 3k - 2, wherever `Events` looks; and only
    a cut makes a line unfinished.
12. `DamageIsLocal` counts. No symbol but the newline is in the file twice (`Single`,
    because `InTurn`: a call writes each piece of its event once), and a line begins at a
    newline or where a write was cut (`Fragments`). So each uncut event that is off its
    line comes after a cut of its own: an injection into the cuts.

And for the policy:

13. `Fits[i]` is the set of places in the name from which the pattern from `i` on covers
    the rest. For `GlobSound` the invariant is `Enough`: what is left being covered is
    enough for the whole, and so is any longer run of the last `*`. For `GlobComplete` it
    is `Open`: if the whole is covered, what is left is, or will be when the run of the
    last `*` has grown. Since that `*` the loop has passed bytes one by one (`Reachable`),
    so it need not go back to an earlier one; a `*` in the name breaks this (`Plain`).
    `Progress` is arithmetic on the indexes, once `IndexInv` bounds them.
14. `MatchInv` says of the walk that every rule passed has a matcher that does not hold
    (`PassedOver`), that the matchers passed of this rule hold (`HeldSoFar`), and that `cur`
    is the value `depth` keys down (`TypeOK`). `SilenceGainsNothing` follows from
    `FirstMatchWins`: a value at a path of the smaller request is at that path of the
    fuller one (`FullerFindsMore`), so the fuller one's first rule is no later.

And for the parser:

15. `ScanInv` says what the first `at - 1` symbols of the line make of it: the mode the
    line is in after them, the tokens ended so far and the one being built are those of
    its declarative reading cut off there (`Scanned`), or a comment began among them. Cut
    off at the end, that is `SplitRight`. `ReadInv` says the same of lines: the lines
    before this one are grammatical, set one default at most, and have become the policy
    so far (`ReadUpTo`); after an answer of "ok" that is the whole text, after an error
    some line or a second default makes the text ungrammatical. `MatcherRead` and
    `TokenKinds` hold `ParseMatcher` against the grammar of a token, `RulesAre` does so
    for a rule.
    `AllOrNothing` and `PolicyRead` are `ReadInv` at its end.

The attempt to prove the last of these corrected the model: two guards of the CASE in
`ParseMatcher` could hold at once (a key alone, with nothing after it), and TLA+, unlike
TLC, which takes the first, leaves open which of the two values such a CASE has.

What is defined by recursion over positions (`Fits`, `Reach`, `Picks`, `Modes`) needs induction, and the
library's induction theorems take the predicate as an operator, which these provers do not
instantiate. `Induction` states it of a set instead: a set with 0 that is closed under
successor has every natural number, proved by counting, because the numbers below a missing
one would map one-to-one into fewer. `Least`, `Greatest` and `Recurse` (a recursion over
0..N has a solution) come from it.

**Only model-checked.** `CallsReturn`, `WaiterHears` and `Returns` are liveness under
fairness, which the prover does not do. Every other property of a passing run is a theorem.
The runs that expect a violation show one counterexample each.

## 5. Not modelled

- `render.go`, `version.go` and `main.go`: text layout and process entry, no state.
- The bodies of HTTP answers and the text of messages: only codes and records. So is the
  text of a rule that `Evaluate` quotes (`Rule.Text`).
- Flag syntax (the `flag` package's), JSON and regexp internals, `ParseFloat`: what
  they accept is a set or a relation.
- The limit of a request body is one more body that is refused (`"bad"`).
- Permissions and fsync: a crash is the death of a process, not of the machine. A
  rename that is lost, or an audit line that outlives its record, needs more.
- Clocks that go backwards, or differ between processes.
- Policies as rule texts in `Doors`: there a policy is the effect it has on an
  action, without parameters. `Policy` and `Parser` have the rest, and no call of
  the doors comes between two steps of an evaluation.

What could follow: `Policy` composed with `Parser`, from a policy's text to its verdict; a
machine that loses unsynced writes.
