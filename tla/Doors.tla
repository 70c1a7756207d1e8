------------------------------- MODULE Doors -------------------------------
(***************************************************************************)
(* The two doors of one inbox, CLI calls and HTTP requests: what each      *)
(* checks, in which order, what it does to the files, and the exit code or *)
(* HTTP status it answers with.  The policy they go by and the server are  *)
(* Bootstrap's.                                                            *)
(*                                                                         *)
(* Calls run side by side, each in steps another can come between: a       *)
(* record is read, its deadline looked at, a record written, its lines     *)
(* appended.  The handlers of a server share its Store and the mutex in    *)
(* it; a CLI call has a Store of its own.  Module Inbox has the queue's    *)
(* steps more finely, and the log.  A policy is what it makes of each      *)
(* action.  Durations wrap as int64 does.                                  *)
(***************************************************************************)
EXTENDS Bootstrap, Integers

\* A request on file.  Its ttl may have wrapped, so it may expire before time 0.
Filing ==
  {r \in [status    : Verdicts \cup {"pending"},
          expires   : Int \cup {None},
          decidedAt : OptTime,
          decidedBy : {"human", "policy", ""},
          reason    : {NoReason}] :
     /\ Decided(r) <=> r.decidedAt # None
     /\ Decided(r) <=> r.decidedBy # ""}

CONSTANTS
  Callers,     \* calls under way at a time
  Actions,     \* action names
  TTLs,        \* ttl_seconds, or --ttl in seconds
  Second,      \* time.Second, in ticks
  MaxDuration, \* the largest time.Duration, in ticks
  MaxTime,     \* bound: the clock stops there
  DiskFaults   \* whether a file may fail to be read or written

ASSUME DoorsAssumption ==
  /\ None \notin Ids \cup Int \cup Filing \cup Statuses
  /\ Policies \subseteq [Actions -> Effects]
  /\ AskAll = [a \in Actions |-> "ask"]
  /\ "" \notin Actions
  /\ TTLs \subseteq Int
  /\ Second \in Nat \ {0} /\ MaxDuration \in Nat /\ MaxTime \in Nat
  /\ DiskFaults \in BOOLEAN

VARIABLES
  requests,  \* requests/<id>.json, or None
  clock,
  call,      \* each call under way, with its locals
  seen       \* history: the statuses a call's request had while it was under way

vars == <<bootVars, requests, clock, call, seen>>

CLICalls  == {"submit", "approve or deny", "show", "list", "log", "policy check",
              "policy test", "askfirst"}
HTTPCalls == {"POST requests", "POST decision", "GET request", "GET requests",
              "GET policy", "GET healthz"}

Http(k)    == k.name \in HTTPCalls
Submits(k) == k.name \in {"submit", "POST requests"}
Decides(k) == k.name \in {"approve or deny", "POST decision"}

NoCall ==
  [at |-> "idle", name |-> "none", shown |-> FALSE,
   id |-> None, rec |-> None, verdict |-> None, patient |-> FALSE,
   code |-> 0, says |-> None,                \* the answer, and the status told
   wrote |-> FALSE, failed |-> FALSE]        \* history

Init ==
  /\ BootInit
  /\ requests = [id \in Ids |-> None]
  /\ clock = 0
  /\ call = [c \in Callers |-> NoCall]
  /\ seen = [c \in Callers |-> {}]

Exists(id) == requests[id] # None

StatusIn(files, id, now) == IF files[id] = None THEN "absent" ELSE StatusAt(files[id], now)

-----------------------------------------------------------------------------
\* What a door answers: an exit code, or an HTTP status.

OK           == 200
Accepted     == 202
BadRequest   == 400
Unauthorized == 401
NotFound     == 404
Conflict     == 409
ServerError  == 500

exitFor(status) ==
  CASE status = "approved" -> 0
    [] status = "denied"   -> 1
    [] OTHER               -> 4

\* time.Duration(n) * time.Second in 64 bits.
Wrap(d) == ((d + MaxDuration + 1) % (2 * MaxDuration + 2)) - MaxDuration - 1

\* Mutant: the ttl is taken for a duration.
AsTicks(ttl) == Wrap(ttl)

Seconds(ttl) == Wrap(ttl * Second)

\* The outcome of a submission: a code, or the record to file.
Refuse(code) == [code |-> code, rec |-> None]
File(rec)    == [code |-> 0, rec |-> rec]

\* What --params and --param may hold: NaN and Inf come out of coerce as numbers
\* that json.Marshal refuses; `null` is JSON's, with a pair to put into it.
Params == {"good", "nan", "bad", "null"}

\* buildParams.  A pair put into a nil map is a panic, which exits with 2 as well.
ParamsBad(params) == params \in {"bad", "null"}

\* What flag.Duration accepts.
FitsDuration(ttl) == ttl * Second \in -MaxDuration..MaxDuration

\* cmdSubmit.  What cannot be stored is found out after the policy has decided.
SubmitCLI(pol, action, ttl, params) ==
  IF ~FitsDuration(ttl) \/ action = "" \/ ParamsBad(params) THEN Refuse(2)
  ELSE IF ~Readable(pol) \/ params = "nan" THEN Refuse(3)
  ELSE File(NewRequest(pol[action], NoReason,
                       IF ttl > 0 THEN clock + ttl * Second ELSE None, clock))

\* handleSubmit.
SubmitHTTP(action, ttl, body) ==
  IF body = "bad" \/ action = "" \/ ttl < 0 THEN Refuse(BadRequest)
  ELSE File(NewRequest(server.policy[action], NoReason,
                       IF ttl > 0 THEN clock + Seconds(ttl) ELSE None, clock))

\* What a status answers: cmdSubmit, cmdShow, handleSubmit, handleGet.
CodeFor(name, status) ==
  CASE name = "submit"        -> exitFor(status)
    [] name = "POST requests" -> IF status = "pending" THEN Accepted ELSE OK
    [] name = "GET request"   -> OK
    [] OTHER                  -> 0

\* cmdDecide, where ErrExpired has a code of its own, and writeStoreError.
CodeRefused(name, status) ==
  IF name \in HTTPCalls THEN Conflict ELSE IF status = "expired" THEN 4 ELSE 3

CodeAbsent(k) == IF Http(k) THEN NotFound ELSE 3
CodeFailed(k) == IF Http(k) THEN ServerError ELSE 3
CodeDone(k)   == IF Http(k) THEN OK ELSE 0

-----------------------------------------------------------------------------
\* Moving a call along.

Set(c, k) == call' = [call EXCEPT ![c] = k]

Elsewhere == UNCHANGED <<bootVars, clock>>

Answered(k, code, says) == [k EXCEPT !.at = "answer", !.code = code, !.says = says]

\* The call comes to nothing but an answer.
AnswerOnly(c, name, code, shown) ==
  Set(c, Answered([NoCall EXCEPT !.name = name, !.shown = shown], code, None))

Failing(k) == [Answered(k, CodeFailed(k), None) EXCEPT !.failed = TRUE]

\* auth.
Allowed(shown) == server.token => shown

\* Mutex of the server's Store: decide holds it from its read to its write.
Holds(k) == k.name = "POST decision" /\ k.at \in {"check", "write"}

MayLock(k) ==
  k.name \in {"POST requests", "POST decision"} => \A d \in Callers : ~Holds(call[d])

-----------------------------------------------------------------------------
\* Calls begin.

\* inbox.Submit has asked the policy; the record is to be filed, or not.
BeginSubmit(c, name, out, patient, shown) ==
  IF out.rec = None THEN AnswerOnly(c, name, out.code, shown)
  ELSE Set(c, [NoCall EXCEPT !.at = "file", !.name = name, !.rec = out.rec,
                             !.patient = patient, !.shown = shown])

CmdSubmit(c) ==
  \E pol \in Policies \cup {policy}, action \in Actions \cup {""}, ttl \in TTLs,
     params \in Params, wait \in BOOLEAN :
    BeginSubmit(c, "submit", SubmitCLI(pol, action, ttl, params), wait, FALSE)

PostRequest(c) ==
  /\ server # None
  /\ \E action \in Actions \cup {""}, ttl \in TTLs, body \in {"json", "bad"}, shown \in BOOLEAN :
       BeginSubmit(c, "POST requests",
                   IF Allowed(shown) THEN SubmitHTTP(action, ttl, body) ELSE Refuse(Unauthorized),
                   FALSE, shown)

BeginDecide(c, name, id, verdict, shown) ==
  Set(c, [NoCall EXCEPT !.at = "read", !.name = name, !.id = id, !.verdict = verdict,
                        !.shown = shown])

CmdDecide(c) ==
  \E id \in Ids, verdict \in Verdicts : BeginDecide(c, "approve or deny", id, verdict, FALSE)

PostDecision(c) ==
  /\ server # None
  /\ \E id \in Ids, verdict \in Verdicts, body \in {"json", "empty", "bad"}, shown \in BOOLEAN :
       IF ~Allowed(shown) THEN AnswerOnly(c, "POST decision", Unauthorized, shown)
       ELSE IF body = "bad" THEN AnswerOnly(c, "POST decision", BadRequest, shown)
       ELSE BeginDecide(c, "POST decision", id, verdict, shown)

BeginRead(c, name, id, patient, shown) ==
  Set(c, [NoCall EXCEPT !.at = "read", !.name = name, !.id = id, !.patient = patient,
                        !.shown = shown])

CmdShow(c) == \E id \in Ids : BeginRead(c, "show", id, FALSE, FALSE)

\* handleGet: with ?wait it goes on reading while the request is pending.
GetRequest(c) ==
  /\ server # None
  /\ \E id \in Ids, query \in {"none", "wait", "bad"}, shown \in BOOLEAN :
       IF ~Allowed(shown) THEN AnswerOnly(c, "GET request", Unauthorized, shown)
       ELSE IF query = "bad" THEN AnswerOnly(c, "GET request", BadRequest, shown)
       ELSE BeginRead(c, "GET request", id, query = "wait", shown)

\* Mutant: the policy is loaded before the arguments are looked at.
TestCLIPolicyFirst(pol, action, params) ==
  IF ~Readable(pol) THEN 3
  ELSE IF action = "" \/ ParamsBad(params) THEN 2
  ELSE exitFor(StatusOfEffect(pol[action]))

TestCLI(pol, action, params) ==
  IF action = "" \/ ParamsBad(params) THEN 2
  ELSE IF ~Readable(pol) THEN 3
  ELSE exitFor(StatusOfEffect(pol[action]))

CheckCLI(pol) == IF Readable(pol) THEN 0 ELSE 1

\* What a listing and the log show is Listing's and AuditLog's; either may fail,
\* for the disk or for a file that cannot be read as what it should be.
ListCLI(filter) == IF filter = "bad" THEN {2} ELSE IF ready THEN {0, 3} ELSE {3}
LogCLI          == {0, 3}
ListHTTP(query) == IF query = "bad" THEN {BadRequest} ELSE {OK, ServerError}

\* Help, version, unknown commands and flags, no home directory.
UsageCLI == {0, 2, 3}

\* --policy may name any file.
CmdOther(c) ==
  \/ \E code \in UsageCLI : AnswerOnly(c, "askfirst", code, FALSE)
  \/ \E filter \in Statuses \cup {"all", "bad"} :
       \E code \in ListCLI(filter) : AnswerOnly(c, "list", code, FALSE)
  \/ \E code \in LogCLI : AnswerOnly(c, "log", code, FALSE)
  \/ \E pol \in Policies \cup {policy, Broken} :
       AnswerOnly(c, "policy check", CheckCLI(pol), FALSE)
  \/ \E pol \in Policies \cup {policy, Broken}, action \in Actions \cup {""}, params \in Params :
       AnswerOnly(c, "policy test", TestCLI(pol, action, params), FALSE)

\* Handler: every route goes through auth, which lets /healthz by.
GetOther(c) ==
  /\ server # None
  /\ \E shown \in BOOLEAN :
       \/ \E query \in {"good", "bad"} :
            \E code \in IF Allowed(shown) THEN ListHTTP(query) ELSE {Unauthorized} :
              AnswerOnly(c, "GET requests", code, shown)
       \/ AnswerOnly(c, "GET policy", IF Allowed(shown) THEN OK ELSE Unauthorized, shown)
       \/ AnswerOnly(c, "GET healthz", OK, shown)

BeginCall(c) ==
  /\ call[c].at = "idle"
  /\ \/ CmdSubmit(c) \/ PostRequest(c) \/ CmdDecide(c) \/ PostDecision(c)
     \/ CmdShow(c) \/ GetRequest(c) \/ CmdOther(c) \/ GetOther(c)
  /\ UNCHANGED requests /\ Elsewhere

-----------------------------------------------------------------------------
\* What a call does to the files.

\* Store.Add: the id is taken or there is no requests/, or the record is filed.
FileRequest(c) ==
  LET k == call[c] IN
  /\ k.at = "file" /\ MayLock(k)
  /\ \/ /\ ~ready \/ \E id \in Ids : Exists(id)
        /\ Set(c, Answered(k, CodeFailed(k), None))
        /\ UNCHANGED requests
     \/ /\ ready
        /\ \E id \in Ids :
             /\ ~Exists(id)
             /\ requests' = [requests EXCEPT ![id] = k.rec]
             /\ Set(c, [k EXCEPT !.at = "log", !.id = id, !.wrote = TRUE])
  /\ Elsewhere

\* Get's ReadFile, for Decide, for show and GET, and for each poll of Wait.
ReadRecord(c) ==
  LET k == call[c] IN
  /\ k.at = "read" /\ MayLock(k)
  /\ IF Exists(k.id) THEN Set(c, [k EXCEPT !.at = "check", !.rec = requests[k.id]])
     ELSE Set(c, Answered(k, CodeAbsent(k), None))
  /\ UNCHANGED requests /\ Elsewhere

\* Mutant: an expired request may still be decided.
DecidableAsStored(rec) == rec.status = "pending"

Decidable(rec) == StatusAt(rec, clock) = "pending"

\* Get's applyExpiry and the switch of Decide.
CheckDecidable(c) ==
  LET k == call[c] IN
  /\ k.at = "check" /\ Decides(k)
  /\ IF Decidable(k.rec) THEN Set(c, [k EXCEPT !.at = "write"])
     ELSE Set(c, Answered(k, CodeRefused(k.name, StatusAt(k.rec, clock)), None))
  /\ UNCHANGED requests /\ Elsewhere

\* Get's applyExpiry; Wait reads again, or its time is up (module Inbox).
CheckStatus(c) ==
  LET k == call[c]
      s == StatusAt(k.rec, clock)
  IN
  /\ k.at = "check" /\ ~Decides(k)
  /\ \/ Set(c, Answered(k, CodeFor(k.name, s), s))
     \/ k.patient /\ s = "pending" /\ Set(c, [k EXCEPT !.at = "read"])
  /\ UNCHANGED requests /\ Elsewhere

\* The rest of Store.Decide: stamp and write.
WriteVerdict(c) ==
  LET k   == call[c]
      rec == Resolved(k.rec, k.verdict, NoReason, clock)
  IN
  /\ k.at = "write"
  /\ requests' = [requests EXCEPT ![k.id] = rec]
  /\ Set(c, [k EXCEPT !.at = "log", !.rec = rec, !.wrote = TRUE])
  /\ Elsewhere

\* Store.Append, once or twice, and the answer.
LogLines(c) ==
  LET k == call[c] IN
  /\ k.at = "log"
  /\ IF Decides(k) THEN Set(c, Answered(k, CodeDone(k), None))
     ELSE IF k.patient /\ k.rec.status = "pending" THEN Set(c, [k EXCEPT !.at = "read"])
     ELSE Set(c, Answered(k, CodeFor(k.name, k.rec.status), k.rec.status))
  /\ UNCHANGED requests /\ Elsewhere

\* A file or the log cannot be read or written: the error is the answer, and a
\* record written before it stays.
CallFails(c) ==
  LET k == call[c] IN
  /\ DiskFaults
  /\ \/ k.at \in {"file", "read"} /\ MayLock(k)
     \/ k.at \in {"write", "log"}
  /\ Set(c, Failing(k))
  /\ UNCHANGED requests /\ Elsewhere

\* The answer is read.
Hear(c) ==
  /\ call[c].at = "answer"
  /\ Set(c, NoCall)
  /\ UNCHANGED requests /\ Elsewhere

\* A CLI call is killed.
CallDies(c) ==
  /\ call[c].at \notin {"idle", "answer"} /\ ~Http(call[c])
  /\ Set(c, NoCall)
  /\ UNCHANGED requests /\ Elsewhere

-----------------------------------------------------------------------------
CallStep(c) ==
  \/ BeginCall(c) \/ FileRequest(c) \/ ReadRecord(c) \/ CheckDecidable(c) \/ CheckStatus(c)
  \/ WriteVerdict(c) \/ LogLines(c) \/ CallFails(c) \/ Hear(c) \/ CallDies(c)

Tick ==
  /\ clock < MaxTime
  /\ clock' = clock + 1
  /\ UNCHANGED <<bootVars, requests, call>>

\* A server takes the calls it was serving with it.
Boot ==
  /\ BootNext
  /\ call' = [c \in Callers |-> IF Http(call[c]) /\ server' = None THEN NoCall ELSE call[c]]
  /\ UNCHANGED <<requests, clock>>

\* The history: what the request of each call is, until the answer is given.
Watch ==
  seen' = [c \in Callers |->
             LET id == call'[c].id IN
             IF id = None THEN {}
             ELSE IF id # call[c].id THEN {StatusIn(requests', id, clock')}
             ELSE IF call[c].at = "answer" THEN seen[c]
             ELSE seen[c] \cup {StatusIn(requests', id, clock')}]

Next == ((\E c \in Callers : CallStep(c)) \/ Tick \/ Boot) /\ Watch

Spec == Init /\ [][Next]_vars

-----------------------------------------------------------------------------
ExitCodes == 0..4
HTTPCodes == {OK, Accepted, BadRequest, Unauthorized, NotFound, Conflict, ServerError}

CallType ==
  [at : {"idle", "file", "read", "check", "write", "log", "answer"},
   name : CLICalls \cup HTTPCalls \cup {"none"}, shown : BOOLEAN,
   id : Ids \cup {None}, rec : Filing \cup {None}, verdict : Verdicts \cup {None},
   patient : BOOLEAN, code : ExitCodes \cup HTTPCodes, says : Statuses \cup {None},
   wrote : BOOLEAN, failed : BOOLEAN]

TypeOK ==
  /\ requests \in [Ids -> Filing \cup {None}]
  /\ clock \in Nat
  /\ call \in [Callers -> CallType]
  /\ seen \in [Callers -> SUBSET (Statuses \cup {"absent"})]

\* The request of the call had this status while it was under way.  "Expired"
\* may be said of one decided between its file and the clock being read, and the
\* "pending" of a submission may be over before it is filed.
Had(c, status) ==
  \/ status \in seen[c]
  \/ /\ status = "expired" /\ "pending" \in seen[c]
     /\ clock > requests[call[c].id].expires
  \/ status = "pending" /\ Submits(call[c]) /\ "expired" \in seen[c]

\* A code with a status says that status; a decision that is confirmed was made,
\* on a request that was pending; one that is refused had its reason.
CodeTells(c) ==
  LET k == call[c] IN
  /\ k.says # None => Had(c, k.says) /\ k.code = CodeFor(k.name, k.says)
  /\ Submits(k) /\ k.code \in {0, 1, 4, OK, Accepted} => k.says # None
  /\ Decides(k) /\ k.code \in {0, OK} => {"pending", k.verdict} \subseteq seen[c]
  /\ k.code = NotFound => "absent" \in seen[c]
  /\ k.code = Conflict => \E s \in Verdicts \cup {"expired"} : Had(c, s)
  /\ Decides(k) /\ k.code = 4 => Had(c, "expired")

\* A call that says it did not succeed left no record behind, unless what failed
\* came after it.
CodeHides(k) ==
  k.wrote => k.failed \/ (IF Decides(k) THEN k.code = CodeDone(k) ELSE k.says # None)

\* README's exit codes and routes, with calls of both doors under way at a time:
\* a code is true of the request as it was at some moment of the call.
CodesAreTrue ==
  \A c \in Callers : call[c].at = "answer" => CodeTells(c) /\ CodeHides(call[c])

\* serve's guard and auth together: over a network nobody files, decides or
\* reads a request without the token (README: "non-loopback binds are refused
\* unless a bearer token is set").
Routes == HTTPCalls \ {"GET healthz"}

NetworkNeedsToken ==
  server # None /\ server.exposed =>
    \A c \in Callers :
      call[c].name \in Routes /\ ~call[c].shown =>
        call[c].at = "answer" /\ call[c].code = Unauthorized

Agree(action, ttl) ==
  LET c == SubmitCLI(policy, action, ttl, "good")
      h == SubmitHTTP(action, ttl, "json")
  IN  /\ c.rec = h.rec
      /\ c.rec = None => <<c.code, h.code>> = <<2, BadRequest>>

\* CONTRIBUTING: through either door "the records stay identical".  So they are
\* while the policy on file decides as the one the server was started with, for a
\* ttl that is not negative and fits a Duration (one that is negative and does not
\* fit is refused by both).  In every other case the doors part.
DoorsAgree ==
  server # None /\ Readable(policy) =>
    \A action \in Actions, ttl \in TTLs :
      Agree(action, ttl) <=>
        IF ttl < 0 THEN ~FitsDuration(ttl)
        ELSE FitsDuration(ttl) /\ policy[action] = server.policy[action]

\* The exit code of a submission nobody waits for and nothing keeps off the disk.
SubmitCode(out) == IF out.rec = None THEN out.code ELSE CodeFor("submit", out.rec.status)

\* README: `policy test` "dry-runs a decision".  Its code is the one submit would
\* exit with, but for a parameter that cannot be stored: there submit fails.
DryRunPredicts ==
  \A action \in Actions \cup {""}, params \in Params :
    LET dry == TestCLI(policy, action, params)
        run == SubmitCode(SubmitCLI(policy, action, 0, params))
    IN  IF params = "nan" /\ dry \in {0, 1, 4} THEN run = 3 ELSE run = dry

=============================================================================
