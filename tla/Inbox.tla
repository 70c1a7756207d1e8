-------------------------------- MODULE Inbox --------------------------------
(***************************************************************************)
(* The approval queue as its callers meet it: threads (HTTP handlers of    *)
(* one server, or CLI invocations) that run inbox.Submit, inbox.Decide and *)
(* Store.Wait/Get over one inbox directory.  Each thread works through a   *)
(* Store object; StoreOf says which.  Handlers of one server share a       *)
(* Store, hence its mutex; every CLI invocation opens a Store of its own,  *)
(* so processes share nothing but the files.                               *)
(*                                                                         *)
(* One action per step another thread can come between: taking the mutex,  *)
(* reading or renaming a file, reading the clock, appending to the log.    *)
(* A temporary file is never read by anything, so write() is one step that *)
(* either renames or fails.                                                *)
(***************************************************************************)
EXTENDS Records, Sequences, FiniteSets

CONSTANTS
  Threads,       \* goroutines that run an operation at a time
  Stores,        \* Store objects, one per process
  StoreOf,       \* the Store a thread uses
  TTLs,          \* time-to-live values a submission may carry
  Timeouts,      \* how long a caller is ready to wait
  PollInterval,  \* Store.Wait's interval
  MaxTime,       \* bound: no operation is timed to start after it
  MaxOrders,     \* bound: different human decisions asked for
  Collisions,    \* whether NewID may return an id in use
  DiskFaults,    \* whether a write or an append may fail
  Crashable      \* the processes that may die

ASSUME NoneAssumption ==
  None \notin Nat \cup Ids \cup Threads \cup Reasons \cup {NoReason}

ASSUME RecordAssumption == None \notin Request

ASSUME ReasonAssumption == NoReason \notin Reasons

ASSUME TimeAssumption ==
  /\ TTLs \subseteq Nat \ {0}
  /\ Timeouts \subseteq Nat
  /\ PollInterval \in Nat \ {0}
  /\ MaxTime \in Nat
  /\ MaxOrders \in Nat

ASSUME StoreAssumption ==
  /\ StoreOf \in [Threads -> Stores]
  /\ Crashable \subseteq Stores
  /\ DiskFaults \in BOOLEAN
  /\ Collisions \in BOOLEAN

VARIABLES
  files,    \* requests/<id>.json, or None
  audit,    \* audit.jsonl, in append order
  mu,       \* Store.mu: the thread that holds it, or None
  clock,    \* wall clock
  pc,       \* where each thread is
  frame,    \* its local variables
  told,     \* history: <<id, status>> answers, other than "pending"
  orders,   \* history: <<id, verdict, time>> human decisions asked for
  lost      \* history: the audit lines that were never written

vars == <<files, audit, mu, clock, pc, frame, told, orders, lost>>

AddLabels    == {"add.stat", "add.write"}
DecideLabels == {"decide.read", "decide.check", "decide.stamp", "decide.write"}
LogLabels    == {"log.submitted", "log.auto", "log.decision"}
Labels == {"idle", "add.lock", "decide.lock", "poll.read", "poll.check",
           "poll.remain", "poll.sleep"} \cup AddLabels \cup DecideLabels \cup LogLabels

\* The labels between s.mu.Lock() and the deferred Unlock.
Locked == AddLabels \cup DecideLabels

Frame ==
  [id       : Ids \cup {None},
   rec      : Request \cup {None},
   verdict  : Verdicts \cup {None},
   note     : AnyReason,
   timeout  : OptTime,    \* --wait --timeout; None without --wait
   deadline : Nat,
   wake     : Nat]

NoFrame ==
  [id |-> None, rec |-> None, verdict |-> None, note |-> NoReason,
   timeout |-> None, deadline |-> 0, wake |-> 0]

Init ==
  /\ files  = [i \in Ids |-> None]
  /\ audit  = <<>>
  /\ mu     = [s \in Stores |-> None]
  /\ clock  = 0
  /\ pc     = [t \in Threads |-> "idle"]
  /\ frame  = [t \in Threads |-> NoFrame]
  /\ told   = {}
  /\ orders = {}
  /\ lost   = {}

-----------------------------------------------------------------------------
\* Moving a thread along.

Goto(t, label) == pc' = [pc EXCEPT ![t] = label]

Return(t) ==
  /\ Goto(t, "idle")
  /\ frame' = [frame EXCEPT ![t] = NoFrame]

Answer(id, status) == told' = told \cup ({<<id, status>>} \ {<<id, "pending">>})

\* Mutant: a mutex that readers share.
MutexShared(s) == TRUE

\* s.mu.Lock(); the Unlock is deferred to the end of Add and of Decide.
MutexFree(s) == mu[s] = None

Lock(t) ==
  /\ MutexFree(StoreOf[t])
  /\ mu' = [mu EXCEPT ![StoreOf[t]] = t]

\* Mutant: the Unlock is forgotten.
StayLocked(t) == UNCHANGED mu

Unlock(t) == mu' = [mu EXCEPT ![StoreOf[t]] = None]

-----------------------------------------------------------------------------
\* inbox.Submit and Store.Add.

(***************************************************************************)
(* A door (cmdSubmit, handleSubmit) computes the expiry, the policy gives  *)
(* its decision, and the record is built with the outcome applied.  What   *)
(* the policy answers is left open here.  A CLI caller may ask to wait.    *)
(***************************************************************************)
TimeLeft == clock < MaxTime

\* now + ttl; none without a ttl.
Expiries == {clock + ttl : ttl \in TTLs} \cup {None}

\* Mutant: Add does not look for a file of that name.
NeverTaken(id) == FALSE

\* files[id] as os.Stat sees it.
Taken(id) == files[id] # None

\* Bound: without collisions there must be an id left to hand out.
Adding == {t \in Threads : pc[t] \in {"add.lock", "add.stat", "add.write"}}
IdsLeft == Cardinality({id \in Ids : Taken(id)}) + Cardinality(Adding) < Cardinality(Ids)

BeginSubmit(t) ==
  /\ pc[t] = "idle"
  /\ Collisions \/ IdsLeft
  /\ \E effect \in Effects, reason \in AnyReason, expires \in Expiries,
        timeout \in Timeouts \cup {None} :
       /\ timeout \notin {None, 0} => TimeLeft
       /\ expires # None => TimeLeft
       /\ frame' = [frame EXCEPT ![t] =
            [NoFrame EXCEPT !.rec     = NewRequest(effect, reason, expires, clock),
                            !.timeout = timeout]]
  /\ Goto(t, "add.lock")
  /\ UNCHANGED <<files, audit, mu, clock, told, orders, lost>>

AddLock(t) ==
  /\ pc[t] = "add.lock"
  /\ Lock(t)
  /\ Goto(t, "add.stat")
  /\ UNCHANGED <<files, audit, clock, frame, told, orders, lost>>

\* What NewID may return: 32 random bits usually miss every id in use.
NewIds ==
  IF Collisions THEN Ids
  ELSE {id \in Ids : ~Taken(id) /\ \A t \in Threads :
                       pc[t] = "add.write" => frame[t].id # id}

AddStat(t) ==
  /\ pc[t] = "add.stat"
  /\ \E id \in NewIds :
       \/ /\ Taken(id)
          /\ Unlock(t)
          /\ Return(t)
       \/ /\ ~Taken(id)
          /\ frame' = [frame EXCEPT ![t].id = id]
          /\ Goto(t, "add.write")
          /\ UNCHANGED mu
  /\ UNCHANGED <<files, audit, clock, told, orders, lost>>

AddWrite(t) ==
  /\ pc[t] = "add.write"
  /\ files' = [files EXCEPT ![frame[t].id] = frame[t].rec]
  /\ Unlock(t)
  /\ Goto(t, "log.submitted")
  /\ UNCHANGED <<audit, clock, frame, told, orders, lost>>

\* write() failed: no file, and Submit returns the error.
AddWriteFails(t) ==
  /\ DiskFaults
  /\ pc[t] = "add.write"
  /\ Unlock(t)
  /\ Return(t)
  /\ UNCHANGED <<files, audit, clock, told, orders, lost>>

-----------------------------------------------------------------------------
\* Store.Append, three times: submitted, auto_*, and the human decision.

SubmittedLine(f) == [event |-> "submitted", id |-> f.id, time |-> None, reason |-> NoReason]

DecisionLine(f, reason) ==
  [event |-> EventOf(f.rec), id |-> f.id, time |-> f.rec.decidedAt, reason |-> reason]

\* The line a call is about to append.
DueLine(t) ==
  LET f == frame[t] IN
  CASE pc[t] = "log.submitted" -> SubmittedLine(f)
    [] pc[t] = "log.auto"      -> DecisionLine(f, f.rec.reason)
    [] pc[t] = "log.decision"  -> DecisionLine(f, f.note)

\* The lines it has yet to append.
Owed(t) ==
  LET f == frame[t] IN
  IF pc[t] \notin LogLabels THEN {}
  ELSE {DueLine(t)} \cup (IF pc[t] = "log.submitted" /\ Decided(f.rec)
                          THEN {DecisionLine(f, f.rec.reason)} ELSE {})

\* Mutant: a line carries the time it is appended, not the time of the decision.
LogAtAppend(line) == audit' = Append(audit, [line EXCEPT !.time = clock])

Log(line) == audit' = Append(audit, line)

(***************************************************************************)
(* The answer to a submission.  cmdSubmit --wait goes on to Store.Wait     *)
(* when the request is pending.                                            *)
(***************************************************************************)
AnswerSubmit(t) ==
  LET f == frame[t] IN
  \/ /\ f.timeout # None /\ f.rec.status = "pending"
     /\ frame' = [frame EXCEPT ![t] =
          [NoFrame EXCEPT !.id = f.id, !.deadline = clock + f.timeout]]
     /\ Goto(t, "poll.read")
     /\ UNCHANGED told
  \/ /\ f.timeout = None \/ f.rec.status # "pending"
     /\ Answer(f.id, f.rec.status)
     /\ Return(t)

LogSubmitted(t) ==
  /\ pc[t] = "log.submitted"
  /\ LET f == frame[t] IN
       /\ Log(DueLine(t))
       /\ IF Decided(f.rec)
          THEN /\ Goto(t, "log.auto")
               /\ UNCHANGED <<frame, told>>
          ELSE AnswerSubmit(t)
  /\ UNCHANGED <<files, mu, clock, orders, lost>>

LogAuto(t) ==
  /\ pc[t] = "log.auto"
  /\ Log(DueLine(t))
  /\ AnswerSubmit(t)
  /\ UNCHANGED <<files, mu, clock, orders, lost>>

LogDecision(t) ==
  /\ pc[t] = "log.decision"
  /\ Log(DueLine(t))
  /\ Answer(frame[t].id, frame[t].rec.status)
  /\ Return(t)
  /\ UNCHANGED <<files, mu, clock, orders, lost>>

\* Append failed: the caller gets an error although the record is on disk.
LogFails(t) ==
  /\ DiskFaults
  /\ pc[t] \in LogLabels
  /\ lost' = lost \cup Owed(t)
  /\ Return(t)
  /\ UNCHANGED <<files, audit, mu, clock, told, orders>>

\* Close's error comes when the line has been written.
LogFailsLate(t) ==
  /\ DiskFaults
  /\ pc[t] \in LogLabels
  /\ Log(DueLine(t))
  /\ lost' = lost \cup (Owed(t) \ {DueLine(t)})
  /\ Return(t)
  /\ UNCHANGED <<files, mu, clock, told, orders>>

-----------------------------------------------------------------------------
\* inbox.Decide and Store.Decide.

BeginDecide(t) ==
  /\ pc[t] = "idle"
  /\ \E id \in Ids, verdict \in Verdicts, note \in AnyReason :
       /\ frame' = [frame EXCEPT ![t] =
            [NoFrame EXCEPT !.id = id, !.verdict = verdict, !.note = note]]
       /\ orders' = orders \cup {<<id, verdict, clock>>}
       /\ Cardinality(orders') <= MaxOrders
  /\ Goto(t, "decide.lock")
  /\ UNCHANGED <<files, audit, mu, clock, told, lost>>

DecideLock(t) ==
  /\ pc[t] = "decide.lock"
  /\ Lock(t)
  /\ Goto(t, "decide.read")
  /\ UNCHANGED <<files, audit, clock, frame, told, orders, lost>>

\* Get's ReadFile: ErrNotFound, or the stored record.
DecideRead(t) ==
  /\ pc[t] = "decide.read"
  /\ LET id == frame[t].id IN
       \/ /\ files[id] = None
          /\ Unlock(t)
          /\ Return(t)
       \/ /\ files[id] # None
          /\ frame' = [frame EXCEPT ![t].rec = files[id]]
          /\ Goto(t, "decide.check")
          /\ UNCHANGED mu
  /\ UNCHANGED <<files, audit, clock, told, orders, lost>>

\* Mutant: only expiry stops a decision.
DecidableUntilExpiry(r, now) == StatusAt(r, now) # "expired"

\* Mutant: the stored status is looked at, without applyExpiry.
DecidableAsStored(r, now) == r.status = "pending"

\* Get's applyExpiry and the switch on the status: ErrExpired, ErrAlreadyDecided.
Decidable(r, now) == StatusAt(r, now) = "pending"

DecideCheck(t) ==
  /\ pc[t] = "decide.check"
  /\ \/ /\ ~Decidable(frame[t].rec, clock)
        /\ Unlock(t)
        /\ Return(t)
     \/ /\ Decidable(frame[t].rec, clock)
        /\ Goto(t, "decide.stamp")
        /\ UNCHANGED <<mu, frame>>
  /\ UNCHANGED <<files, audit, clock, told, orders, lost>>

DecideStamp(t) ==
  /\ pc[t] = "decide.stamp"
  /\ frame' = [frame EXCEPT
       ![t].rec = Resolved(@, frame[t].verdict, frame[t].note, clock)]
  /\ Goto(t, "decide.write")
  /\ UNCHANGED <<files, audit, mu, clock, told, orders, lost>>

DecideWrite(t) ==
  /\ pc[t] = "decide.write"
  /\ files' = [files EXCEPT ![frame[t].id] = frame[t].rec]
  /\ Unlock(t)
  /\ Goto(t, "log.decision")
  /\ UNCHANGED <<audit, clock, frame, told, orders, lost>>

DecideWriteFails(t) ==
  /\ DiskFaults
  /\ pc[t] = "decide.write"
  /\ Unlock(t)
  /\ Return(t)
  /\ UNCHANGED <<files, audit, clock, told, orders, lost>>

-----------------------------------------------------------------------------
\* Store.Wait; Store.Get for show, GET /v1/requests/{id} is Wait without patience.

BeginPoll(t) ==
  /\ pc[t] = "idle"
  /\ \E id \in Ids, timeout \in Timeouts :
       /\ timeout > 0 => TimeLeft
       /\ frame' = [frame EXCEPT ![t] =
            [NoFrame EXCEPT !.id = id, !.deadline = clock + timeout]]
  /\ Goto(t, "poll.read")
  /\ UNCHANGED <<files, audit, mu, clock, told, orders, lost>>

PollRead(t) ==
  /\ pc[t] = "poll.read"
  /\ LET id == frame[t].id IN
       \/ /\ files[id] = None
          /\ Return(t)
       \/ /\ files[id] # None
          /\ frame' = [frame EXCEPT ![t].rec = files[id]]
          /\ Goto(t, "poll.check")
  /\ UNCHANGED <<files, audit, mu, clock, told, orders, lost>>

\* Get's applyExpiry: anything but pending is the answer.
PollCheck(t) ==
  /\ pc[t] = "poll.check"
  /\ LET f == frame[t]
         s == StatusAt(f.rec, clock)
     IN \/ /\ s # "pending"
           /\ Answer(f.id, s)
           /\ Return(t)
        \/ /\ s = "pending"
           /\ Goto(t, "poll.remain")
           /\ UNCHANGED <<frame, told>>
  /\ UNCHANGED <<files, audit, mu, clock, orders, lost>>

\* time.Sleep(min(interval, remain)).
NextPoll(now, deadline) ==
  IF now + PollInterval < deadline THEN now + PollInterval ELSE deadline

\* time.Until(deadline): give up, or sleep.
PollRemain(t) ==
  /\ pc[t] = "poll.remain"
  /\ LET f == frame[t] IN
       \/ /\ f.deadline <= clock
          /\ Answer(f.id, "pending")
          /\ Return(t)
       \/ /\ clock < f.deadline
          /\ frame' = [frame EXCEPT ![t].rec  = None,
                                    ![t].wake = NextPoll(clock, f.deadline)]
          /\ Goto(t, "poll.sleep")
          /\ UNCHANGED told
  /\ UNCHANGED <<files, audit, mu, clock, orders, lost>>

\* Mutant: after the last sleep the caller gives up without another read.
PollWakeGivesUp(t) ==
  /\ pc[t] = "poll.sleep"
  /\ frame[t].wake <= clock
  /\ IF frame[t].deadline <= clock THEN Return(t) ELSE Goto(t, "poll.read") /\ UNCHANGED frame
  /\ UNCHANGED <<files, audit, mu, clock, told, orders, lost>>

PollWake(t) ==
  /\ pc[t] = "poll.sleep"
  /\ frame[t].wake <= clock
  /\ Goto(t, "poll.read")
  /\ UNCHANGED <<files, audit, mu, clock, frame, told, orders, lost>>

-----------------------------------------------------------------------------
\* The environment: time passes, and a process may die between any two steps.

Sleeping(t) == pc[t] = "poll.sleep" /\ clock < frame[t].wake

Tick ==
  /\ TimeLeft \/ \E t \in Threads : Sleeping(t)
  /\ clock' = clock + 1
  /\ UNCHANGED <<files, audit, mu, pc, frame, told, orders, lost>>

InProcess(s) == {t \in Threads : StoreOf[t] = s}

\* Locals and the mutex go with the process; the next one starts on the files.
Crash(s) ==
  /\ \E t \in InProcess(s) : pc[t] # "idle"
  /\ lost'  = lost \cup UNION {Owed(t) : t \in InProcess(s)}
  /\ pc'    = [t \in Threads |-> IF t \in InProcess(s) THEN "idle" ELSE pc[t]]
  /\ frame' = [t \in Threads |-> IF t \in InProcess(s) THEN NoFrame ELSE frame[t]]
  /\ mu'    = [mu EXCEPT ![s] = None]
  /\ UNCHANGED <<files, audit, clock, told, orders>>

-----------------------------------------------------------------------------
\* What a thread inside an operation does next; beginning one is up to the caller.
Step(t) ==
  \/ AddLock(t) \/ AddStat(t) \/ AddWrite(t) \/ AddWriteFails(t)
  \/ LogSubmitted(t) \/ LogAuto(t) \/ LogDecision(t)
  \/ LogFails(t) \/ LogFailsLate(t)
  \/ DecideLock(t) \/ DecideRead(t) \/ DecideCheck(t) \/ DecideStamp(t)
  \/ DecideWrite(t) \/ DecideWriteFails(t)
  \/ PollRead(t) \/ PollCheck(t) \/ PollRemain(t) \/ PollWake(t)

Begin(t) == BeginSubmit(t) \/ BeginDecide(t) \/ BeginPoll(t)

Next ==
  \/ \E t \in Threads : Begin(t) \/ Step(t)
  \/ \E s \in Crashable : Crash(s)
  \/ Tick

Spec == Init /\ [][Next]_vars

(***************************************************************************)
(* A running goroutine is scheduled again; sync.Mutex hands the lock to a  *)
(* waiter after at most 1 ms (its starvation mode), so acquiring it is     *)
(* strongly fair; time passes.  Nobody is bound to begin an operation.     *)
(***************************************************************************)
Fairness ==
  /\ \A t \in Threads : /\ WF_vars(Step(t))
                        /\ SF_vars(AddLock(t))
                        /\ SF_vars(DecideLock(t))
  /\ WF_vars(Tick)

FairSpec == Spec /\ Fairness

-----------------------------------------------------------------------------
(***************************************************************************)
(* What the queue promises.  OneStore is the deployment sync.Mutex is made *)
(* for: a server alone on its inbox.                                       *)
(***************************************************************************)
OneStore == \A t, u \in Threads : StoreOf[t] = StoreOf[u]

Exists(id)  == files[id] # None
Settled(id) == Exists(id) /\ Decided(files[id])
Quiet       == \A t \in Threads : pc[t] = "idle"

Lines     == {audit[k] : k \in DOMAIN audit}
IsVerdict(e) == e.event # "submitted"

\* Every value stays in the range its Go type and the handlers give it.
TypeOK ==
  /\ files  \in [Ids -> Request \cup {None}]
  /\ audit  \in Seq(Event)
  /\ mu     \in [Stores -> Threads \cup {None}]
  /\ clock  \in Nat
  /\ pc     \in [Threads -> Labels]
  /\ frame  \in [Threads -> Frame]
  /\ told   \in SUBSET (Ids \X Statuses)
  /\ orders \in SUBSET (Ids \X Verdicts \X Nat)
  /\ lost   \in SUBSET Event

(***************************************************************************)
(* The facts the promises rest on, which the proofs carry from step to     *)
(* step: what a frame holds at each label, who holds a mutex, and, with    *)
(* one Store, that what was read under the mutex is still what is on disk. *)
(***************************************************************************)
WithId      == Labels \ {"idle", "add.lock", "add.stat"}
WithRec     == {"add.lock", "decide.check", "decide.stamp", "decide.write", "poll.check"}
                 \cup AddLabels \cup LogLabels
WithVerdict == {"decide.lock"} \cup DecideLabels

FrameFits(label, f) ==
  /\ label \in WithId => f.id \in Ids
  /\ label \in WithRec => f.rec \in Request
  /\ label \in WithVerdict => f.verdict \in Verdicts
  /\ label \in {"decide.write", "log.auto", "log.decision"} => Decided(f.rec)
  /\ label \in {"decide.write", "log.decision"} => f.note \in {NoReason, f.rec.reason}

FramesOK == \A t \in Threads : FrameFits(pc[t], frame[t])

MutexOK == \A t \in Threads : pc[t] \in Locked => mu[StoreOf[t]] = t

ReadFits(label, rec, onDisk) ==
  /\ label = "add.write" => onDisk = None
  /\ label \in {"decide.check", "decide.stamp"} => onDisk = rec
  /\ label \in {"decide.check", "decide.stamp", "decide.write", "poll.check"}
       \cup LogLabels => onDisk # None
  /\ label \in {"decide.stamp", "decide.write"} => onDisk.status = "pending"
  /\ label \in {"poll.check"} \cup LogLabels /\ Decided(rec) => onDisk = rec

ReadsHold ==
  \A t \in Threads : ReadFits(pc[t], frame[t].rec, files[frame[t].id])

OneStoreInv == FramesOK /\ MutexOK /\ ReadsHold

\* One Store: a decided record is final; neither a second decision
\* (Store.Decide) nor a submission drawing the same id (Store.Add) touches it.
DecisionFinal ==
  [][\A id \in Ids : Settled(id) => files'[id] = files[id]]_vars

\* One Store: the approval or denial a caller was given, by Submit, Decide or
\* Wait, is the one on disk from then on.
ToldStands ==
  \A a \in told : a[2] \in Verdicts => Exists(a[1]) /\ files[a[1]].status = a[2]

\* One Store: a decision line agrees with its record on verdict, actor, time
\* and reason, so the log never shows a decision that did not stand.
AuditTruthful ==
  \A e \in Lines : IsVerdict(e) =>
    /\ Settled(e.id)
    /\ e.event = EventOf(files[e.id])
    /\ e.time = files[e.id].decidedAt
    /\ e.reason \in {NoReason, files[e.id].reason}

\* One Store: no request has two decision lines, however many decisions race.
AuditOnce ==
  \A j, k \in DOMAIN audit :
    IsVerdict(audit[j]) /\ IsVerdict(audit[k]) /\ audit[j].id = audit[k].id => j = k

\* Any Stores: every request has its "submitted" line and every decided one the
\* line of that decision, or a caller is on the way to append the very line, or
\* that line was lost to a failed append or a crash (inbox.Submit, Decide).
Accounted == Lines \cup lost \cup UNION {Owed(t) : t \in Threads}

Tells(e, id) ==
  /\ e.id = id
  /\ e.event = EventOf(files[id])
  /\ e.time = files[id].decidedAt

Audited(id) == \E e \in Lines : Tells(e, id)

AuditExplained ==
  \A id \in Ids : Exists(id) =>
    /\ \E e \in Accounted : e.id = id /\ e.event = "submitted"
    /\ Settled(id) => \E e \in Accounted : Tells(e, id)

\* Any Stores: a record decided by a human carries a verdict some human asked
\* for, on this request, before it expired and before it was stamped.
\* (server_test.go: "an approval that arrives after the agent gave up must not
\* retroactively green-light the action"; one that came before may still land.)
Authority ==
  \A id \in Ids : Settled(id) /\ files[id].decidedBy = "human" =>
    \E o \in orders : /\ o[1] = id
                      /\ o[2] = files[id].status
                      /\ o[3] <= files[id].decidedAt
                      /\ files[id].expires # None => o[3] <= files[id].expires

\* Any Stores, ids never reused: a record is never lost, its expiry never
\* moves, and a decided one is never pending again.
NeverReopened ==
  [][\A id \in Ids : Exists(id) =>
       /\ files'[id] # None
       /\ files'[id].expires = files[id].expires
       /\ Decided(files[id]) => Decided(files'[id])]_vars

\* Every call returns: nobody is left waiting for Store.mu or for a deadline.
CallsReturn == \A t \in Threads : pc[t] # "idle" ~> pc[t] = "idle"

\* A caller asleep in Store.Wait while the request is decided reads the
\* decision before it gives up, even when it has only its last sleep left.
WaiterHears ==
  \A t \in Threads :
    (pc[t] = "poll.sleep" /\ Settled(frame[t].id))
      ~> (pc[t] = "poll.check" /\ Decided(frame[t].rec))

-----------------------------------------------------------------------------
(***************************************************************************)
(* With one Store, the detailed queue is the abstract one.                 *)
(***************************************************************************)
VerdictOn(id) ==
  IF ~Exists(id) THEN "absent"
  ELSE IF files[id].status = "pending" THEN "open" ELSE files[id].status

VerdictIn(e) ==
  IF e.event \in {"approved", "auto_approved"} THEN "approved" ELSE "denied"

Queue == INSTANCE ApprovalQueue WITH
           verdict <- [id \in Ids |-> VerdictOn(id)],
           log     <- {<<e.id, VerdictIn(e)>> : e \in {l \in Lines : IsVerdict(l)}},
           heard   <- told

\* One Store: files, log and answers together behave as an approval queue: one
\* verdict per request, and never another one logged or answered.
Implements == Queue!Spec

-----------------------------------------------------------------------------
(***************************************************************************)
(* What the repository's words say, and what the code does not keep.       *)
(***************************************************************************)

\* README: "every decision is audited"; CONTRIBUTING: "Every decision path must
\* write its audit event".  With every caller gone, its line is in the log.
EveryDecisionAudited == Quiet => \A id \in Ids : Settled(id) => Audited(id)

=============================================================================
