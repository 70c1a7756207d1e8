----------------------------- MODULE InboxProofs -----------------------------
(***************************************************************************)
(* What holds of Inbox for every number of threads, Stores, ids and times: *)
(* its types, and that only an order in time decides in a human's name.    *)
(***************************************************************************)
EXTENDS Inbox, TLAPS

TypeInv == TypeOK /\ FramesOK

\* The lists of labels, expanded: no two of them are equal.
LEMMA LabelSets ==
  /\ {"idle", "add.lock", "decide.lock", "poll.read", "poll.check", "poll.remain",
      "poll.sleep", "add.stat", "add.write", "decide.read", "decide.check",
      "decide.stamp", "decide.write", "log.submitted", "log.auto",
      "log.decision"} = Labels
  /\ Locked \subseteq Labels
  /\ LogLabels \subseteq Labels
  BY DEF Labels, AddLabels, DecideLabels, LogLabels, Locked

LEMMA NoFrameType == NoFrame \in Frame
  BY DEF NoFrame, Frame, AnyReason, OptTime

LEMMA NewRequestType ==
  ASSUME NEW effect \in Effects, NEW reason \in AnyReason,
         NEW expires \in OptTime, NEW now \in Nat
  PROVE  NewRequest(effect, reason, expires, now) \in Request
  BY NoneAssumption
  DEF NewRequest, Request, Fields, Effects, OptTime, StatusOfEffect, Verdicts, Decided

LEMMA ResolvedType ==
  ASSUME NEW r \in Request, NEW verdict \in Verdicts,
         NEW note \in AnyReason, NEW now \in Nat
  PROVE  /\ Resolved(r, verdict, note, now) \in Request
         /\ Resolved(r, verdict, note, now).status = verdict
         /\ Resolved(r, verdict, note, now).decidedAt = now
         /\ Resolved(r, verdict, note, now).decidedBy = "human"
         /\ Resolved(r, verdict, note, now).expires = r.expires
         /\ Decided(Resolved(r, verdict, note, now))
         /\ note \in {NoReason, Resolved(r, verdict, note, now).reason}
  BY NoneAssumption DEF Resolved, Request, Fields, OptTime, Verdicts, Decided

LEMMA EventOfType ==
  ASSUME NEW r \in Request, Decided(r)
  PROVE  EventOf(r) \in HumanEvents \cup AutoEvents
  BY DEF EventOf, Decided, HumanEvents, AutoEvents, Request, Fields, Verdicts

LEMMA InitTypeInv == Init => TypeInv
  <1> SUFFICES ASSUME Init PROVE TypeInv
    OBVIOUS
  <1>1. TypeOK
    <2>1. frame \in [Threads -> Frame]
      BY NoFrameType DEF Init
    <2> QED
      BY <2>1 DEF Init, TypeOK, Labels
  <1>2. FramesOK
    BY DEF Init, FramesOK, FrameFits, WithId, WithRec, WithVerdict, Labels, AddLabels,
           DecideLabels, LogLabels
  <1> QED
    BY <1>1, <1>2 DEF TypeInv

\* A step moves one thread to a label its new frame is fit for.
LEMMA ThreadMoves ==
  ASSUME TypeInv, NEW t \in Threads, NEW label \in Labels, NEW f \in Frame,
         pc' = [pc EXCEPT ![t] = label], frame' = [frame EXCEPT ![t] = f],
         FrameFits(label, f)
  PROVE  /\ pc' \in [Threads -> Labels]
         /\ frame' \in [Threads -> Frame]
         /\ FramesOK'
  <1>1. pc \in [Threads -> Labels] /\ frame \in [Threads -> Frame]
    BY DEF TypeInv, TypeOK
  <1>2. ASSUME NEW u \in Threads PROVE FrameFits(pc'[u], frame'[u])
    <2>1. CASE u = t
      BY <1>1, <2>1
    <2>2. CASE u # t
      BY <1>1, <2>2 DEF TypeInv, FramesOK
    <2> QED
      BY <2>1, <2>2
  <1> QED
    BY <1>1, <1>2 DEF FramesOK, FrameFits

LEMMA ReturnMoves ==
  ASSUME TypeInv, NEW t \in Threads, Return(t)
  PROVE  /\ pc' \in [Threads -> Labels]
         /\ frame' \in [Threads -> Frame]
         /\ FramesOK'
  <1>1. FrameFits("idle", NoFrame)
    BY DEF FrameFits, WithId, WithRec, WithVerdict, AddLabels, DecideLabels, LogLabels
  <1> QED
    BY <1>1, NoFrameType, LabelSets, ThreadMoves DEF Return, Goto

LEMMA GotoMoves ==
  ASSUME TypeInv, NEW t \in Threads, NEW label \in Labels,
         Goto(t, label), frame' = frame, FrameFits(label, frame[t])
  PROVE  /\ pc' \in [Threads -> Labels]
         /\ frame' \in [Threads -> Frame]
         /\ FramesOK'
  <1>1. frame \in [Threads -> Frame]
    BY DEF TypeInv, TypeOK
  <1>2. frame' = [frame EXCEPT ![t] = frame[t]]
    BY <1>1
  <1> QED
    BY <1>1, <1>2, ThreadMoves DEF Goto

-----------------------------------------------------------------------------
\* The type invariant, action by action.

LEMMA BeginType ==
  ASSUME TypeInv, NEW t \in Threads, Begin(t)
  PROVE  TypeInv'
  <1>1. CASE BeginSubmit(t)
    <2>1. PICK effect \in Effects, reason \in AnyReason,
               expires \in Expiries, timeout \in Timeouts \cup {None} :
            frame' = [frame EXCEPT ![t] =
              [NoFrame EXCEPT !.rec     = NewRequest(effect, reason, expires, clock),
                              !.timeout = timeout]]
      BY <1>1 DEF BeginSubmit
    <2> DEFINE f == [NoFrame EXCEPT !.rec     = NewRequest(effect, reason, expires, clock),
                                    !.timeout = timeout]
    <2>2. expires \in OptTime /\ timeout \in OptTime /\ clock \in Nat
      BY TimeAssumption DEF TypeInv, TypeOK, OptTime, Expiries
    <2>3. NewRequest(effect, reason, expires, clock) \in Request
      BY <2>2, NewRequestType
    <2>4. f \in Frame /\ f.rec \in Request
      BY <2>2, <2>3, NoFrameType DEF Frame, NoFrame
    <2>5. FrameFits("add.lock", f)
      BY <2>4 DEF FrameFits, WithId, WithVerdict, DecideLabels
    <2>6. pc' = [pc EXCEPT ![t] = "add.lock"] /\ frame' = [frame EXCEPT ![t] = f]
      BY <1>1, <2>1 DEF BeginSubmit, Goto
    <2> HIDE DEF f
    <2>7. /\ pc' \in [Threads -> Labels]
          /\ frame' \in [Threads -> Frame]
          /\ FramesOK'
      BY <2>4, <2>5, <2>6, LabelSets, ThreadMoves
    <2> QED
      BY <1>1, <2>7 DEF TypeInv, TypeOK, BeginSubmit
  <1>2. CASE BeginDecide(t)
    <2>1. PICK id \in Ids, verdict \in Verdicts, note \in AnyReason :
            /\ frame' = [frame EXCEPT ![t] =
                 [NoFrame EXCEPT !.id = id, !.verdict = verdict, !.note = note]]
            /\ orders' = orders \cup {<<id, verdict, clock>>}
      BY <1>2 DEF BeginDecide
    <2> DEFINE f == [NoFrame EXCEPT !.id = id, !.verdict = verdict, !.note = note]
    <2>2. f \in Frame /\ f.id \in Ids /\ f.verdict \in Verdicts
      BY NoFrameType DEF Frame, NoFrame
    <2>3. FrameFits("decide.lock", f)
      BY <2>2 DEF FrameFits, WithRec, AddLabels, LogLabels
    <2>4. pc' = [pc EXCEPT ![t] = "decide.lock"] /\ frame' = [frame EXCEPT ![t] = f]
      BY <1>2, <2>1 DEF BeginDecide, Goto
    <2> HIDE DEF f
    <2>5. /\ pc' \in [Threads -> Labels]
          /\ frame' \in [Threads -> Frame]
          /\ FramesOK'
      BY <2>2, <2>3, <2>4, LabelSets, ThreadMoves
    <2> QED
      BY <1>2, <2>1, <2>5 DEF TypeInv, TypeOK, BeginDecide
  <1>3. CASE BeginPoll(t)
    <2>1. PICK id \in Ids, timeout \in Timeouts :
            frame' = [frame EXCEPT ![t] =
              [NoFrame EXCEPT !.id = id, !.deadline = clock + timeout]]
      BY <1>3 DEF BeginPoll
    <2> DEFINE f == [NoFrame EXCEPT !.id = id, !.deadline = clock + timeout]
    <2>2. f \in Frame /\ f.id \in Ids
      <3>1. clock + timeout \in Nat
        BY TimeAssumption DEF TypeInv, TypeOK
      <3> QED
        BY <3>1, NoFrameType DEF Frame, NoFrame
    <2>3. FrameFits("poll.read", f)
      BY <2>2 DEF FrameFits, WithRec, WithVerdict, AddLabels, DecideLabels, LogLabels
    <2>4. pc' = [pc EXCEPT ![t] = "poll.read"] /\ frame' = [frame EXCEPT ![t] = f]
      BY <1>3, <2>1 DEF BeginPoll, Goto
    <2> HIDE DEF f
    <2>5. /\ pc' \in [Threads -> Labels]
          /\ frame' \in [Threads -> Frame]
          /\ FramesOK'
      BY <2>2, <2>3, <2>4, LabelSets, ThreadMoves
    <2> QED
      BY <1>3, <2>5 DEF TypeInv, TypeOK, BeginPoll
  <1> QED
    BY <1>1, <1>2, <1>3 DEF Begin

LEMMA AddType ==
  ASSUME TypeInv, NEW t \in Threads,
         AddLock(t) \/ AddStat(t) \/ AddWrite(t) \/ AddWriteFails(t)
  PROVE  TypeInv'
  <1> USE DEF TypeInv, TypeOK
  <1>0. /\ StoreOf[t] \in Stores
        /\ FrameFits(pc[t], frame[t])
        /\ frame[t] \in Frame
    BY StoreAssumption DEF FramesOK
  <1>1. CASE AddLock(t)
    <2>1. FrameFits("add.stat", frame[t])
      BY <1>0, <1>1 DEF AddLock, FrameFits, WithId, WithRec, WithVerdict,
                        AddLabels, DecideLabels, Labels
    <2> QED
      BY <1>1, <2>1, LabelSets, GotoMoves DEF AddLock, Lock
  <1>2. CASE AddStat(t)
    <2>1. PICK id \in NewIds :
            \/ Unlock(t) /\ Return(t)
            \/ /\ frame' = [frame EXCEPT ![t].id = id]
               /\ Goto(t, "add.write")
               /\ UNCHANGED mu
      BY <1>2 DEF AddStat
    <2>2. CASE Unlock(t) /\ Return(t)
      BY <1>0, <1>2, <2>2, ReturnMoves DEF AddStat, Unlock
    <2>3. CASE /\ frame' = [frame EXCEPT ![t].id = id]
               /\ Goto(t, "add.write")
               /\ UNCHANGED mu
      <3> DEFINE f == [frame[t] EXCEPT !.id = id]
      <3>1. id \in Ids
        BY DEF NewIds
      <3>2. f \in Frame /\ f.id \in Ids /\ f.rec = frame[t].rec
        BY <1>0, <3>1 DEF Frame
      <3>3. FrameFits("add.write", f)
        BY <1>0, <1>2, <3>2 DEF AddStat, FrameFits, WithRec, WithVerdict, AddLabels,
                                DecideLabels
      <3>4. pc' = [pc EXCEPT ![t] = "add.write"] /\ frame' = [frame EXCEPT ![t] = f]
        BY <2>3 DEF Goto
      <3> HIDE DEF f
      <3> QED
        BY <1>2, <2>3, <3>2, <3>3, <3>4, LabelSets, ThreadMoves DEF AddStat
    <2> QED
      BY <2>1, <2>2, <2>3
  <1>3. CASE AddWrite(t)
    <2>1. frame[t].id \in Ids /\ frame[t].rec \in Request
      BY <1>0, <1>3 DEF AddWrite, FrameFits, WithId, WithRec, Labels, AddLabels
    <2>2. FrameFits("log.submitted", frame[t])
      BY <2>1 DEF FrameFits, WithVerdict, DecideLabels
    <2> QED
      BY <1>0, <1>3, <2>1, <2>2, LabelSets, GotoMoves DEF AddWrite, Unlock
  <1>4. CASE AddWriteFails(t)
    BY <1>0, <1>4, ReturnMoves DEF AddWriteFails, Unlock
  <1> QED
    BY <1>1, <1>2, <1>3, <1>4

LEMMA AnswerType ==
  ASSUME TypeInv, NEW id \in Ids, NEW status \in Statuses, Answer(id, status)
  PROVE  told' \in SUBSET (Ids \X Statuses)
  BY DEF TypeInv, TypeOK, Answer

\* What a call at one of the log labels has yet to append.
LEMMA DueLineType ==
  ASSUME TypeInv, NEW t \in Threads, pc[t] \in LogLabels
  PROVE  /\ DueLine(t) \in Event
         /\ DueLine(t).id = frame[t].id
         /\ pc[t] = "log.submitted" => DueLine(t).event = "submitted"
         /\ pc[t] # "log.submitted" =>
              /\ Decided(frame[t].rec)
              /\ DueLine(t).event = EventOf(frame[t].rec)
              /\ DueLine(t).time = frame[t].rec.decidedAt
              /\ DueLine(t).reason \in {NoReason, frame[t].rec.reason}
  <1> DEFINE f == frame[t]
  <1>1. FrameFits(pc[t], f) /\ f \in Frame
    BY DEF TypeInv, TypeOK, FramesOK
  <1>2. f.id \in Ids /\ f.rec \in Request /\ f.note \in AnyReason
    BY <1>1 DEF FrameFits, WithId, WithRec, LogLabels, Labels, Frame
  <1>3. f.rec.decidedAt \in OptTime /\ f.rec.reason \in AnyReason
    BY <1>2 DEF Request, Fields
  <1>4. CASE pc[t] = "log.submitted"
    BY <1>2, <1>4 DEF DueLine, SubmittedLine, Event, OptTime, AnyReason
  <1>5. ASSUME NEW reason \in AnyReason, DueLine(t) = DecisionLine(f, reason), Decided(f.rec),
               reason \in {NoReason, f.rec.reason}, pc[t] # "log.submitted"
        PROVE  /\ DueLine(t) \in Event
               /\ DueLine(t).id = f.id
               /\ DueLine(t).event = EventOf(f.rec)
               /\ DueLine(t).time = f.rec.decidedAt
               /\ DueLine(t).reason \in {NoReason, f.rec.reason}
    BY <1>2, <1>3, <1>5, EventOfType DEF DecisionLine, Event
  <1>6. CASE pc[t] = "log.auto"
    <2>1. Decided(f.rec) /\ DueLine(t) = DecisionLine(f, f.rec.reason)
      BY <1>1, <1>6 DEF FrameFits, DueLine
    <2> QED
      BY <1>3, <1>5, <1>6, <2>1
  <1>7. CASE pc[t] = "log.decision"
    <2>1. /\ Decided(f.rec) /\ DueLine(t) = DecisionLine(f, f.note)
          /\ f.note \in {NoReason, f.rec.reason}
      BY <1>1, <1>7 DEF FrameFits, DueLine
    <2> QED
      BY <1>2, <1>5, <1>7, <2>1
  <1> QED
    BY <1>4, <1>6, <1>7 DEF LogLabels

LEMMA OwedType ==
  ASSUME TypeInv, NEW t \in Threads
  PROVE  Owed(t) \subseteq Event
  <1>1. CASE pc[t] \in LogLabels
    <2>1. frame[t].id \in Ids /\ frame[t].rec \in Request
      BY <1>1 DEF TypeInv, FramesOK, FrameFits, WithId, WithRec, LogLabels, Labels
    <2>2. Decided(frame[t].rec) => DecisionLine(frame[t], frame[t].rec.reason) \in Event
      BY <2>1, EventOfType DEF DecisionLine, Event, Request, Fields
    <2> QED
      BY <1>1, <2>2, DueLineType DEF Owed
  <1> QED
    BY <1>1 DEF Owed

LEMMA LogType ==
  ASSUME TypeInv, NEW t \in Threads, pc[t] \in LogLabels, Log(DueLine(t))
  PROVE  audit' \in Seq(Event)
  <1>1. DueLine(t) \in Event
    BY DueLineType
  <1> QED
    BY <1>1 DEF TypeInv, TypeOK, Log

LEMMA AnswerSubmitType ==
  ASSUME TypeInv, NEW t \in Threads, pc[t] \in LogLabels, AnswerSubmit(t)
  PROVE  /\ pc' \in [Threads -> Labels]
         /\ frame' \in [Threads -> Frame]
         /\ FramesOK'
         /\ told' \in SUBSET (Ids \X Statuses)
  <1>1. frame[t] \in Frame /\ clock \in Nat /\ told \in SUBSET (Ids \X Statuses)
    BY DEF TypeInv, TypeOK
  <1>2. frame[t].id \in Ids /\ frame[t].rec \in Request
    BY DEF TypeInv, FramesOK, FrameFits, WithId, WithRec, LogLabels, Labels
  <1>3. frame[t].rec.status \in Statuses
    BY <1>2 DEF Request, Fields, Statuses
  <1>4. CASE /\ frame[t].timeout # None
             /\ frame' = [frame EXCEPT ![t] =
                  [NoFrame EXCEPT !.id = frame[t].id,
                                  !.deadline = clock + frame[t].timeout]]
             /\ Goto(t, "poll.read")
             /\ UNCHANGED told
    <2> DEFINE f == [NoFrame EXCEPT !.id = frame[t].id,
                                    !.deadline = clock + frame[t].timeout]
    <2>1. clock + frame[t].timeout \in Nat
      BY <1>1, <1>4 DEF Frame, OptTime
    <2>2. f \in Frame /\ f.id \in Ids
      BY <1>2, <2>1, NoFrameType DEF Frame, NoFrame
    <2>3. FrameFits("poll.read", f)
      BY <2>2 DEF FrameFits, WithRec, WithVerdict, AddLabels, DecideLabels, LogLabels
    <2>4. pc' = [pc EXCEPT ![t] = "poll.read"] /\ frame' = [frame EXCEPT ![t] = f]
      BY <1>4 DEF Goto
    <2> HIDE DEF f
    <2> QED
      BY <1>1, <1>4, <2>2, <2>3, <2>4, LabelSets, ThreadMoves
  <1>5. CASE Answer(frame[t].id, frame[t].rec.status) /\ Return(t)
    BY <1>2, <1>3, <1>5, AnswerType, ReturnMoves
  <1> QED
    BY <1>4, <1>5 DEF AnswerSubmit

LEMMA LogStepsType ==
  ASSUME TypeInv, NEW t \in Threads,
         LogSubmitted(t) \/ LogAuto(t) \/ LogDecision(t) \/ LogFails(t) \/ LogFailsLate(t)
  PROVE  TypeInv'
  <1> USE DEF TypeInv, TypeOK
  <1>1. pc[t] \in LogLabels
    BY DEF LogSubmitted, LogAuto, LogDecision, LogFails, LogFailsLate, LogLabels
  <1>2. /\ frame[t].id \in Ids
        /\ frame[t].rec \in Request
        /\ FrameFits(pc[t], frame[t])
    BY <1>1 DEF FramesOK, FrameFits, WithId, WithRec, LogLabels, Labels
  <1>3. audit' \in Seq(Event)
    BY <1>1, LogType DEF LogSubmitted, LogAuto, LogDecision, LogFails, LogFailsLate
  <1>4. CASE LogSubmitted(t)
    <2>1. CASE Decided(frame[t].rec) /\ Goto(t, "log.auto") /\ UNCHANGED <<frame, told>>
      <3>1. FrameFits("log.auto", frame[t])
        BY <1>2, <1>4, <2>1 DEF LogSubmitted, FrameFits, WithVerdict, DecideLabels
      <3> QED
        BY <1>3, <1>4, <2>1, <3>1, LabelSets, GotoMoves DEF LogSubmitted
    <2>2. CASE AnswerSubmit(t)
      BY <1>1, <1>3, <1>4, <2>2, AnswerSubmitType DEF LogSubmitted
    <2> QED
      BY <1>4, <2>1, <2>2 DEF LogSubmitted
  <1>5. CASE LogAuto(t)
    BY <1>1, <1>3, <1>5, AnswerSubmitType DEF LogAuto
  <1>6. CASE LogDecision(t)
    <2>1. frame[t].rec.status \in Statuses
      BY <1>2 DEF Request, Fields, Statuses
    <2>2. told' \in SUBSET (Ids \X Statuses)
      BY <1>2, <1>6, <2>1, AnswerType DEF LogDecision
    <2> QED
      BY <1>3, <1>6, <2>2, ReturnMoves DEF LogDecision
  <1>7. CASE LogFails(t) \/ LogFailsLate(t)
    <2>1. lost' \in SUBSET Event
      BY <1>7, OwedType DEF LogFails, LogFailsLate
    <2> QED
      BY <1>3, <1>7, <2>1, ReturnMoves DEF LogFails, LogFailsLate
  <1> QED
    BY <1>4, <1>5, <1>6, <1>7

LEMMA DecideStepsType ==
  ASSUME TypeInv, NEW t \in Threads,
         \/ DecideLock(t) \/ DecideRead(t) \/ DecideCheck(t)
         \/ DecideStamp(t) \/ DecideWrite(t) \/ DecideWriteFails(t)
  PROVE  TypeInv'
  <1> USE DEF TypeInv, TypeOK
  <1>1. pc[t] \in WithVerdict
    BY DEF DecideLock, DecideRead, DecideCheck, DecideStamp, DecideWrite,
           DecideWriteFails, WithVerdict, DecideLabels
  <1>2. /\ StoreOf[t] \in Stores
        /\ frame[t] \in Frame
        /\ frame[t].id \in Ids
        /\ frame[t].verdict \in Verdicts
        /\ frame[t].note \in AnyReason
        /\ FrameFits(pc[t], frame[t])
    BY <1>1, StoreAssumption
    DEF FramesOK, FrameFits, WithId, WithVerdict, DecideLabels, Labels, Frame
  <1>3. CASE DecideLock(t)
    <2>1. FrameFits("decide.read", frame[t])
      BY <1>2 DEF FrameFits, WithRec, AddLabels, LogLabels
    <2> QED
      BY <1>2, <1>3, <2>1, LabelSets, GotoMoves DEF DecideLock, Lock
  <1>4. CASE DecideRead(t)
    <2>1. CASE Unlock(t) /\ Return(t)
      BY <1>2, <1>4, <2>1, ReturnMoves DEF DecideRead, Unlock
    <2>2. CASE /\ files[frame[t].id] # None
               /\ frame' = [frame EXCEPT ![t].rec = files[frame[t].id]]
               /\ Goto(t, "decide.check")
               /\ UNCHANGED mu
      <3> DEFINE f == [frame[t] EXCEPT !.rec = files[frame[t].id]]
      <3>1. files[frame[t].id] \in Request
        BY <1>2, <2>2
      <3>2. /\ f \in Frame /\ f.rec \in Request
            /\ f.id = frame[t].id /\ f.verdict = frame[t].verdict
        BY <1>2, <3>1 DEF Frame
      <3>3. FrameFits("decide.check", f)
        BY <1>2, <3>2 DEF FrameFits
      <3>4. pc' = [pc EXCEPT ![t] = "decide.check"] /\ frame' = [frame EXCEPT ![t] = f]
        BY <2>2 DEF Goto
      <3> HIDE DEF f
      <3> QED
        BY <1>4, <2>2, <3>2, <3>3, <3>4, LabelSets, ThreadMoves DEF DecideRead
    <2> QED
      BY <1>4, <2>1, <2>2 DEF DecideRead
  <1>5. CASE DecideCheck(t)
    <2>1. CASE Unlock(t) /\ Return(t)
      BY <1>2, <1>5, <2>1, ReturnMoves DEF DecideCheck, Unlock
    <2>2. CASE Goto(t, "decide.stamp") /\ UNCHANGED <<mu, frame>>
      <3>1. FrameFits("decide.stamp", frame[t])
        BY <1>2, <1>5 DEF DecideCheck, FrameFits, WithRec
      <3> QED
        BY <1>5, <2>2, <3>1, LabelSets, GotoMoves DEF DecideCheck
    <2> QED
      BY <1>5, <2>1, <2>2 DEF DecideCheck
  <1>6. CASE DecideStamp(t)
    <2> DEFINE r == Resolved(frame[t].rec, frame[t].verdict, frame[t].note, clock)
               f == [frame[t] EXCEPT !.rec = r]
    <2>1. frame[t].rec \in Request
      BY <1>2, <1>6 DEF DecideStamp, FrameFits, WithRec
    <2>2. r \in Request /\ Decided(r) /\ frame[t].note \in {NoReason, r.reason}
      BY <1>2, <2>1, ResolvedType
    <2> HIDE DEF r
    <2>3. /\ f \in Frame /\ f.rec = r /\ f.note = frame[t].note
          /\ f.id = frame[t].id /\ f.verdict = frame[t].verdict
      BY <1>2, <2>2 DEF Frame
    <2>4. FrameFits("decide.write", f)
      BY <1>2, <2>2, <2>3 DEF FrameFits
    <2>5. pc' = [pc EXCEPT ![t] = "decide.write"] /\ frame' = [frame EXCEPT ![t] = f]
      BY <1>6 DEF DecideStamp, Goto, r
    <2> HIDE DEF f
    <2> QED
      BY <1>6, <2>3, <2>4, <2>5, LabelSets, ThreadMoves DEF DecideStamp
  <1>7. CASE DecideWrite(t)
    <2>1. frame[t].rec \in Request /\ Decided(frame[t].rec)
      BY <1>2, <1>7 DEF DecideWrite, FrameFits, WithRec
    <2>2. FrameFits("log.decision", frame[t])
      BY <1>2, <1>7, <2>1 DEF DecideWrite, FrameFits
    <2> QED
      BY <1>2, <1>7, <2>1, <2>2, LabelSets, GotoMoves DEF DecideWrite, Unlock
  <1>8. CASE DecideWriteFails(t)
    BY <1>2, <1>8, ReturnMoves DEF DecideWriteFails, Unlock
  <1> QED
    BY <1>3, <1>4, <1>5, <1>6, <1>7, <1>8

LEMMA PollType ==
  ASSUME TypeInv, NEW t \in Threads,
         PollRead(t) \/ PollCheck(t) \/ PollRemain(t) \/ PollWake(t)
  PROVE  TypeInv'
  <1> USE DEF TypeInv, TypeOK
  <1>1. /\ frame[t] \in Frame
        /\ frame[t].id \in Ids
        /\ FrameFits(pc[t], frame[t])
    BY DEF PollRead, PollCheck, PollRemain, PollWake, FramesOK, FrameFits, WithId, Labels
  <1>2. CASE PollRead(t)
    <2>1. CASE Return(t)
      BY <1>2, <2>1, ReturnMoves DEF PollRead
    <2>2. CASE /\ files[frame[t].id] # None
               /\ frame' = [frame EXCEPT ![t].rec = files[frame[t].id]]
               /\ Goto(t, "poll.check")
      <3> DEFINE f == [frame[t] EXCEPT !.rec = files[frame[t].id]]
      <3>1. files[frame[t].id] \in Request
        BY <1>1, <2>2
      <3>2. f \in Frame /\ f.rec \in Request /\ f.id = frame[t].id
        BY <1>1, <3>1 DEF Frame
      <3>3. FrameFits("poll.check", f)
        BY <1>1, <3>2 DEF FrameFits, WithVerdict, DecideLabels
      <3>4. pc' = [pc EXCEPT ![t] = "poll.check"] /\ frame' = [frame EXCEPT ![t] = f]
        BY <2>2 DEF Goto
      <3> HIDE DEF f
      <3> QED
        BY <1>2, <3>2, <3>3, <3>4, LabelSets, ThreadMoves DEF PollRead
    <2> QED
      BY <1>2, <2>1, <2>2 DEF PollRead
  <1>3. CASE PollCheck(t)
    <2>1. CASE Answer(frame[t].id, StatusAt(frame[t].rec, clock)) /\ Return(t)
      <3>1. StatusAt(frame[t].rec, clock) \in Statuses
        BY <1>1, <1>3 DEF PollCheck, FrameFits, WithRec, Request, Fields, StatusAt, Statuses
      <3> QED
        BY <1>1, <1>3, <2>1, <3>1, AnswerType, ReturnMoves DEF PollCheck
    <2>2. CASE Goto(t, "poll.remain") /\ UNCHANGED <<frame, told>>
      <3>1. FrameFits("poll.remain", frame[t])
        BY <1>1 DEF FrameFits, WithRec, WithVerdict, AddLabels, LogLabels, DecideLabels
      <3> QED
        BY <1>3, <2>2, <3>1, LabelSets, GotoMoves DEF PollCheck
    <2> QED
      BY <1>3, <2>1, <2>2 DEF PollCheck
  <1>4. CASE PollRemain(t)
    <2>1. CASE Answer(frame[t].id, "pending") /\ Return(t)
      <3>1. "pending" \in Statuses
        BY DEF Statuses
      <3> QED
        BY <1>1, <1>4, <2>1, <3>1, AnswerType, ReturnMoves DEF PollRemain
    <2>2. CASE /\ frame' = [frame EXCEPT ![t].rec  = None,
                                         ![t].wake = NextPoll(clock, frame[t].deadline)]
               /\ Goto(t, "poll.sleep")
               /\ UNCHANGED told
      <3> DEFINE f == [frame[t] EXCEPT !.rec  = None,
                                       !.wake = NextPoll(clock, frame[t].deadline)]
      <3>1. NextPoll(clock, frame[t].deadline) \in Nat
        BY <1>1, TimeAssumption DEF NextPoll, Frame
      <3>2. f \in Frame /\ f.id = frame[t].id
        BY <1>1, <3>1 DEF Frame
      <3>3. FrameFits("poll.sleep", f)
        BY <1>1, <3>2 DEF FrameFits, WithRec, WithVerdict, AddLabels, LogLabels, DecideLabels
      <3>4. pc' = [pc EXCEPT ![t] = "poll.sleep"] /\ frame' = [frame EXCEPT ![t] = f]
        BY <2>2 DEF Goto
      <3> HIDE DEF f
      <3> QED
        BY <1>4, <2>2, <3>2, <3>3, <3>4, LabelSets, ThreadMoves DEF PollRemain
    <2> QED
      BY <1>4, <2>1, <2>2 DEF PollRemain
  <1>5. CASE PollWake(t)
    <2>1. FrameFits("poll.read", frame[t])
      BY <1>1 DEF FrameFits, WithRec, WithVerdict, AddLabels, LogLabels, DecideLabels
    <2> QED
      BY <1>5, <2>1, LabelSets, GotoMoves DEF PollWake
  <1> QED
    BY <1>2, <1>3, <1>4, <1>5

LEMMA CrashType ==
  ASSUME TypeInv, NEW s \in Crashable, Crash(s)
  PROVE  TypeInv'
  <1> USE DEF TypeInv, TypeOK
  <1>1. pc' \in [Threads -> Labels] /\ frame' \in [Threads -> Frame]
    BY NoFrameType, LabelSets DEF Crash
  <1>2. FramesOK'
    <2>1. ASSUME NEW u \in Threads PROVE FrameFits(pc'[u], frame'[u])
      <3>1. CASE u \in InProcess(s)
        BY <3>1 DEF Crash, FrameFits, WithId, WithRec, WithVerdict, AddLabels,
                    DecideLabels, LogLabels
      <3>2. CASE u \notin InProcess(s)
        BY <3>2 DEF Crash, FramesOK
      <3> QED
        BY <3>1, <3>2
    <2> QED
      BY <2>1 DEF FramesOK, FrameFits
  <1>3. lost' \in SUBSET Event
    BY OwedType DEF Crash, InProcess
  <1> QED
    BY <1>1, <1>2, <1>3, StoreAssumption DEF Crash

LEMMA NextTypeInv == TypeInv /\ [Next]_vars => TypeInv'
  <1> SUFFICES ASSUME TypeInv, [Next]_vars PROVE TypeInv'
    OBVIOUS
  <1>1. ASSUME NEW t \in Threads, Begin(t) \/ Step(t) PROVE TypeInv'
    BY <1>1, BeginType, AddType, LogStepsType, DecideStepsType, PollType DEF Step
  <1>2. ASSUME NEW s \in Crashable, Crash(s) PROVE TypeInv'
    BY <1>2, CrashType
  <1>3. CASE Tick
    BY <1>3 DEF Tick, TypeInv, TypeOK, FramesOK
  <1>4. CASE UNCHANGED vars
    BY <1>4 DEF vars, TypeInv, TypeOK, FramesOK
  <1> QED
    BY <1>1, <1>2, <1>3, <1>4 DEF Next

LEMMA Typing == Spec => []TypeInv
  BY InitTypeInv, NextTypeInv, PTL DEF Spec

\* Type correctness: no step of any handler or command, however they interleave,
\* fail or crash, gives a file, a log line or a local a value outside its type.
THEOREM TypeCorrect == Spec => []TypeOK
  <1>1. TypeInv => TypeOK
    BY DEF TypeInv
  <1> QED
    BY <1>1, Typing, PTL

-----------------------------------------------------------------------------
(***************************************************************************)
(* Whatever the Stores, the crashes and the ids: no record is decided in a *)
(* human's name unless a human asked for that verdict on that request      *)
(* before it expired.  Nothing here needs the mutex: the order a thread    *)
(* carries is checked against the very record it goes on to write.         *)
(***************************************************************************)

\* An order for f's verdict that f's record, as far as it has been checked, allows.
Backs(o, label, f, now) ==
  /\ o[1] = f.id
  /\ o[2] = f.verdict
  /\ o[3] <= now
  /\ label \in {"decide.stamp", "decide.write"} /\ f.rec.expires # None =>
       o[3] <= f.rec.expires
  /\ label = "decide.write" =>
       /\ o[3] <= f.rec.decidedAt
       /\ f.rec.status = f.verdict

Backed(label, f, asked, now) ==
  /\ label \in {"add.lock"} \cup AddLabels => f.rec.decidedBy # "human"
  /\ label \in WithVerdict => \E o \in asked : Backs(o, label, f, now)

OrdersHold == \A t \in Threads : Backed(pc[t], frame[t], orders, clock)

AuthorityInv == TypeInv /\ OrdersHold /\ Authority

-----------------------------------------------------------------------------
\* Orders are never forgotten and the clock never goes back.
LEMMA BackedLasts ==
  ASSUME NEW label, NEW f, NEW asked \in SUBSET (Ids \X Verdicts \X Nat),
         NEW more, NEW now \in Nat, NEW later \in Nat,
         Backed(label, f, asked, now), asked \subseteq more, now <= later
  PROVE  Backed(label, f, more, later)
  <1>1. ASSUME label \in WithVerdict
        PROVE  \E o \in more : Backs(o, label, f, later)
    <2>1. PICK o \in asked : Backs(o, label, f, now)
      BY <1>1 DEF Backed
    <2>2. o[3] \in Nat
      OBVIOUS
    <2> QED
      BY <2>1, <2>2 DEF Backs
  <1> QED
    BY <1>1 DEF Backed

LEMMA ThreadBacked ==
  ASSUME TypeInv, OrdersHold, NEW t \in Threads, NEW label, NEW f,
         pc' = [pc EXCEPT ![t] = label], frame' = [frame EXCEPT ![t] = f],
         orders \subseteq orders', clock' = clock, Backed(label, f, orders', clock)
  PROVE  OrdersHold'
  <1>1. ASSUME NEW u \in Threads PROVE Backed(pc'[u], frame'[u], orders', clock')
    <2>1. CASE u # t
      <3>1. pc'[u] = pc[u] /\ frame'[u] = frame[u]
        BY <2>1 DEF TypeInv, TypeOK
      <3>2. Backed(pc[u], frame[u], orders, clock)
        BY DEF OrdersHold
      <3>3. Backed(pc[u], frame[u], orders', clock)
        BY <3>2, BackedLasts DEF TypeInv, TypeOK
      <3> QED
        BY <3>1, <3>3
    <2>2. CASE u = t
      BY <2>2 DEF TypeInv, TypeOK
    <2> QED
      BY <2>1, <2>2
  <1> QED
    BY <1>1 DEF OrdersHold, Backed, Backs

LEMMA ReturnBacked ==
  ASSUME TypeInv, OrdersHold, NEW t \in Threads, Return(t),
         orders' = orders, clock' = clock
  PROVE  OrdersHold'
  <1>1. Backed("idle", NoFrame, orders', clock)
    BY DEF Backed, WithVerdict, AddLabels, DecideLabels
  <1> QED
    BY <1>1, ThreadBacked DEF Return, Goto

LEMMA GotoBacked ==
  ASSUME TypeInv, OrdersHold, NEW t \in Threads, NEW label, Goto(t, label),
         frame' = frame, orders' = orders, clock' = clock,
         Backed(label, frame[t], orders, clock)
  PROVE  OrdersHold'
  <1>1. frame' = [frame EXCEPT ![t] = frame[t]]
    BY DEF TypeInv, TypeOK
  <1> QED
    BY <1>1, ThreadBacked DEF Goto

-----------------------------------------------------------------------------
LEMMA BeginBacked ==
  ASSUME TypeInv, OrdersHold, NEW t \in Threads, Begin(t)
  PROVE  OrdersHold'
  <1>1. CASE BeginSubmit(t)
    <2>1. PICK effect \in Effects, reason \in AnyReason,
               expires \in Expiries, timeout \in Timeouts \cup {None} :
            frame' = [frame EXCEPT ![t] =
              [NoFrame EXCEPT !.rec     = NewRequest(effect, reason, expires, clock),
                              !.timeout = timeout]]
      BY <1>1 DEF BeginSubmit
    <2> DEFINE f == [NoFrame EXCEPT !.rec     = NewRequest(effect, reason, expires, clock),
                                    !.timeout = timeout]
    <2>2. f.rec = NewRequest(effect, reason, expires, clock)
      BY DEF NoFrame
    <2>3. NewRequest(effect, reason, expires, clock).decidedBy # "human"
      BY DEF NewRequest
    <2>4. pc' = [pc EXCEPT ![t] = "add.lock"] /\ frame' = [frame EXCEPT ![t] = f]
      BY <1>1, <2>1 DEF BeginSubmit, Goto
    <2> HIDE DEF f
    <2>5. Backed("add.lock", f, orders, clock)
      BY <2>2, <2>3 DEF Backed, WithVerdict, DecideLabels
    <2> QED
      BY <1>1, <2>4, <2>5, ThreadBacked DEF BeginSubmit
  <1>2. CASE BeginDecide(t)
    <2>1. PICK id \in Ids, verdict \in Verdicts, note \in AnyReason :
            /\ frame' = [frame EXCEPT ![t] =
                 [NoFrame EXCEPT !.id = id, !.verdict = verdict, !.note = note]]
            /\ orders' = orders \cup {<<id, verdict, clock>>}
      BY <1>2 DEF BeginDecide
    <2> DEFINE f == [NoFrame EXCEPT !.id = id, !.verdict = verdict, !.note = note]
    <2>2. f.id = id /\ f.verdict = verdict
      BY DEF NoFrame
    <2>3. Backs(<<id, verdict, clock>>, "decide.lock", f, clock)
      BY <2>2 DEF Backs, TypeInv, TypeOK
    <2>4. Backed("decide.lock", f, orders', clock)
      BY <2>1, <2>3 DEF Backed, AddLabels
    <2>5. pc' = [pc EXCEPT ![t] = "decide.lock"] /\ frame' = [frame EXCEPT ![t] = f]
      BY <1>2, <2>1 DEF BeginDecide, Goto
    <2> HIDE DEF f
    <2> QED
      BY <1>2, <2>1, <2>4, <2>5, ThreadBacked DEF BeginDecide
  <1>3. CASE BeginPoll(t)
    <2>1. PICK f : frame' = [frame EXCEPT ![t] = f]
      BY <1>3 DEF BeginPoll
    <2>2. Backed("poll.read", f, orders', clock)
      BY DEF Backed, WithVerdict, AddLabels, DecideLabels
    <2> QED
      BY <1>3, <2>1, <2>2, ThreadBacked DEF BeginPoll, Goto
  <1> QED
    BY <1>1, <1>2, <1>3 DEF Begin

LEMMA AddBacked ==
  ASSUME TypeInv, OrdersHold, NEW t \in Threads,
         AddLock(t) \/ AddStat(t) \/ AddWrite(t) \/ AddWriteFails(t)
  PROVE  OrdersHold'
  <1>1. Backed(pc[t], frame[t], orders, clock)
    BY DEF OrdersHold
  <1>2. CASE AddLock(t)
    <2>1. Backed("add.stat", frame[t], orders, clock)
      BY <1>1, <1>2 DEF AddLock, Backed, WithVerdict, AddLabels, DecideLabels
    <2> QED
      BY <1>2, <2>1, GotoBacked DEF AddLock
  <1>3. CASE AddStat(t)
    <2>1. CASE Return(t)
      BY <1>3, <2>1, ReturnBacked DEF AddStat
    <2>2. ASSUME NEW id \in NewIds,
                 frame' = [frame EXCEPT ![t].id = id], Goto(t, "add.write")
          PROVE  OrdersHold'
      <3> DEFINE f == [frame[t] EXCEPT !.id = id]
      <3>1. f.rec = frame[t].rec
        BY DEF TypeInv, TypeOK, Frame
      <3>2. Backed("add.write", f, orders, clock)
        BY <1>1, <1>3, <3>1 DEF AddStat, Backed, WithVerdict, AddLabels, DecideLabels
      <3>3. pc' = [pc EXCEPT ![t] = "add.write"] /\ frame' = [frame EXCEPT ![t] = f]
        BY <2>2 DEF Goto
      <3> HIDE DEF f
      <3> QED
        BY <1>3, <3>2, <3>3, ThreadBacked DEF AddStat
    <2> QED
      BY <1>3, <2>1, <2>2 DEF AddStat
  <1>4. CASE AddWrite(t)
    <2>1. Backed("log.submitted", frame[t], orders, clock)
      BY DEF Backed, WithVerdict, AddLabels, DecideLabels
    <2> QED
      BY <1>4, <2>1, GotoBacked DEF AddWrite
  <1>5. CASE AddWriteFails(t)
    BY <1>5, ReturnBacked DEF AddWriteFails
  <1> QED
    BY <1>2, <1>3, <1>4, <1>5

LEMMA DecideBacked ==
  ASSUME TypeInv, OrdersHold, NEW t \in Threads,
         \/ DecideLock(t) \/ DecideRead(t) \/ DecideCheck(t)
         \/ DecideStamp(t) \/ DecideWrite(t) \/ DecideWriteFails(t)
  PROVE  OrdersHold'
  <1>1. pc[t] \in WithVerdict
    BY DEF DecideLock, DecideRead, DecideCheck, DecideStamp, DecideWrite,
           DecideWriteFails, WithVerdict, DecideLabels
  <1>2. /\ frame[t] \in Frame
        /\ clock \in Nat
        /\ orders \in SUBSET (Ids \X Verdicts \X Nat)
        /\ FrameFits(pc[t], frame[t])
    BY DEF TypeInv, TypeOK, FramesOK
  <1>3. PICK o \in orders : Backs(o, pc[t], frame[t], clock)
    BY <1>1 DEF OrdersHold, Backed
  <1>4. o[3] \in Nat
    BY <1>2
  <1>5. ASSUME NEW label \in WithVerdict, NEW f, Backs(o, label, f, clock)
        PROVE  Backed(label, f, orders, clock)
    BY <1>5 DEF Backed, WithVerdict, AddLabels, DecideLabels
  <1>6. CASE DecideLock(t)
    <2>1. Backs(o, "decide.read", frame[t], clock)
      BY <1>3 DEF Backs
    <2> QED
      BY <1>5, <1>6, <2>1, GotoBacked DEF DecideLock, WithVerdict, DecideLabels
  <1>7. CASE DecideRead(t)
    <2>1. CASE Return(t)
      BY <1>7, <2>1, ReturnBacked DEF DecideRead
    <2>2. CASE /\ frame' = [frame EXCEPT ![t].rec = files[frame[t].id]]
               /\ Goto(t, "decide.check")
      <3> DEFINE f == [frame[t] EXCEPT !.rec = files[frame[t].id]]
      <3>1. f.id = frame[t].id /\ f.verdict = frame[t].verdict
        BY <1>2 DEF Frame
      <3>2. pc' = [pc EXCEPT ![t] = "decide.check"] /\ frame' = [frame EXCEPT ![t] = f]
        BY <2>2 DEF Goto
      <3> HIDE DEF f
      <3>3. Backs(o, "decide.check", f, clock)
        BY <1>3, <3>1 DEF Backs
      <3>4. Backed("decide.check", f, orders, clock)
        BY <1>5, <3>3 DEF WithVerdict, DecideLabels
      <3> QED
        BY <1>7, <3>2, <3>4, ThreadBacked DEF DecideRead
    <2> QED
      BY <1>7, <2>1, <2>2 DEF DecideRead
  <1>8. CASE DecideCheck(t)
    <2>1. CASE Return(t)
      BY <1>8, <2>1, ReturnBacked DEF DecideCheck
    <2>2. CASE /\ Decidable(frame[t].rec, clock)
               /\ Goto(t, "decide.stamp")
               /\ UNCHANGED <<mu, frame>>
      <3>1. frame[t].rec \in Request
        BY <1>2, <1>8 DEF DecideCheck, FrameFits, WithRec
      <3>2. frame[t].rec.expires # None =>
              frame[t].rec.expires \in Nat /\ clock <= frame[t].rec.expires
        <4>1. frame[t].rec.expires \in Nat \cup {None}
          BY <3>1 DEF Request, Fields, OptTime
        <4>2. frame[t].rec.expires # None => ~(clock > frame[t].rec.expires)
          BY <2>2 DEF Decidable, StatusAt
        <4> QED
          BY <1>2, <4>1, <4>2
      <3>3. Backs(o, "decide.stamp", frame[t], clock)
        BY <1>2, <1>3, <1>4, <3>2 DEF Backs
      <3>4. Backed("decide.stamp", frame[t], orders, clock)
        BY <1>5, <3>3 DEF WithVerdict, DecideLabels
      <3> QED
        BY <1>8, <2>2, <3>4, GotoBacked DEF DecideCheck
    <2> QED
      BY <1>8, <2>1, <2>2 DEF DecideCheck
  <1>9. CASE DecideStamp(t)
    <2> DEFINE r == Resolved(frame[t].rec, frame[t].verdict, frame[t].note, clock)
               f == [frame[t] EXCEPT !.rec = r]
    <2>1. /\ frame[t].rec \in Request
          /\ frame[t].verdict \in Verdicts
          /\ frame[t].note \in AnyReason
          /\ clock \in Nat
      BY <1>1, <1>2, <1>9 DEF DecideStamp, FrameFits, WithRec, Frame
    <2>2. /\ r.status = frame[t].verdict
          /\ r.decidedAt = clock
          /\ r.expires = frame[t].rec.expires
      BY <2>1, ResolvedType
    <2> HIDE DEF r
    <2>3. f.rec = r /\ f.id = frame[t].id /\ f.verdict = frame[t].verdict
      BY <1>2 DEF Frame
    <2>4. pc' = [pc EXCEPT ![t] = "decide.write"] /\ frame' = [frame EXCEPT ![t] = f]
      BY <1>9 DEF DecideStamp, Goto, r
    <2> HIDE DEF f
    <2>5. Backs(o, "decide.write", f, clock)
      BY <1>3, <1>9, <2>2, <2>3 DEF DecideStamp, Backs
    <2>6. Backed("decide.write", f, orders, clock)
      BY <1>5, <2>5 DEF WithVerdict, DecideLabels
    <2> QED
      BY <1>9, <2>4, <2>6, ThreadBacked DEF DecideStamp
  <1>10. CASE DecideWrite(t)
    <2>1. Backed("log.decision", frame[t], orders, clock)
      BY DEF Backed, WithVerdict, AddLabels, DecideLabels
    <2> QED
      BY <1>10, <2>1, GotoBacked DEF DecideWrite
  <1>11. CASE DecideWriteFails(t)
    BY <1>11, ReturnBacked DEF DecideWriteFails
  <1> QED
    BY <1>6, <1>7, <1>8, <1>9, <1>10, <1>11

LEMMA OtherBacked ==
  ASSUME TypeInv, OrdersHold, NEW t \in Threads,
         \/ LogSubmitted(t) \/ LogAuto(t) \/ LogDecision(t) \/ LogFails(t) \/ LogFailsLate(t)
         \/ PollRead(t) \/ PollCheck(t) \/ PollRemain(t) \/ PollWake(t)
  PROVE  OrdersHold'
  <1>1. ASSUME NEW label \in {"idle", "log.auto", "poll.read", "poll.check",
                              "poll.remain", "poll.sleep"},
               NEW f, orders' = orders, clock' = clock,
               pc' = [pc EXCEPT ![t] = label], frame' = [frame EXCEPT ![t] = f]
        PROVE  OrdersHold'
    <2>1. Backed(label, f, orders', clock)
      BY DEF Backed, WithVerdict, AddLabels, DecideLabels
    <2> QED
      BY <1>1, <2>1, ThreadBacked
  <1>2. frame = [frame EXCEPT ![t] = frame[t]]
    BY DEF TypeInv, TypeOK
  <1>3. PICK f : frame' = [frame EXCEPT ![t] = f]
    BY <1>2 DEF LogSubmitted, LogAuto, LogDecision, LogFails, LogFailsLate, AnswerSubmit, PollRead,
                PollCheck, PollRemain, PollWake, Return
  <1> QED
    BY <1>1, <1>3 DEF LogSubmitted, LogAuto, LogDecision, LogFails, LogFailsLate, AnswerSubmit,
                      PollRead, PollCheck, PollRemain, PollWake, Return, Goto

LEMMA NextOrdersHold == TypeInv /\ OrdersHold /\ [Next]_vars => OrdersHold'
  <1> SUFFICES ASSUME TypeInv, OrdersHold, [Next]_vars PROVE OrdersHold'
    OBVIOUS
  <1>1. ASSUME NEW t \in Threads, Begin(t) \/ Step(t) PROVE OrdersHold'
    BY <1>1, BeginBacked, AddBacked, DecideBacked, OtherBacked DEF Step
  <1>2. ASSUME NEW s \in Crashable, Crash(s) PROVE OrdersHold'
    <2>1. ASSUME NEW u \in Threads PROVE Backed(pc'[u], frame'[u], orders, clock)
      <3>1. CASE u \in InProcess(s)
        BY <1>2, <3>1 DEF Crash, Backed, WithVerdict, AddLabels, DecideLabels
      <3>2. CASE u \notin InProcess(s)
        BY <1>2, <3>2 DEF Crash, OrdersHold
      <3> QED
        BY <3>1, <3>2
    <2> QED
      BY <1>2, <2>1 DEF Crash, OrdersHold, Backed, Backs
  <1>3. ASSUME Tick PROVE OrdersHold'
    <2>1. ASSUME NEW u \in Threads PROVE Backed(pc[u], frame[u], orders, clock + 1)
      <3>1. Backed(pc[u], frame[u], orders, clock)
        BY DEF OrdersHold
      <3> QED
        BY <3>1, BackedLasts DEF TypeInv, TypeOK
    <2> QED
      BY <1>3, <2>1 DEF Tick, OrdersHold, Backed, Backs
  <1>4. ASSUME UNCHANGED vars PROVE OrdersHold'
    BY <1>4 DEF vars, OrdersHold, Backed, Backs
  <1> QED
    BY <1>1, <1>2, <1>3, <1>4 DEF Next

-----------------------------------------------------------------------------
OrderedBy(r, id, asked) ==
  Decided(r) /\ r.decidedBy = "human" =>
    \E o \in asked : /\ o[1] = id
                     /\ o[2] = r.status
                     /\ o[3] <= r.decidedAt
                     /\ r.expires # None => o[3] <= r.expires

LEMMA NextAuthority ==
  TypeInv /\ OrdersHold /\ Authority /\ [Next]_vars => Authority'
  <1> SUFFICES ASSUME TypeInv, OrdersHold, Authority, [Next]_vars,
                      NEW id \in Ids, files'[id] # None
               PROVE  OrderedBy(files'[id], id, orders')
    BY DEF Authority, Settled, Exists, OrderedBy
  <1>1. orders \subseteq orders'
    BY DEF Next, Begin, Step, BeginSubmit, BeginDecide, BeginPoll, AddLock, AddStat,
           AddWrite, AddWriteFails, LogSubmitted, LogAuto, LogDecision, LogFails, LogFailsLate,
           DecideLock, DecideRead, DecideCheck, DecideStamp, DecideWrite,
           DecideWriteFails, PollRead, PollCheck, PollRemain, PollWake, Crash, Tick, vars
  <1>2. CASE files'[id] = files[id]
    BY <1>1, <1>2 DEF Authority, Settled, Exists, OrderedBy
  <1>3. CASE files'[id] # files[id]
    <2>1. PICK t \in Threads : AddWrite(t) \/ DecideWrite(t)
      BY <1>3
      DEF Next, Begin, Step, BeginSubmit, BeginDecide, BeginPoll, AddLock, AddStat,
          AddWriteFails, LogSubmitted, LogAuto, LogDecision, LogFails, LogFailsLate, DecideLock,
          DecideRead, DecideCheck, DecideStamp, DecideWriteFails, PollRead, PollCheck,
          PollRemain, PollWake, Crash, Tick, vars
    <2>2. id = frame[t].id /\ files'[id] = frame[t].rec
      BY <1>3, <2>1 DEF AddWrite, DecideWrite, TypeInv, TypeOK
    <2>3. Backed(pc[t], frame[t], orders, clock)
      BY DEF OrdersHold
    <2>4. CASE AddWrite(t)
      BY <2>2, <2>3, <2>4 DEF AddWrite, Backed, AddLabels, OrderedBy
    <2>5. CASE DecideWrite(t)
      <3>1. PICK o \in orders : Backs(o, "decide.write", frame[t], clock)
        BY <2>3, <2>5 DEF DecideWrite, Backed, WithVerdict, DecideLabels
      <3> QED
        BY <1>1, <2>2, <3>1 DEF Backs, OrderedBy
    <2> QED
      BY <2>1, <2>4, <2>5
  <1> QED
    BY <1>2, <1>3

\* Authority: whichever processes share the inbox, and whatever crashes or fails, a
\* human decision on disk was asked for, for this request, before it expired.
THEOREM HumansDecide == Spec => []Authority
  <1>1. Init => AuthorityInv
    BY InitTypeInv
    DEF Init, AuthorityInv, OrdersHold, Backed, WithVerdict, AddLabels, DecideLabels,
        Authority, Settled, Exists
  <1>2. AuthorityInv /\ [Next]_vars => AuthorityInv'
    BY NextTypeInv, NextOrdersHold, NextAuthority DEF AuthorityInv
  <1>3. AuthorityInv => Authority
    BY DEF AuthorityInv
  <1> QED
    BY <1>1, <1>2, <1>3, PTL DEF Spec

=============================================================================
