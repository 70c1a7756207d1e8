---------------------------- MODULE InboxFinality ----------------------------
(***************************************************************************)
(* With one Store, a decision is final.  The argument: Store.mu serializes *)
(* the read-check-write of Add and of Decide, so what a thread read under  *)
(* it is still on disk when it writes (ReadsHold); a write therefore only  *)
(* ever replaces no file, or a pending record.  From there: answers and    *)
(* log lines are true, and the whole implements ApprovalQueue.             *)
(*                                                                         *)
(* Then what the audit log has and lacks.  With one Store no request gets  *)
(* two decision lines: whoever makes a request a decided one is the only   *)
(* one to announce it.  With any number of Stores a decision without its   *)
(* line has a cause: its writer has not come to it yet, failed or died.    *)
(***************************************************************************)
EXTENDS InboxProofs

FinalInv == TypeInv /\ MutexOK /\ ReadsHold

LEMMA InitFinalInv == Init => FinalInv
  <1> SUFFICES ASSUME Init PROVE FinalInv
    OBVIOUS
  <1>1. MutexOK
    BY DEF Init, MutexOK, Locked, AddLabels, DecideLabels
  <1>2. ReadsHold
    BY DEF Init, ReadsHold, ReadFits, LogLabels
  <1> QED
    BY <1>1, <1>2, InitTypeInv DEF FinalInv

-----------------------------------------------------------------------------
\* The mutex: whoever is between Lock and Unlock holds the Store's.

LEMMA MutexStep == TypeInv /\ MutexOK /\ [Next]_vars => MutexOK'
  <1> SUFFICES ASSUME TypeInv, MutexOK, [Next]_vars PROVE MutexOK'
    OBVIOUS
  <1> USE StoreAssumption DEF TypeInv, TypeOK
  <1>1. ASSUME NEW t \in Threads, NEW label,
               pc' = [pc EXCEPT ![t] = label], mu' = mu,
               label \in Locked => pc[t] \in Locked
        PROVE  MutexOK'
    BY <1>1 DEF MutexOK
  <1>2. ASSUME NEW t \in Threads, NEW label, Lock(t), Goto(t, label)
        PROVE  MutexOK'
    BY <1>2, NoneAssumption DEF MutexOK, Lock, MutexFree, Goto
  <1>3. ASSUME NEW t \in Threads, NEW label, Unlock(t), Goto(t, label),
               pc[t] \in Locked, label \notin Locked
        PROVE  MutexOK'
    BY <1>3 DEF MutexOK, Unlock, Goto
  <1>4. /\ "idle" \notin Locked /\ "add.lock" \notin Locked /\ "decide.lock" \notin Locked
        /\ "poll.read" \notin Locked /\ "poll.check" \notin Locked
        /\ "poll.remain" \notin Locked /\ "poll.sleep" \notin Locked
        /\ "log.submitted" \notin Locked /\ "log.auto" \notin Locked
        /\ "log.decision" \notin Locked
        /\ "add.stat" \in Locked /\ "add.write" \in Locked
        /\ "decide.read" \in Locked /\ "decide.check" \in Locked
        /\ "decide.stamp" \in Locked /\ "decide.write" \in Locked
    BY DEF Locked, AddLabels, DecideLabels
  <1>5. ASSUME NEW t \in Threads, Begin(t) PROVE MutexOK'
    BY <1>1, <1>4, <1>5 DEF Begin, BeginSubmit, BeginDecide, BeginPoll, Goto
  <1>6. ASSUME NEW t \in Threads, AddLock(t) \/ DecideLock(t) PROVE MutexOK'
    BY <1>2, <1>6 DEF AddLock, DecideLock
  <1>7. ASSUME NEW t \in Threads,
               AddStat(t) \/ AddWrite(t) \/ AddWriteFails(t)
        PROVE  MutexOK'
    BY <1>1, <1>3, <1>4, <1>7 DEF AddStat, AddWrite, AddWriteFails, Return, Goto
  <1>8. ASSUME NEW t \in Threads,
               \/ LogSubmitted(t) \/ LogAuto(t) \/ LogDecision(t)
               \/ LogFails(t) \/ LogFailsLate(t)
        PROVE  MutexOK'
    BY <1>1, <1>4, <1>8 DEF LogSubmitted, LogAuto, LogDecision, LogFails, LogFailsLate,
                            AnswerSubmit, Return, Goto
  <1>9. ASSUME NEW t \in Threads,
               DecideRead(t) \/ DecideCheck(t) \/ DecideStamp(t)
        PROVE  MutexOK'
    BY <1>1, <1>3, <1>4, <1>9 DEF DecideRead, DecideCheck, DecideStamp, Return, Goto
  <1>10. ASSUME NEW t \in Threads, DecideWrite(t) \/ DecideWriteFails(t)
         PROVE  MutexOK'
    BY <1>3, <1>4, <1>10 DEF DecideWrite, DecideWriteFails, Return, Goto
  <1>11. ASSUME NEW t \in Threads,
                PollRead(t) \/ PollCheck(t) \/ PollRemain(t) \/ PollWake(t)
         PROVE  MutexOK'
    BY <1>1, <1>4, <1>11 DEF PollRead, PollCheck, PollRemain, PollWake, Return, Goto
  <1>12. ASSUME NEW s \in Crashable, Crash(s) PROVE MutexOK'
    BY <1>4, <1>12 DEF MutexOK, Crash, InProcess
  <1>13. CASE Tick \/ UNCHANGED vars
    BY <1>13 DEF MutexOK, Tick, vars
  <1> QED
    BY <1>5, <1>6, <1>7, <1>8, <1>9, <1>10, <1>11, <1>12, <1>13 DEF Next, Step

-----------------------------------------------------------------------------
\* What was read is still there: files change only under the one mutex.

LEMMA ReadMoves ==
  ASSUME FinalInv, NEW t \in Threads, NEW label, NEW f,
         pc' = [pc EXCEPT ![t] = label], frame' = [frame EXCEPT ![t] = f],
         files' = files, ReadFits(label, f.rec, files[f.id])
  PROVE  ReadsHold'
  <1>1. ASSUME NEW u \in Threads
        PROVE  ReadFits(pc'[u], frame'[u].rec, files'[frame'[u].id])
    <2>1. CASE u = t
      BY <2>1 DEF FinalInv, TypeInv, TypeOK
    <2>2. CASE u # t
      BY <2>2 DEF FinalInv, TypeInv, TypeOK, ReadsHold
    <2> QED
      BY <2>1, <2>2
  <1> QED
    BY <1>1 DEF ReadsHold, ReadFits

LEMMA ReturnReads ==
  ASSUME FinalInv, NEW t \in Threads, Return(t), files' = files
  PROVE  ReadsHold'
  <1>1. ReadFits("idle", NoFrame.rec, files[NoFrame.id])
    BY DEF ReadFits, LogLabels
  <1> QED
    BY <1>1, ReadMoves DEF Return, Goto

LEMMA GotoReads ==
  ASSUME FinalInv, NEW t \in Threads, NEW label, Goto(t, label), frame' = frame,
         files' = files, ReadFits(label, frame[t].rec, files[frame[t].id])
  PROVE  ReadsHold'
  <1>1. frame' = [frame EXCEPT ![t] = frame[t]]
    BY DEF FinalInv, TypeInv, TypeOK
  <1> QED
    BY <1>1, ReadMoves DEF Goto

\* Nobody else can be in a critical section of the one Store.
LEMMA Alone ==
  ASSUME FinalInv, OneStore, NEW t \in Threads, NEW u \in Threads,
         pc[t] \in Locked, pc[u] \in Locked
  PROVE  t = u
  BY DEF FinalInv, MutexOK, OneStore

\* A write replaces no file, or a pending record, by a record.
LEMMA WriteReplaces ==
  ASSUME FinalInv, NEW t \in Threads, AddWrite(t) \/ DecideWrite(t)
  PROVE  /\ frame[t].id \in Ids
         /\ frame[t].rec \in Request
         /\ files[frame[t].id] = None \/ files[frame[t].id].status = "pending"
         /\ ~Settled(frame[t].id)
         /\ files' = [files EXCEPT ![frame[t].id] = frame[t].rec]
         /\ pc[t] \in Locked
  <1>1. pc[t] \in {"add.write", "decide.write"}
    BY DEF AddWrite, DecideWrite
  <1>2. frame[t].id \in Ids /\ frame[t].rec \in Request
    BY <1>1 DEF FinalInv, TypeInv, FramesOK, FrameFits, WithId, WithRec, Labels,
                AddLabels, DecideLabels
  <1>3. files[frame[t].id] = None \/ files[frame[t].id].status = "pending"
    BY <1>1 DEF FinalInv, ReadsHold, ReadFits
  <1> QED
    BY <1>1, <1>2, <1>3
    DEF AddWrite, DecideWrite, Settled, Exists, Decided, Verdicts, Locked, AddLabels,
        DecideLabels

LEMMA WriteReads ==
  ASSUME FinalInv, OneStore, NEW t \in Threads, AddWrite(t) \/ DecideWrite(t)
  PROVE  ReadsHold'
  <1> DEFINE id == frame[t].id
  <1>1. /\ id \in Ids
        /\ frame[t].rec \in Request
        /\ files[id] = None \/ files[id].status = "pending"
        /\ files' = [files EXCEPT ![id] = frame[t].rec]
        /\ pc[t] \in Locked
    BY WriteReplaces
  <1>2. frame' = frame /\ pc' \in {[pc EXCEPT ![t] = l] : l \in LogLabels}
    BY DEF AddWrite, DecideWrite, Goto, LogLabels
  <1>3. frame[t].rec # None /\ files'[id] = frame[t].rec
    BY <1>1, RecordAssumption DEF FinalInv, TypeInv, TypeOK
  <1>4. ASSUME NEW u \in Threads
        PROVE  ReadFits(pc'[u], frame'[u].rec, files'[frame'[u].id])
    <2>1. CASE u = t
      <3>1. pc'[u] \in LogLabels /\ frame'[u] = frame[t]
        BY <1>2, <2>1 DEF FinalInv, TypeInv, TypeOK
      <3> QED
        BY <1>3, <2>1, <3>1 DEF ReadFits, LogLabels
    <2>2. CASE u # t /\ frame[u].id = id
      <3>1. pc'[u] = pc[u] /\ pc[u] \notin Locked
        BY <1>1, <1>2, <2>2, Alone DEF FinalInv, TypeInv, TypeOK
      <3>2. ReadFits(pc[u], frame[u].rec, files[id])
        BY <2>2 DEF FinalInv, ReadsHold
      <3> QED
        BY <1>1, <1>2, <1>3, <2>2, <3>1, <3>2
        DEF ReadFits, Decided, Verdicts, Locked, AddLabels, DecideLabels
    <2>3. CASE u # t /\ frame[u].id # id
      <3>1. pc'[u] = pc[u] /\ files'[frame[u].id] = files[frame[u].id]
        BY <1>1, <1>2, <2>3 DEF FinalInv, TypeInv, TypeOK
      <3> QED
        BY <1>2, <3>1 DEF FinalInv, ReadsHold
    <2> QED
      BY <2>1, <2>2, <2>3
  <1> QED
    BY <1>4 DEF ReadsHold, ReadFits

LEMMA AnswerSubmitReads ==
  ASSUME FinalInv, NEW t \in Threads, AnswerSubmit(t), files' = files
  PROVE  ReadsHold'
  <1>1. CASE Return(t)
    BY <1>1, ReturnReads
  <1>2. CASE /\ frame' = [frame EXCEPT ![t] =
                  [NoFrame EXCEPT !.id = frame[t].id,
                                  !.deadline = clock + frame[t].timeout]]
             /\ Goto(t, "poll.read")
    <2> DEFINE f == [NoFrame EXCEPT !.id = frame[t].id,
                                    !.deadline = clock + frame[t].timeout]
    <2>1. ReadFits("poll.read", f.rec, files[f.id])
      BY DEF ReadFits, LogLabels
    <2> HIDE DEF f
    <2>2. pc' = [pc EXCEPT ![t] = "poll.read"]
      BY <1>2 DEF Goto
    <2>3. frame' = [frame EXCEPT ![t] = f]
      BY <1>2 DEF f
    <2> QED
      BY <2>1, <2>2, <2>3, ReadMoves
  <1> QED
    BY <1>1, <1>2 DEF AnswerSubmit

LEMMA BeginReads ==
  ASSUME FinalInv, NEW t \in Threads, Begin(t)
  PROVE  ReadsHold'
  <1>1. PICK label \in {"add.lock", "decide.lock", "poll.read"} :
          pc' = [pc EXCEPT ![t] = label]
    BY DEF Begin, BeginSubmit, BeginDecide, BeginPoll, Goto
  <1>2. PICK f : frame' = [frame EXCEPT ![t] = f]
    BY DEF Begin, BeginSubmit, BeginDecide, BeginPoll
  <1>3. files' = files
    BY DEF Begin, BeginSubmit, BeginDecide, BeginPoll
  <1>4. ReadFits(label, f.rec, files[f.id])
    BY DEF ReadFits, LogLabels
  <1> QED
    BY <1>1, <1>2, <1>3, <1>4, ReadMoves

LEMMA AddReads ==
  ASSUME FinalInv, NEW t \in Threads, AddLock(t) \/ AddStat(t) \/ AddWriteFails(t)
  PROVE  ReadsHold'
  <1>1. CASE AddLock(t)
    <2>1. ReadFits("add.stat", frame[t].rec, files[frame[t].id])
      BY DEF ReadFits, LogLabels
    <2> QED
      BY <1>1, <2>1, GotoReads DEF AddLock
  <1>2. CASE AddStat(t)
    <2>1. CASE Return(t)
      BY <1>2, <2>1, ReturnReads DEF AddStat
    <2>2. ASSUME NEW id \in NewIds, ~Taken(id),
                 frame' = [frame EXCEPT ![t].id = id], Goto(t, "add.write")
          PROVE  ReadsHold'
      <3> DEFINE f == [frame[t] EXCEPT !.id = id]
      <3>1. f.id = id
        BY DEF FinalInv, TypeInv, TypeOK, Frame
      <3>2. ReadFits("add.write", f.rec, files[f.id])
        BY <2>2, <3>1 DEF ReadFits, Taken, LogLabels
      <3>3. pc' = [pc EXCEPT ![t] = "add.write"] /\ frame' = [frame EXCEPT ![t] = f]
        BY <2>2 DEF Goto
      <3> HIDE DEF f
      <3> QED
        BY <1>2, <3>2, <3>3, ReadMoves DEF AddStat
    <2> QED
      BY <1>2, <2>1, <2>2 DEF AddStat
  <1>3. CASE AddWriteFails(t)
    BY <1>3, ReturnReads DEF AddWriteFails
  <1> QED
    BY <1>1, <1>2, <1>3

LEMMA LogReads ==
  ASSUME FinalInv, NEW t \in Threads,
         LogSubmitted(t) \/ LogAuto(t) \/ LogDecision(t) \/ LogFails(t) \/ LogFailsLate(t)
  PROVE  ReadsHold'
  <1>1. CASE LogSubmitted(t)
    <2>1. CASE Goto(t, "log.auto") /\ UNCHANGED <<frame, told>>
      <3>1. ReadFits("log.auto", frame[t].rec, files[frame[t].id])
        BY <1>1 DEF LogSubmitted, FinalInv, ReadsHold, ReadFits, LogLabels
      <3> QED
        BY <1>1, <2>1, <3>1, GotoReads DEF LogSubmitted
    <2>2. CASE AnswerSubmit(t)
      BY <1>1, <2>2, AnswerSubmitReads DEF LogSubmitted
    <2> QED
      BY <1>1, <2>1, <2>2 DEF LogSubmitted
  <1>2. CASE LogAuto(t)
    BY <1>2, AnswerSubmitReads DEF LogAuto
  <1>3. CASE LogDecision(t)
    BY <1>3, ReturnReads DEF LogDecision
  <1>4. CASE LogFails(t) \/ LogFailsLate(t)
    BY <1>4, ReturnReads DEF LogFails, LogFailsLate
  <1> QED
    BY <1>1, <1>2, <1>3, <1>4

LEMMA DecideReads ==
  ASSUME FinalInv, NEW t \in Threads,
         \/ DecideLock(t) \/ DecideRead(t) \/ DecideCheck(t)
         \/ DecideStamp(t) \/ DecideWriteFails(t)
  PROVE  ReadsHold'
  <1>0. /\ frame[t] \in Frame
        /\ ReadFits(pc[t], frame[t].rec, files[frame[t].id])
    BY DEF FinalInv, TypeInv, TypeOK, ReadsHold
  <1>1. CASE DecideLock(t)
    <2>1. ReadFits("decide.read", frame[t].rec, files[frame[t].id])
      BY DEF ReadFits, LogLabels
    <2> QED
      BY <1>1, <2>1, GotoReads DEF DecideLock
  <1>2. CASE DecideRead(t)
    <2>1. CASE Return(t)
      BY <1>2, <2>1, ReturnReads DEF DecideRead
    <2>2. CASE /\ files[frame[t].id] # None
               /\ frame' = [frame EXCEPT ![t].rec = files[frame[t].id]]
               /\ Goto(t, "decide.check")
      <3> DEFINE f == [frame[t] EXCEPT !.rec = files[frame[t].id]]
      <3>1. f.id = frame[t].id /\ f.rec = files[frame[t].id]
        BY <1>0 DEF Frame
      <3>2. ReadFits("decide.check", f.rec, files[f.id])
        BY <2>2, <3>1 DEF ReadFits, LogLabels
      <3>3. pc' = [pc EXCEPT ![t] = "decide.check"] /\ frame' = [frame EXCEPT ![t] = f]
        BY <2>2 DEF Goto
      <3> HIDE DEF f
      <3> QED
        BY <1>2, <3>2, <3>3, ReadMoves DEF DecideRead
    <2> QED
      BY <1>2, <2>1, <2>2 DEF DecideRead
  <1>3. CASE DecideCheck(t)
    <2>1. CASE Return(t)
      BY <1>3, <2>1, ReturnReads DEF DecideCheck
    <2>2. CASE /\ Decidable(frame[t].rec, clock)
               /\ Goto(t, "decide.stamp")
               /\ UNCHANGED <<mu, frame>>
      <3>1. frame[t].rec.status = "pending"
        BY <2>2 DEF Decidable, StatusAt
      <3>2. ReadFits("decide.stamp", frame[t].rec, files[frame[t].id])
        BY <1>0, <1>3, <3>1 DEF DecideCheck, ReadFits, LogLabels
      <3> QED
        BY <1>3, <2>2, <3>2, GotoReads DEF DecideCheck
    <2> QED
      BY <1>3, <2>1, <2>2 DEF DecideCheck
  <1>4. CASE DecideStamp(t)
    <2> DEFINE f == [frame[t] EXCEPT !.rec = Resolved(frame[t].rec, frame[t].verdict,
                                                      frame[t].note, clock)]
    <2>1. f.id = frame[t].id
      BY <1>0 DEF Frame
    <2>2. ReadFits("decide.write", f.rec, files[f.id])
      BY <1>0, <1>4, <2>1 DEF DecideStamp, ReadFits, LogLabels
    <2>3. pc' = [pc EXCEPT ![t] = "decide.write"] /\ frame' = [frame EXCEPT ![t] = f]
      BY <1>4 DEF DecideStamp, Goto
    <2> HIDE DEF f
    <2> QED
      BY <1>4, <2>2, <2>3, ReadMoves DEF DecideStamp
  <1>5. CASE DecideWriteFails(t)
    BY <1>5, ReturnReads DEF DecideWriteFails
  <1> QED
    BY <1>1, <1>2, <1>3, <1>4, <1>5

LEMMA PollReads ==
  ASSUME FinalInv, NEW t \in Threads,
         PollRead(t) \/ PollCheck(t) \/ PollRemain(t) \/ PollWake(t)
  PROVE  ReadsHold'
  <1>1. CASE PollRead(t)
    <2>1. CASE Return(t)
      BY <1>1, <2>1, ReturnReads DEF PollRead
    <2>2. CASE /\ files[frame[t].id] # None
               /\ frame' = [frame EXCEPT ![t].rec = files[frame[t].id]]
               /\ Goto(t, "poll.check")
      <3> DEFINE f == [frame[t] EXCEPT !.rec = files[frame[t].id]]
      <3>1. f.id = frame[t].id /\ f.rec = files[frame[t].id]
        BY DEF FinalInv, TypeInv, TypeOK, Frame
      <3>2. ReadFits("poll.check", f.rec, files[f.id])
        BY <2>2, <3>1 DEF ReadFits, LogLabels
      <3>3. pc' = [pc EXCEPT ![t] = "poll.check"] /\ frame' = [frame EXCEPT ![t] = f]
        BY <2>2 DEF Goto
      <3> HIDE DEF f
      <3> QED
        BY <1>1, <3>2, <3>3, ReadMoves DEF PollRead
    <2> QED
      BY <1>1, <2>1, <2>2 DEF PollRead
  <1>2. ASSUME NEW label \in {"poll.read", "poll.remain", "poll.sleep"}, NEW f,
               pc' = [pc EXCEPT ![t] = label], frame' = [frame EXCEPT ![t] = f],
               files' = files
        PROVE  ReadsHold'
    <2>1. ReadFits(label, f.rec, files[f.id])
      BY <1>2 DEF ReadFits, LogLabels
    <2> QED
      BY <1>2, <2>1, ReadMoves
  <1>3. frame = [frame EXCEPT ![t] = frame[t]]
    BY DEF FinalInv, TypeInv, TypeOK
  <1>4. CASE PollCheck(t)
    BY <1>2, <1>3, <1>4, ReturnReads DEF PollCheck, Goto
  <1>5. CASE PollRemain(t)
    BY <1>2, <1>5, ReturnReads DEF PollRemain, Goto
  <1>6. CASE PollWake(t)
    BY <1>2, <1>3, <1>6 DEF PollWake, Goto
  <1> QED
    BY <1>1, <1>4, <1>5, <1>6

LEMMA CrashReads ==
  ASSUME FinalInv, NEW s \in Crashable, Crash(s)
  PROVE  ReadsHold'
  <1>1. ASSUME NEW u \in Threads
        PROVE  ReadFits(pc'[u], frame'[u].rec, files'[frame'[u].id])
    <2>1. CASE u \in InProcess(s)
      BY <2>1 DEF Crash, ReadFits, LogLabels
    <2>2. CASE u \notin InProcess(s)
      BY <2>2 DEF Crash, FinalInv, ReadsHold
    <2> QED
      BY <2>1, <2>2
  <1> QED
    BY <1>1 DEF ReadsHold, ReadFits

LEMMA NextFinalInv == OneStore /\ FinalInv /\ [Next]_vars => FinalInv'
  <1> SUFFICES ASSUME OneStore, FinalInv, [Next]_vars PROVE FinalInv'
    OBVIOUS
  <1>1. ASSUME NEW t \in Threads, Begin(t) \/ Step(t) PROVE ReadsHold'
    BY <1>1, BeginReads, AddReads, LogReads, DecideReads, WriteReads, PollReads DEF Step
  <1>2. ASSUME NEW s \in Crashable, Crash(s) PROVE ReadsHold'
    BY <1>2, CrashReads
  <1>3. ASSUME Tick \/ UNCHANGED vars PROVE ReadsHold'
    BY <1>3 DEF Tick, vars, FinalInv, ReadsHold, ReadFits
  <1>4. ReadsHold'
    BY <1>1, <1>2, <1>3 DEF Next
  <1> QED
    BY <1>4, NextTypeInv, MutexStep DEF FinalInv

LEMMA Finality ==
  ASSUME OneStore
  PROVE  Spec => []FinalInv
  <1>1. FinalInv /\ [Next]_vars => FinalInv'
    BY NextFinalInv
  <1> QED
    BY <1>1, InitFinalInv, PTL DEF Spec

-----------------------------------------------------------------------------
LEMMA StepFinal ==
  FinalInv /\ [Next]_vars => \A id \in Ids : Settled(id) => files'[id] = files[id]
  <1> SUFFICES ASSUME FinalInv, [Next]_vars, NEW id \in Ids, Settled(id)
               PROVE  files'[id] = files[id]
    OBVIOUS
  <1>1. ASSUME NEW t \in Threads, AddWrite(t) \/ DecideWrite(t)
        PROVE  files'[id] = files[id]
    <2>1. id # frame[t].id
      BY <1>1, WriteReplaces
    <2> QED
      BY <1>1, <2>1, WriteReplaces DEF FinalInv, TypeInv, TypeOK
  <1>2. ASSUME NEW t \in Threads, Begin(t) \/ Step(t), ~AddWrite(t), ~DecideWrite(t)
        PROVE  files' = files
    BY <1>2
    DEF Begin, Step, BeginSubmit, BeginDecide, BeginPoll, AddLock, AddStat, AddWriteFails,
        LogSubmitted, LogAuto, LogDecision, LogFails, LogFailsLate, DecideLock, DecideRead,
        DecideCheck, DecideStamp, DecideWriteFails, PollRead, PollCheck, PollRemain, PollWake
  <1>3. ASSUME NEW s \in Crashable, Crash(s) PROVE files' = files
    BY <1>3 DEF Crash
  <1>4. ASSUME Tick \/ UNCHANGED vars PROVE files' = files
    BY <1>4 DEF Tick, vars
  <1> QED
    BY <1>1, <1>2, <1>3, <1>4 DEF Next

\* Finality: with one Store, and in spite of failing writes, crashes and ids drawn
\* twice, the record of a decided request never changes again.
THEOREM DecisionsAreFinal ==
  ASSUME OneStore
  PROVE  Spec => DecisionFinal
  <1>1. FinalInv /\ [Next]_vars =>
          [\A id \in Ids : Settled(id) => files'[id] = files[id]]_vars
    BY StepFinal
  <1> QED
    BY <1>1, Finality, PTL DEF Spec, DecisionFinal

\* One Store is one critical section: the frames of the handlers agree with their
\* program counters, only the owner of the mutex is inside it, and what a handler
\* read under the mutex (Get in Decide, the free id in Add) is still what is filed.
THEOREM StoreInvariant ==
  ASSUME OneStore
  PROVE  Spec => []OneStoreInv
  <1>1. FinalInv => OneStoreInv
    BY DEF FinalInv, TypeInv, OneStoreInv
  <1> QED
    BY <1>1, Finality, PTL

-----------------------------------------------------------------------------
(***************************************************************************)
(* With one Store, what callers are answered and what the audit log says   *)
(* agree with the records, now and from then on.  Both follow from         *)
(* finality: an answer or a line is right when it is given, because the    *)
(* frame it is taken from still equals the file (ReadsHold), and it stays  *)
(* right because the file no longer changes.                               *)
(***************************************************************************)

\* The frame of a thread at poll.check or about to log, if decided, is the file.
LEMMA FrameIsFile ==
  ASSUME FinalInv, NEW t \in Threads, pc[t] \in {"poll.check"} \cup LogLabels,
         Decided(frame[t].rec)
  PROVE  /\ frame[t].id \in Ids
         /\ Settled(frame[t].id)
         /\ files[frame[t].id] = frame[t].rec
  <1>1. files[frame[t].id] # None /\ files[frame[t].id] = frame[t].rec
    BY DEF FinalInv, ReadsHold, ReadFits
  <1>2. frame[t].id \in Ids
    BY DEF FinalInv, TypeInv, FramesOK, FrameFits, WithId, LogLabels, Labels
  <1> QED
    BY <1>1, <1>2 DEF Settled, Exists

RightAnswer(a) == Exists(a[1]) /\ files[a[1]].status = a[2]

LEMMA AnswerIsRight ==
  ASSUME NEW id, NEW status, Answer(id, status),
         status \in Verdicts => Exists(id) /\ files[id].status = status
  PROVE  \A a \in told' : a \in told \/ (a[2] \in Verdicts => RightAnswer(a))
  BY DEF Answer, RightAnswer

LEMMA NewAnswersRight ==
  ASSUME FinalInv, [Next]_vars
  PROVE  \A a \in told' : a \in told \/ (a[2] \in Verdicts => RightAnswer(a))
  <1> DEFINE Goal == \A a \in told' : a \in told \/ (a[2] \in Verdicts => RightAnswer(a))
  <1>1. ASSUME NEW t \in Threads, PollCheck(t) PROVE Goal
    <2>1. CASE Answer(frame[t].id, StatusAt(frame[t].rec, clock))
      <3>1. StatusAt(frame[t].rec, clock) \in Verdicts =>
              Decided(frame[t].rec) /\ StatusAt(frame[t].rec, clock) = frame[t].rec.status
        BY DEF StatusAt, Decided, Verdicts
      <3>2. Decided(frame[t].rec) => Exists(frame[t].id) /\ files[frame[t].id] = frame[t].rec
        BY <1>1, FrameIsFile DEF PollCheck, Settled
      <3> QED
        BY <2>1, <3>1, <3>2, AnswerIsRight
    <2>2. CASE UNCHANGED told
      BY <2>2
    <2> QED
      BY <1>1, <2>1, <2>2 DEF PollCheck
  <1>2. ASSUME NEW t \in Threads, PollRemain(t) PROVE Goal
    BY <1>2 DEF PollRemain, Answer
  <1>3. ASSUME NEW t \in Threads, pc[t] \in LogLabels,
               Answer(frame[t].id, frame[t].rec.status)
        PROVE  Goal
    <2>1. frame[t].rec.status \in Verdicts =>
            Exists(frame[t].id) /\ files[frame[t].id].status = frame[t].rec.status
      BY <1>3, FrameIsFile DEF Decided, Settled
    <2> QED
      BY <1>3, <2>1, AnswerIsRight
  <1>4. ASSUME NEW t \in Threads, LogSubmitted(t) \/ LogAuto(t) \/ LogDecision(t)
        PROVE  Goal
    BY <1>3, <1>4 DEF LogSubmitted, LogAuto, LogDecision, LogLabels, AnswerSubmit
  <1>5. ASSUME NEW t \in Threads, Begin(t) \/ Step(t),
               ~PollCheck(t), ~PollRemain(t), ~LogSubmitted(t), ~LogAuto(t), ~LogDecision(t)
        PROVE  told' = told
    BY <1>5
    DEF Begin, Step, BeginSubmit, BeginDecide, BeginPoll, AddLock, AddStat, AddWrite,
        AddWriteFails, LogFails, LogFailsLate, DecideLock, DecideRead, DecideCheck, DecideStamp,
        DecideWrite, DecideWriteFails, PollRead, PollWake
  <1>6. ASSUME NEW s \in Crashable, Crash(s) PROVE told' = told
    BY <1>6 DEF Crash
  <1>7. ASSUME Tick \/ UNCHANGED vars PROVE told' = told
    BY <1>7 DEF Tick, vars
  <1> QED
    BY <1>1, <1>2, <1>4, <1>5, <1>6, <1>7 DEF Next

LEMMA NextToldStands == FinalInv /\ ToldStands /\ [Next]_vars => ToldStands'
  <1> SUFFICES ASSUME FinalInv, ToldStands, [Next]_vars,
                      NEW a \in told', a[2] \in Verdicts
               PROVE  files'[a[1]] # None /\ files'[a[1]].status = a[2]
    BY DEF ToldStands, Exists
  <1>1. RightAnswer(a)
    BY NewAnswersRight DEF ToldStands, RightAnswer
  <1>2. a[1] \in Ids
    BY NextTypeInv DEF FinalInv, TypeInv, TypeOK
  <1>3. Settled(a[1])
    BY <1>1 DEF RightAnswer, Settled, Decided
  <1>4. files'[a[1]] = files[a[1]]
    BY <1>2, <1>3, StepFinal
  <1> QED
    BY <1>1, <1>4 DEF RightAnswer, Exists

\* Answers stand: with one Store, an approval or denial a caller was given is the
\* verdict on disk, at that moment and for ever after.
THEOREM AnswersStand ==
  ASSUME OneStore
  PROVE  Spec => []ToldStands
  <1>1. Init => ToldStands
    BY DEF Init, ToldStands
  <1>2. FinalInv /\ ToldStands /\ [Next]_vars => ToldStands'
    BY NextToldStands
  <1> QED
    BY <1>1, <1>2, Finality, PTL DEF Spec

-----------------------------------------------------------------------------
RightLine(e) ==
  IsVerdict(e) =>
    /\ e.id \in Ids
    /\ Settled(e.id)
    /\ e.event = EventOf(files[e.id])
    /\ e.time = files[e.id].decidedAt
    /\ e.reason \in {NoReason, files[e.id].reason}

\* The steps that append a line, with or without an error to the caller.
Appends(t) == LogSubmitted(t) \/ LogAuto(t) \/ LogDecision(t) \/ LogFailsLate(t)

LEMMA AppendsDue ==
  ASSUME NEW t \in Threads, Appends(t)
  PROVE  pc[t] \in LogLabels /\ Log(DueLine(t)) /\ files' = files
  BY DEF Appends, LogSubmitted, LogAuto, LogDecision, LogFailsLate, LogLabels

LEMMA LogExtends ==
  ASSUME TypeInv, NEW line, Log(line)
  PROVE  /\ audit \in Seq(Event)
         /\ audit' = Append(audit, line)
         /\ DOMAIN audit' = DOMAIN audit \cup {Len(audit) + 1}
         /\ Len(audit) + 1 \notin DOMAIN audit
         /\ \A k \in DOMAIN audit : audit'[k] = audit[k]
         /\ audit'[Len(audit) + 1] = line
  BY DEF TypeInv, TypeOK, Log

LEMMA LinesExtend ==
  ASSUME TypeInv, NEW line, Log(line)
  PROVE  Lines' = Lines \cup {line}
  BY LogExtends DEF Lines

LEMMA NewLinesRight ==
  ASSUME FinalInv, [Next]_vars, NEW e \in Lines'
  PROVE  e \in Lines \/ RightLine(e)
  <1>1. ASSUME NEW t \in Threads, Appends(t) PROVE e \in Lines \/ RightLine(e)
    <2>1. pc[t] \in LogLabels /\ Log(DueLine(t))
      BY <1>1, AppendsDue
    <2>2. e \in Lines \/ e = DueLine(t)
      BY <2>1, LinesExtend DEF FinalInv
    <2>3. CASE pc[t] = "log.submitted"
      BY <2>1, <2>2, <2>3, DueLineType DEF FinalInv, RightLine, IsVerdict
    <2>4. CASE pc[t] # "log.submitted"
      <3>1. /\ Decided(frame[t].rec)
            /\ DueLine(t).id = frame[t].id
            /\ DueLine(t).event = EventOf(frame[t].rec)
            /\ DueLine(t).time = frame[t].rec.decidedAt
            /\ DueLine(t).reason \in {NoReason, frame[t].rec.reason}
        BY <2>1, <2>4, DueLineType DEF FinalInv
      <3>2. /\ frame[t].id \in Ids
            /\ Settled(frame[t].id)
            /\ files[frame[t].id] = frame[t].rec
        BY <2>1, <3>1, FrameIsFile
      <3> QED
        BY <2>2, <3>1, <3>2 DEF RightLine
    <2> QED
      BY <2>3, <2>4
  <1>2. ASSUME NEW t \in Threads, Begin(t) \/ Step(t), ~Appends(t)
        PROVE  audit' = audit
    BY <1>2
    DEF Appends, Begin, Step, BeginSubmit, BeginDecide, BeginPoll, AddLock, AddStat, AddWrite,
        AddWriteFails, LogFails, DecideLock, DecideRead, DecideCheck, DecideStamp,
        DecideWrite, DecideWriteFails, PollRead, PollCheck, PollRemain, PollWake
  <1>3. ASSUME NEW s \in Crashable, Crash(s) PROVE audit' = audit
    BY <1>3 DEF Crash
  <1>4. ASSUME Tick \/ UNCHANGED vars PROVE audit' = audit
    BY <1>4 DEF Tick, vars
  <1>5. audit' = audit => e \in Lines
    BY DEF Lines
  <1> QED
    BY <1>1, <1>2, <1>3, <1>4, <1>5 DEF Next

LEMMA NextAuditTruthful == FinalInv /\ AuditTruthful /\ [Next]_vars => AuditTruthful'
  <1> SUFFICES ASSUME FinalInv, AuditTruthful, [Next]_vars
               PROVE  AuditTruthful'
    OBVIOUS
  <1>1. ASSUME NEW e \in Lines', IsVerdict(e)
        PROVE  /\ Settled(e.id)'
               /\ e.event = EventOf(files'[e.id])
               /\ e.time = files'[e.id].decidedAt
               /\ e.reason \in {NoReason, files'[e.id].reason}
    <2>1. \A l \in Lines : l.id \in Ids
      <3>1. audit \in Seq(Event)
        BY DEF FinalInv, TypeInv, TypeOK
      <3>2. \A k \in DOMAIN audit : audit[k] \in Event
        BY <3>1
      <3> QED
        BY <3>2 DEF Lines, Event
    <2>2. RightLine(e)
      BY <2>1, <1>1, NewLinesRight DEF AuditTruthful, RightLine
    <2>3. e.id \in Ids /\ Settled(e.id)
      BY <1>1, <2>2 DEF RightLine
    <2>4. files'[e.id] = files[e.id]
      BY <2>3, StepFinal
    <2> QED
      BY <1>1, <2>2, <2>4 DEF RightLine, Settled, Exists
  <1> QED
    BY <1>1 DEF AuditTruthful, IsVerdict

\* The audit log is truthful: with one Store, every decision line ever appended
\* agrees with its record on verdict, actor, time and reason.
THEOREM LogIsTruthful ==
  ASSUME OneStore
  PROVE  Spec => []AuditTruthful
  <1>1. Init => AuditTruthful
    BY DEF Init, AuditTruthful, Lines
  <1>2. FinalInv /\ AuditTruthful /\ [Next]_vars => AuditTruthful'
    BY NextAuditTruthful
  <1> QED
    BY <1>1, <1>2, Finality, PTL DEF Spec

-----------------------------------------------------------------------------
(***************************************************************************)
(* With one Store, the queue of files, mutexes and polls implements the    *)
(* abstract ApprovalQueue: the renames of Add and Decide are Enqueue and   *)
(* Settle, a decision line and an answered verdict are Publish, an answer  *)
(* of "expired" is GiveUp, and everything else is a stutter.               *)
(***************************************************************************)

\* What the abstract queue calls log.
Public == {<<e.id, VerdictIn(e)>> : e \in {l \in Lines : IsVerdict(l)}}

AbsStep == [Queue!Next]_(Queue!vars)

LEMMA Unseen ==
  ASSUME files' = files, audit' = audit, told' = told
  PROVE  AbsStep
  <1>1. Queue!vars' = Queue!vars
    BY DEF Queue!vars, VerdictOn, Exists, VerdictIn, Lines, IsVerdict
  <1> QED
    BY <1>1 DEF AbsStep

\* A rename shows as a change of one verdict.
LEMMA WriteMaps ==
  ASSUME FinalInv, NEW t \in Threads, AddWrite(t) \/ DecideWrite(t)
  PROVE  AbsStep
  <1> DEFINE id == frame[t].id
             v  == IF frame[t].rec.status = "pending" THEN "open" ELSE frame[t].rec.status
  <1>1. /\ id \in Ids
        /\ frame[t].rec \in Request
        /\ files' = [files EXCEPT ![id] = frame[t].rec]
    BY WriteReplaces
  <1>2. v \in {"open", "approved", "denied"}
    BY <1>1 DEF Request, Fields, Verdicts
  <1>3. [i \in Ids |-> VerdictOn(i)]' = [[i \in Ids |-> VerdictOn(i)] EXCEPT ![id] = v]
    <2>1. frame[t].rec # None
      BY <1>1, RecordAssumption
    <2> QED
      BY <1>1, <2>1 DEF VerdictOn, Exists, FinalInv, TypeInv, TypeOK
  <1>4. audit' = audit /\ told' = told
    BY DEF AddWrite, DecideWrite
  <1>5. UNCHANGED {<<e.id, VerdictIn(e)>> : e \in {l \in Lines : IsVerdict(l)}}
    BY <1>4 DEF VerdictIn, Lines, IsVerdict
  <1>6. CASE AddWrite(t)
    <2>1. VerdictOn(id) = "absent"
      BY <1>6 DEF AddWrite, VerdictOn, Exists, FinalInv, ReadsHold, ReadFits
    <2>2. Queue!Enqueue(id)
      BY <1>1, <1>2, <1>3, <1>4, <1>5, <2>1 DEF Queue!Enqueue, Queue!Final
    <2> QED
      BY <1>1, <2>2 DEF AbsStep, Queue!Next
  <1>7. CASE DecideWrite(t)
    <2>1. VerdictOn(id) = "open"
      BY <1>7 DEF DecideWrite, VerdictOn, Exists, FinalInv, ReadsHold, ReadFits
    <2>2. v \in {"approved", "denied"}
      BY <1>2, <1>7 DEF DecideWrite, FinalInv, TypeInv, FramesOK, FrameFits, Decided, Verdicts
    <2>3. Queue!Settle(id)
      BY <1>1, <1>3, <1>4, <1>5, <2>1, <2>2 DEF Queue!Settle, Queue!Final
    <2> QED
      BY <1>1, <2>3 DEF AbsStep, Queue!Next
  <1> QED
    BY <1>6, <1>7

\* A submitted line is not public; a decision line makes a verdict so.
LEMMA LineSeen ==
  ASSUME FinalInv, NEW t \in Threads, pc[t] \in LogLabels, Log(DueLine(t))
  PROVE  IF pc[t] = "log.submitted" THEN Public' = Public
         ELSE Public' = Public \cup {<<frame[t].id, frame[t].rec.status>>}
  <1> DEFINE new == DueLine(t)
  <1>1. Lines' = Lines \cup {new}
    BY LinesExtend DEF FinalInv
  <1>2. /\ new.id = frame[t].id
        /\ pc[t] = "log.submitted" => ~IsVerdict(new)
        /\ pc[t] # "log.submitted" => new.event = EventOf(frame[t].rec) /\ Decided(frame[t].rec)
    BY DueLineType DEF FinalInv, IsVerdict
  <1>3. pc[t] # "log.submitted" => IsVerdict(new) /\ VerdictIn(new) = frame[t].rec.status
    BY <1>2 DEF IsVerdict, VerdictIn, EventOf, Decided, Verdicts
  <1> HIDE DEF new
  <1>4. Public' = {<<e.id, VerdictIn(e)>> : e \in {l \in Lines \cup {new} : IsVerdict(l)}}
    BY <1>1 DEF Public, VerdictIn, IsVerdict
  <1>5. CASE pc[t] = "log.submitted"
    BY <1>2, <1>4, <1>5 DEF Public
  <1>6. CASE pc[t] # "log.submitted"
    BY <1>2, <1>3, <1>4, <1>6 DEF Public
  <1> QED
    BY <1>5, <1>6

LEMMA SameVerdicts ==
  ASSUME files' = files
  PROVE  [id \in Ids |-> VerdictOn(id)]' = [id \in Ids |-> VerdictOn(id)]
  BY DEF VerdictOn, Exists

LEMMA SettledVerdict ==
  ASSUME NEW id \in Ids, Settled(id)
  PROVE  /\ VerdictOn(id) = files[id].status
         /\ VerdictOn(id) \in Queue!Final
  BY DEF Settled, VerdictOn, Decided, Verdicts, Queue!Final

LEMMA PublishMaps ==
  ASSUME NEW id \in Ids, Settled(id), files' = files,
         Public' \in {Public, Public \cup {<<id, files[id].status>>}},
         told' \in {told, told \cup {<<id, files[id].status>>}}
  PROVE  AbsStep
  <1>1. Queue!Publish(id)
    BY SameVerdicts, SettledVerdict DEF Queue!Publish, Public
  <1> QED
    BY <1>1 DEF AbsStep, Queue!Next

LEMMA AnswerTells ==
  ASSUME NEW id, NEW status \in Verdicts \cup {"expired"}, Answer(id, status)
  PROVE  told' = told \cup {<<id, status>>}
  BY DEF Answer, Verdicts

LEMMA StutterMaps ==
  ASSUME files' = files, Public' = Public, told' = told
  PROVE  AbsStep
  <1>1. Queue!vars' = Queue!vars
    BY SameVerdicts DEF Queue!vars, Public
  <1> QED
    BY <1>1 DEF AbsStep

LEMMA LogMaps ==
  ASSUME FinalInv, NEW t \in Threads, Appends(t)
  PROVE  AbsStep
  <1> DEFINE id  == frame[t].id
             rec == frame[t].rec
  <1>1. pc[t] \in LogLabels /\ Log(DueLine(t)) /\ files' = files
    BY AppendsDue
  <1>2. rec \in Request /\ rec.status \in {"pending", "approved", "denied"}
    BY <1>1 DEF FinalInv, TypeInv, FramesOK, FrameFits, WithRec, Request, Fields, Verdicts
  <1>3. CASE pc[t] = "log.submitted"
    <2>1. Public' = Public
      BY <1>1, <1>3, LineSeen
    <2>2. CASE told' = told
      BY <1>1, <2>1, <2>2, StutterMaps
    <2>3. CASE told' # told
      <3>1. LogSubmitted(t) /\ ~Decided(rec)
        BY <1>3, <2>3 DEF Appends, LogSubmitted, LogAuto, LogDecision, LogFailsLate
      <3> QED
        BY <1>2, <2>3, <3>1 DEF LogSubmitted, AnswerSubmit, Answer, Decided, Verdicts
    <2> QED
      BY <2>2, <2>3
  <1>4. CASE pc[t] # "log.submitted"
    <2>1. Decided(rec)
      BY <1>1, <1>4, DueLineType DEF FinalInv
    <2>2. id \in Ids /\ Settled(id) /\ files[id] = rec
      BY <1>1, <2>1, FrameIsFile
    <2>3. Public' = Public \cup {<<id, rec.status>>}
      BY <1>1, <1>4, LineSeen
    <2>4. CASE LogFailsLate(t)
      <3>1. told' = told
        BY <2>4 DEF LogFailsLate
      <3> QED
        BY <1>1, <2>2, <2>3, <3>1, PublishMaps
    <2>5. CASE ~LogFailsLate(t)
      <3>1. Answer(id, rec.status)
        BY <1>4, <2>1, <2>5
        DEF Appends, LogSubmitted, LogAuto, LogDecision, AnswerSubmit, Decided, Verdicts
      <3>2. told' = told \cup {<<id, rec.status>>}
        BY <2>1, <3>1, AnswerTells DEF Decided
      <3> QED
        BY <1>1, <2>2, <2>3, <3>2, PublishMaps
    <2> QED
      BY <2>4, <2>5
  <1> QED
    BY <1>3, <1>4

LEMMA PollCheckMaps ==
  ASSUME FinalInv, NEW t \in Threads, PollCheck(t)
  PROVE  AbsStep
  <1> DEFINE id == frame[t].id
             s  == StatusAt(frame[t].rec, clock)
  <1>1. id \in Ids /\ frame[t].rec \in Request
    BY DEF PollCheck, FinalInv, TypeInv, FramesOK, FrameFits, WithId, WithRec, Labels
  <1>2. files' = files /\ Public' = Public
    BY DEF PollCheck, Public, Lines, IsVerdict, VerdictIn
  <1>3. CASE told' = told
    BY <1>2, <1>3, StutterMaps
  <1>4. CASE s \in Verdicts /\ Answer(id, s)
    <2>1. Decided(frame[t].rec) /\ s = frame[t].rec.status
      BY <1>4 DEF StatusAt, Decided, Verdicts
    <2>2. Settled(id) /\ files[id] = frame[t].rec
      BY <2>1, FrameIsFile DEF PollCheck
    <2>3. told' = told \cup {<<id, files[id].status>>}
      BY <1>4, <2>1, <2>2, AnswerTells
    <2> QED
      BY <1>1, <1>2, <2>2, <2>3, PublishMaps
  <1>5. CASE s = "expired" /\ Answer(id, s)
    <2>1. Exists(id)
      BY DEF PollCheck, FinalInv, ReadsHold, ReadFits, Exists
    <2>2. VerdictOn(id) # "absent"
      <3>1. files[id].status \in {"pending", "approved", "denied"}
        BY <1>1, <2>1 DEF Exists, FinalInv, TypeInv, TypeOK, Request, Fields, Verdicts
      <3> QED
        BY <2>1, <3>1 DEF VerdictOn
    <2>3. told' = told \cup {<<id, "expired">>}
      BY <1>5, AnswerTells
    <2>4. Queue!GiveUp(id)
      BY <1>1, <1>2, <2>2, <2>3, SameVerdicts DEF Queue!GiveUp, Public
    <2> QED
      BY <1>1, <2>4 DEF AbsStep, Queue!Next
  <1>6. s \in {"pending", "expired"} \cup Verdicts
    BY <1>1 DEF StatusAt, Request, Fields, Verdicts
  <1> QED
    BY <1>3, <1>4, <1>5, <1>6 DEF PollCheck

LEMMA StepMaps == FinalInv /\ [Next]_vars => AbsStep
  <1> SUFFICES ASSUME FinalInv, [Next]_vars PROVE AbsStep
    OBVIOUS
  <1>1. ASSUME NEW t \in Threads, AddWrite(t) \/ DecideWrite(t) PROVE AbsStep
    BY <1>1, WriteMaps
  <1>2. ASSUME NEW t \in Threads, Appends(t)
        PROVE  AbsStep
    BY <1>2, LogMaps
  <1>3. ASSUME NEW t \in Threads, PollCheck(t) PROVE AbsStep
    BY <1>3, PollCheckMaps
  <1>4. ASSUME NEW t \in Threads, Begin(t) \/ Step(t), ~AddWrite(t), ~DecideWrite(t),
               ~Appends(t), ~PollCheck(t)
        PROVE  files' = files /\ audit' = audit /\ told' = told
    <2>1. CASE PollRemain(t)
      BY <2>1 DEF PollRemain, Answer
    <2> QED
      BY <1>4, <2>1
      DEF Appends, Begin, Step, BeginSubmit, BeginDecide, BeginPoll, AddLock, AddStat, AddWriteFails,
          LogFails, DecideLock, DecideRead, DecideCheck, DecideStamp, DecideWriteFails,
          PollRead, PollWake
  <1>5. ASSUME NEW s \in Crashable, Crash(s)
        PROVE  files' = files /\ audit' = audit /\ told' = told
    BY <1>5 DEF Crash
  <1>6. ASSUME Tick \/ UNCHANGED vars
        PROVE  files' = files /\ audit' = audit /\ told' = told
    BY <1>6 DEF Tick, vars
  <1> QED
    BY <1>1, <1>2, <1>3, <1>4, <1>5, <1>6, Unseen DEF Next

LEMMA InitMaps == Init => Queue!Init
  <1> SUFFICES ASSUME Init PROVE Queue!Init
    OBVIOUS
  <1>1. [id \in Ids |-> VerdictOn(id)] = [id \in Ids |-> "absent"]
    BY DEF Init, VerdictOn, Exists
  <1>2. {<<e.id, VerdictIn(e)>> : e \in {l \in Lines : IsVerdict(l)}} = {}
    BY DEF Init, Lines
  <1> QED
    BY <1>1, <1>2 DEF Init, Queue!Init

\* With one Store, and in spite of failing disks, crashes, expiry and ids drawn
\* twice, the detailed queue is an approval queue: one verdict per request, for
\* good, and nothing else is logged or answered as its verdict.
THEOREM QueueRefines ==
  ASSUME OneStore
  PROVE  Spec => Implements
  <1>1. FinalInv /\ [Next]_vars => [Queue!Next]_(Queue!vars)
    BY StepMaps DEF AbsStep
  <1> QED
    BY <1>1, InitMaps, Finality, PTL DEF Spec, Implements, Queue!Spec

-----------------------------------------------------------------------------
\* What a step that writes nothing leaves as it was.

Writes(t) == AddWrite(t) \/ DecideWrite(t)

\* The steps that neither write a record nor append a line.
LEMMA SilentStep ==
  ASSUME [Next]_vars, \A t \in Threads : ~Writes(t) /\ ~Appends(t)
  PROVE  files' = files /\ audit' = audit
  <1>1. ASSUME NEW t \in Threads, Begin(t) \/ Step(t) PROVE files' = files /\ audit' = audit
    BY <1>1
    DEF Writes, Appends, Begin, Step, BeginSubmit, BeginDecide, BeginPoll, AddLock, AddStat,
        AddWriteFails, LogFails, DecideLock, DecideRead, DecideCheck, DecideStamp,
        DecideWriteFails, PollRead, PollCheck, PollRemain, PollWake
  <1> QED
    BY <1>1 DEF Next, Crash, Tick, vars

\* No such step brings a thread to a point where it has a line to append, and
\* what leads away from one loses the lines.
LEMMA SilentFrames ==
  ASSUME TypeInv, [Next]_vars, \A t \in Threads : ~Writes(t) /\ ~Appends(t)
  PROVE  /\ lost \subseteq lost'
         /\ \A t \in Threads :
              \/ pc[t] \in LogLabels /\ pc'[t] = pc[t] /\ frame'[t] = frame[t]
              \/ pc[t] \in LogLabels /\ pc'[t] \notin LogLabels /\ Owed(t) \subseteq lost'
              \/ pc[t] \notin LogLabels /\ pc'[t] \notin LogLabels
  <1> DEFINE Goal == /\ lost \subseteq lost'
                     /\ \A t \in Threads :
                          \/ pc[t] \in LogLabels /\ pc'[t] = pc[t] /\ frame'[t] = frame[t]
                          \/ pc[t] \in LogLabels /\ pc'[t] \notin LogLabels /\ Owed(t) \subseteq lost'
                          \/ pc[t] \notin LogLabels /\ pc'[t] \notin LogLabels
  <1> USE DEF TypeInv, TypeOK
  <1>1. ASSUME NEW t \in Threads, NEW label, NEW f, label \notin LogLabels, pc[t] \notin LogLabels,
               pc' = [pc EXCEPT ![t] = label], frame' = [frame EXCEPT ![t] = f],
               lost' = lost
        PROVE  Goal
    BY <1>1
  <1>2. \A t \in Threads : frame = [frame EXCEPT ![t] = frame[t]]
    OBVIOUS
  <1>3. ASSUME NEW t \in Threads, Begin(t) PROVE Goal
    BY <1>1, <1>3 DEF Begin, BeginSubmit, BeginDecide, BeginPoll, Goto, LogLabels
  <1>4. ASSUME NEW t \in Threads, AddLock(t) \/ AddStat(t) \/ AddWriteFails(t) PROVE Goal
    BY <1>1, <1>2, <1>4 DEF AddLock, AddStat, AddWriteFails, Return, Goto, LogLabels
  <1>5. ASSUME NEW t \in Threads, LogFails(t) PROVE Goal
    BY <1>5 DEF LogFails, Return, Goto, LogLabels
  <1>6. ASSUME NEW t \in Threads, DecideLock(t) \/ DecideRead(t) \/ DecideCheck(t) PROVE Goal
    BY <1>1, <1>2, <1>6 DEF DecideLock, DecideRead, DecideCheck, Return, Goto, LogLabels
  <1>7. ASSUME NEW t \in Threads, DecideStamp(t) \/ DecideWriteFails(t) PROVE Goal
    BY <1>1, <1>2, <1>7 DEF DecideStamp, DecideWriteFails, Return, Goto, LogLabels
  <1>8. ASSUME NEW t \in Threads, PollRead(t) \/ PollCheck(t) PROVE Goal
    BY <1>1, <1>2, <1>8 DEF PollRead, PollCheck, Return, Goto, LogLabels
  <1>9. ASSUME NEW t \in Threads, PollRemain(t) \/ PollWake(t) PROVE Goal
    BY <1>1, <1>2, <1>9 DEF PollRemain, PollWake, Return, Goto, LogLabels
  <1>10. ASSUME NEW s \in Crashable, Crash(s) PROVE Goal
    BY <1>10 DEF Crash, InProcess, LogLabels
  <1>11. CASE Tick \/ UNCHANGED vars
    BY <1>11 DEF Tick, vars
  <1> QED
    BY <1>3, <1>4, <1>5, <1>6, <1>7, <1>8, <1>9, <1>10, <1>11 DEF Next, Step, Writes, Appends

\* Where a thread that appends a line, or writes a record, goes.
LEMMA Announcer ==
  ASSUME TypeInv, NEW t \in Threads, Writes(t) \/ Appends(t)
  PROVE  /\ lost \subseteq lost'
         /\ \A u \in Threads \ {t} : pc'[u] = pc[u] /\ frame'[u] = frame[u]
         /\ Writes(t) => /\ pc[t] \notin LogLabels
                         /\ pc'[t] \in LogLabels /\ frame'[t] = frame[t]
                         /\ AddWrite(t) => pc'[t] = "log.submitted"
                         /\ DecideWrite(t) => pc'[t] = "log.decision"
         /\ Appends(t) =>
              /\ pc[t] \in LogLabels
              /\ \/ /\ pc[t] = "log.submitted" /\ Decided(frame[t].rec)
                    /\ pc'[t] = "log.auto" /\ frame'[t] = frame[t]
                 \/ /\ pc'[t] \notin LogLabels
                    /\ Owed(t) \subseteq {DueLine(t)} \cup lost'
  <1> USE DEF TypeInv, TypeOK
  <1>1. CASE AddWrite(t) \/ DecideWrite(t)
    <2>1. pc[t] \in {"add.write", "decide.write"}
      BY <1>1 DEF AddWrite, DecideWrite
    <2>2. ~Appends(t)
      BY <2>1 DEF Appends, LogSubmitted, LogAuto, LogDecision, LogFailsLate, LogLabels
    <2> QED
      BY <1>1, <2>1, <2>2 DEF AddWrite, DecideWrite, Goto, LogLabels
  <1>2. CASE Appends(t)
    <2>1. pc[t] \in LogLabels /\ ~Writes(t)
      BY <1>2, AppendsDue DEF Writes, AddWrite, DecideWrite, LogLabels
    <2>2. CASE LogSubmitted(t)
      BY <2>1, <2>2 DEF LogSubmitted, AnswerSubmit, Return, Goto, LogLabels, Owed
    <2>3. CASE LogAuto(t) \/ LogDecision(t)
      <3>1. Owed(t) = {DueLine(t)}
        BY <2>1, <2>3 DEF LogAuto, LogDecision, Owed
      <3> QED
        BY <2>1, <2>3, <3>1 DEF LogAuto, LogDecision, AnswerSubmit, Return, Goto, LogLabels
    <2>4. CASE LogFailsLate(t)
      BY <2>1, <2>4 DEF LogFailsLate, Return, Goto, LogLabels
    <2> QED
      BY <1>2, <2>2, <2>3, <2>4 DEF Appends
  <1> QED
    BY <1>1, <1>2 DEF Writes

-----------------------------------------------------------------------------
\* One Store: at most one thread has a decision line to append for a request,
\* and then there is none in the log.

Announcing(t) == pc[t] \in LogLabels /\ Decided(frame[t].rec)

Unannounced(id) == \A k \in DOMAIN audit : IsVerdict(audit[k]) => audit[k].id # id

OnceInv ==
  /\ AuditOnce
  /\ \A t \in Threads : Announcing(t) => Unannounced(frame[t].id)
  /\ \A t, u \in Threads :
       Announcing(t) /\ Announcing(u) /\ frame[t].id = frame[u].id => t = u

\* A record that is written was not decided: nothing was logged of it yet.
LEMMA WriteOnce ==
  ASSUME FinalInv, AuditTruthful, OnceInv, NEW t \in Threads, Writes(t)
  PROVE  OnceInv'
  <1> DEFINE id == frame[t].id
  <1>1. id \in Ids /\ ~Settled(id)
    BY WriteReplaces DEF Writes
  <1>2. Unannounced(id)
    BY <1>1 DEF AuditTruthful, Unannounced, Lines
  <1>3. \A u \in Threads : Announcing(u) => frame[u].id # id
    BY <1>1, FrameIsFile DEF Announcing
  <1>4. /\ audit' = audit
        /\ frame'[t] = frame[t]
        /\ \A u \in Threads \ {t} : pc'[u] = pc[u] /\ frame'[u] = frame[u]
    BY Announcer DEF Writes, AddWrite, DecideWrite, FinalInv
  <1>5. \A u \in Threads : Announcing(u)' => u = t \/ Announcing(u)
    BY <1>4 DEF Announcing
  <1>6. \A i : Unannounced(i)' <=> Unannounced(i)
    BY <1>4 DEF Unannounced, IsVerdict
  <1>7. AuditOnce'
    BY <1>4 DEF OnceInv, AuditOnce, IsVerdict
  <1>8. \A u \in Threads : Announcing(u)' => Unannounced(frame[u].id)
    BY <1>2, <1>5 DEF OnceInv
  <1>9. \A u \in Threads : frame'[u] = frame[u]
    BY <1>4
  <1>10. \A u, w \in Threads :
           Announcing(u)' /\ Announcing(w)' /\ frame[u].id = frame[w].id => u = w
    BY <1>3, <1>5 DEF OnceInv
  <1> QED
    BY <1>6, <1>7, <1>8, <1>9, <1>10 DEF OnceInv

LEMMA SubmittedOnce ==
  ASSUME FinalInv, OnceInv, NEW t \in Threads, Appends(t), pc[t] = "log.submitted"
  PROVE  OnceInv'
  <1> DEFINE new == DueLine(t)
  <1>1. Log(new) /\ ~IsVerdict(new)
    BY AppendsDue, DueLineType DEF FinalInv, IsVerdict
  <1> HIDE DEF new
  <1>2. \A k \in DOMAIN audit' : IsVerdict(audit'[k]) => k \in DOMAIN audit /\ audit'[k] = audit[k]
    BY <1>1, LogExtends DEF FinalInv
  <1>3. AuditOnce'
    BY <1>2 DEF OnceInv, AuditOnce, IsVerdict
  <1>4. \A i : Unannounced(i) => Unannounced(i)'
    BY <1>2 DEF Unannounced, IsVerdict
  <1>5. \A u \in Threads : Announcing(u)' => Announcing(u) /\ frame'[u] = frame[u]
    BY Announcer DEF FinalInv, Announcing
  <1> QED
    BY <1>3, <1>4, <1>5 DEF OnceInv

LEMMA VerdictOnce ==
  ASSUME FinalInv, OnceInv, NEW t \in Threads, Appends(t), pc[t] # "log.submitted"
  PROVE  OnceInv'
  <1> DEFINE id  == frame[t].id
             new == DueLine(t)
  <1>1. Announcing(t) /\ Log(new) /\ new.id = id
    BY AppendsDue, DueLineType DEF FinalInv, Announcing
  <1> HIDE DEF new
  <1>2. \A k \in DOMAIN audit' :
          \/ k \in DOMAIN audit /\ audit'[k] = audit[k]
          \/ k = Len(audit) + 1 /\ audit'[k] = new
    BY <1>1, LogExtends DEF FinalInv
  <1>3. Unannounced(id)
    BY <1>1 DEF OnceInv
  <1>4. AuditOnce'
    BY <1>1, <1>2, <1>3 DEF OnceInv, AuditOnce, Unannounced, IsVerdict
  <1>5. \A u \in Threads : Announcing(u)' => u # t /\ Announcing(u) /\ frame'[u] = frame[u]
    BY Announcer DEF FinalInv, Announcing
  <1>6. \A u \in Threads : Announcing(u)' => Unannounced(frame[u].id)'
    <2> SUFFICES ASSUME NEW u \in Threads, Announcing(u)'
                 PROVE  \A k \in DOMAIN audit' : IsVerdict(audit'[k]) => audit'[k].id # frame'[u].id
      BY DEF Unannounced, IsVerdict
    <2>1. u # t /\ Announcing(u) /\ frame'[u] = frame[u]
      BY <1>5
    <2>2. frame[u].id # id /\ Unannounced(frame[u].id)
      BY <1>1, <2>1 DEF OnceInv
    <2> QED
      BY <1>1, <1>2, <2>1, <2>2 DEF Unannounced
  <1> QED
    BY <1>4, <1>5, <1>6 DEF OnceInv

LEMMA SilentOnce ==
  ASSUME FinalInv, OnceInv, [Next]_vars, \A t \in Threads : ~Writes(t) /\ ~Appends(t)
  PROVE  OnceInv'
  <1>1. audit' = audit
    BY SilentStep
  <1>2. \A u \in Threads : Announcing(u)' => Announcing(u) /\ frame'[u] = frame[u]
    BY SilentFrames DEF FinalInv, Announcing
  <1>3. \A i : Unannounced(i)' <=> Unannounced(i)
    BY <1>1 DEF Unannounced, IsVerdict
  <1>4. AuditOnce'
    BY <1>1 DEF OnceInv, AuditOnce, IsVerdict
  <1> QED
    BY <1>2, <1>3, <1>4 DEF OnceInv

LEMMA NextOnce == FinalInv /\ AuditTruthful /\ OnceInv /\ [Next]_vars => OnceInv'
  BY WriteOnce, SubmittedOnce, VerdictOnce, SilentOnce

\* One Store: however many decisions race, and with failing disks, crashes and
\* ids drawn twice, the log has at most one decision line for a request.
THEOREM LoggedOnce ==
  ASSUME OneStore
  PROVE  Spec => []AuditOnce
  <1>1. Init => OnceInv
    BY DEF Init, OnceInv, AuditOnce, Announcing, LogLabels
  <1>2. FinalInv /\ AuditTruthful /\ OnceInv /\ [Next]_vars => OnceInv'
    BY NextOnce
  <1>3. OnceInv => AuditOnce
    BY DEF OnceInv
  <1> QED
    BY <1>1, <1>2, <1>3, Finality, LogIsTruthful, PTL DEF Spec

-----------------------------------------------------------------------------
\* Any Stores: a line that is not in the log has a cause.  A line, once some
\* call owes it, is written, or owed, or lost from then on (NothingForgotten);
\* and whoever writes a record owes the line that tells of it (WriterOwes).

LEMMA OwedStays ==
  ASSUME NEW u \in Threads, pc'[u] = pc[u], frame'[u] = frame[u]
  PROVE  Owed(u)' = Owed(u)
  BY DEF Owed, DueLine, SubmittedLine, DecisionLine, EventOf, Decided

LEMMA LinesStay ==
  ASSUME audit' = audit
  PROVE  Lines' = Lines
  BY DEF Lines

LEMMA AppendForgetsNothing ==
  ASSUME TypeInv, NEW t \in Threads, Appends(t)
  PROVE  Accounted \subseteq Accounted'
  <1>1. Lines' = Lines \cup {DueLine(t)} /\ lost \subseteq lost'
    BY AppendsDue, LinesExtend, Announcer
  <1>2. ASSUME NEW u \in Threads \ {t} PROVE Owed(u)' = Owed(u)
    BY Announcer, OwedStays
  <1>3. Owed(t) \subseteq {DueLine(t)} \cup lost' \cup Owed(t)'
    <2>1. CASE /\ pc[t] = "log.submitted" /\ Decided(frame[t].rec)
               /\ pc'[t] = "log.auto" /\ frame'[t] = frame[t]
      <3>1. Owed(t) = {DueLine(t), DecisionLine(frame[t], frame[t].rec.reason)}
        BY <2>1 DEF Owed, LogLabels
      <3>2. DecisionLine(frame[t], frame[t].rec.reason) \in Owed(t)'
        BY <2>1 DEF Owed, DueLine, DecisionLine, EventOf, LogLabels
      <3> QED
        BY <3>1, <3>2
    <2>2. CASE Owed(t) \subseteq {DueLine(t)} \cup lost'
      BY <2>2
    <2> QED
      BY <2>1, <2>2, Announcer
  <1> QED
    BY <1>1, <1>2, <1>3 DEF Accounted

LEMMA NothingForgotten ==
  ASSUME TypeInv, [Next]_vars
  PROVE  Accounted \subseteq Accounted'
  <1>1. ASSUME NEW t \in Threads, Writes(t) PROVE Accounted \subseteq Accounted'
    <2>1. lost \subseteq lost' /\ Owed(t) = {}
      BY <1>1, Announcer DEF Owed
    <2>2. Lines' = Lines
      BY <1>1, LinesStay DEF Writes, AddWrite, DecideWrite
    <2>3. ASSUME NEW u \in Threads \ {t} PROVE Owed(u)' = Owed(u)
      BY <1>1, Announcer, OwedStays
    <2> QED
      BY <2>1, <2>2, <2>3 DEF Accounted
  <1>2. ASSUME \A t \in Threads : ~Writes(t) /\ ~Appends(t)
        PROVE  Accounted \subseteq Accounted'
    <2>1. Lines' = Lines /\ lost \subseteq lost'
      BY <1>2, LinesStay, SilentStep, SilentFrames
    <2>2. ASSUME NEW u \in Threads PROVE Owed(u) \subseteq lost' \cup Owed(u)'
      <3>1. CASE pc[u] \in LogLabels /\ pc'[u] = pc[u] /\ frame'[u] = frame[u]
        BY <3>1, OwedStays
      <3>2. CASE pc[u] \notin LogLabels
        BY <3>2 DEF Owed
      <3> QED
        BY <1>2, <3>1, <3>2, SilentFrames
    <2> QED
      BY <2>1, <2>2 DEF Accounted
  <1> QED
    BY <1>1, <1>2, AppendForgetsNothing

\* No file is ever removed, so the one a decision read is there when it writes.
FoundStays ==
  \A t \in Threads :
    pc[t] \in {"decide.check", "decide.stamp", "decide.write"} => Exists(frame[t].id)

\* A record is written with the line that tells of it still to come.
LEMMA WriterOwes ==
  ASSUME TypeInv, FoundStays, NEW t \in Threads, Writes(t)
  PROVE  /\ frame[t].id \in Ids
         /\ files' = [files EXCEPT ![frame[t].id] = frame[t].rec]
         /\ frame[t].rec # None
         /\ Exists(frame[t].id) \/ \E e \in Owed(t)' : e.id = frame[t].id /\ e.event = "submitted"
         /\ Decided(frame[t].rec) => \E e \in Owed(t)' : Tells(e, frame[t].id)'
  <1> DEFINE f == frame[t]
  <1>1. pc[t] \in {"add.write", "decide.write"}
    BY DEF Writes, AddWrite, DecideWrite
  <1>2. /\ f.id \in Ids /\ f.rec \in Request /\ f.rec # None
        /\ pc[t] = "decide.write" => Decided(f.rec)
    BY <1>1, RecordAssumption
    DEF TypeInv, FramesOK, FrameFits, WithId, WithRec, Labels, AddLabels, DecideLabels
  <1>3. files' = [files EXCEPT ![f.id] = f.rec]
    BY DEF Writes, AddWrite, DecideWrite
  <1>4. files'[f.id] = f.rec
    BY <1>2, <1>3 DEF TypeInv, TypeOK
  <1>5. frame'[t] = f
    BY Announcer
  <1>6. \A reason : Tells(DecisionLine(f, reason), f.id)'
    BY <1>4, <1>5 DEF Tells, DecisionLine, EventOf
  <1>7. CASE AddWrite(t)
    <2>1. pc'[t] = "log.submitted"
      BY <1>7, Announcer DEF Writes
    <2>2. SubmittedLine(f) \in Owed(t)'
      BY <1>5, <2>1 DEF Owed, DueLine, SubmittedLine, LogLabels
    <2>3. Decided(f.rec) => DecisionLine(f, f.rec.reason) \in Owed(t)'
      BY <1>5, <2>1 DEF Owed, DecisionLine, EventOf, Decided, LogLabels
    <2>4. Decided(f.rec) => \E e \in Owed(t)' : Tells(e, f.id)'
      <3> SUFFICES ASSUME Decided(f.rec) PROVE \E e \in Owed(t)' : Tells(e, f.id)'
        OBVIOUS
      <3>1. Tells(DecisionLine(f, f.rec.reason), f.id)'
        BY <1>6, <1>5, <1>4 DEF Tells, DecisionLine, EventOf
      <3> QED
        BY <1>5, <2>3, <3>1 DEF DecisionLine, EventOf
    <2>5. SubmittedLine(f).id = f.id /\ SubmittedLine(f).event = "submitted"
      BY DEF SubmittedLine
    <2> QED
      BY <1>2, <1>3, <2>2, <2>4, <2>5
  <1>8. CASE DecideWrite(t)
    <2>1. pc'[t] = "log.decision" /\ Exists(f.id)
      BY <1>8, Announcer DEF Writes, FoundStays, DecideWrite
    <2>2. DecisionLine(f, f.note) \in Owed(t)'
      BY <1>5, <2>1 DEF Owed, DueLine, DecisionLine, EventOf, LogLabels
    <2>3. Tells(DecisionLine(f, f.note), f.id)'
      BY <1>4, <1>5 DEF Tells, DecisionLine, EventOf
    <2>4. \E e \in Owed(t)' : Tells(e, f.id)'
      BY <1>5, <2>2, <2>3 DEF DecisionLine, EventOf
    <2> QED
      BY <1>2, <1>3, <2>1, <2>4
  <1> QED
    BY <1>7, <1>8 DEF Writes

LEMMA FilesStay ==
  ASSUME TypeInv, FoundStays, [Next]_vars, NEW id \in Ids, Exists(id)
  PROVE  Exists(id)'
  <1>1. ASSUME NEW t \in Threads, Writes(t) PROVE Exists(id)'
    BY <1>1, WriterOwes DEF Exists, TypeInv, TypeOK
  <1>2. ASSUME NEW t \in Threads, Appends(t) PROVE Exists(id)'
    BY <1>2 DEF Appends, LogSubmitted, LogAuto, LogDecision, LogFailsLate, Exists
  <1> QED
    BY <1>1, <1>2, SilentStep DEF Exists

Found == {"decide.check", "decide.stamp", "decide.write"}

LEMMA NextFound == TypeInv /\ FoundStays /\ [Next]_vars => FoundStays'
  <1> SUFFICES ASSUME TypeInv, FoundStays, [Next]_vars PROVE FoundStays'
    OBVIOUS
  <1> DEFINE Kept(u) == pc'[u] \notin Found \/ (pc[u] \in Found /\ frame'[u].id = frame[u].id)
  <1>1. ASSUME NEW t \in Threads, NEW u \in Threads, Step(t) \/ Begin(t), ~DecideRead(t)
        PROVE  Kept(u)
    <2> USE DEF TypeInv, TypeOK, Found, Frame
    <2>1. CASE Begin(t)
      BY <2>1 DEF Begin, BeginSubmit, BeginDecide, BeginPoll, Goto
    <2>2. CASE AddLock(t) \/ AddStat(t) \/ AddWrite(t) \/ AddWriteFails(t)
      BY <2>2 DEF AddLock, AddStat, AddWrite, AddWriteFails, Goto, Return
    <2>3. CASE LogSubmitted(t) \/ LogAuto(t) \/ LogDecision(t) \/ LogFails(t) \/ LogFailsLate(t)
      BY <2>3 DEF LogSubmitted, LogAuto, LogDecision, LogFails, LogFailsLate, AnswerSubmit, Goto,
                  Return
    <2>4. CASE DecideLock(t)
      BY <2>4 DEF DecideLock, Goto
    <2>5. CASE DecideCheck(t)
      <3>1. pc[t] = "decide.check"
        BY <2>5 DEF DecideCheck
      <3>2. CASE Return(t)
        BY <3>2 DEF Goto, Return
      <3>3. CASE Goto(t, "decide.stamp") /\ frame' = frame
        BY <3>1, <3>3 DEF Goto
      <3> QED
        BY <2>5, <3>2, <3>3 DEF DecideCheck
    <2>6. CASE DecideStamp(t)
      <3> DEFINE new == Resolved(frame[t].rec, frame[t].verdict, frame[t].note, clock)
      <3>1. pc[t] = "decide.stamp" /\ Goto(t, "decide.write")
        BY <2>6 DEF DecideStamp
      <3>2. frame' = [frame EXCEPT ![t].rec = new]
        BY <2>6 DEF DecideStamp
      <3> HIDE DEF new
      <3>3. frame'[u].id = frame[u].id
        BY <3>2
      <3> QED
        BY <3>1, <3>3 DEF Goto
    <2>7. CASE DecideWrite(t) \/ DecideWriteFails(t)
      BY <2>7 DEF DecideWrite, DecideWriteFails, Goto, Return
    <2>8. CASE PollRead(t) \/ PollCheck(t) \/ PollRemain(t) \/ PollWake(t)
      BY <2>8 DEF PollRead, PollCheck, PollRemain, PollWake, Goto, Return
    <2> QED
      BY <1>1, <2>1, <2>2, <2>3, <2>4, <2>5, <2>6, <2>7, <2>8 DEF Step
  <1>2. ASSUME NEW t \in Threads, NEW u \in Threads, DecideRead(t)
        PROVE  Kept(u) \/ (frame'[u].id = frame[u].id /\ Exists(frame[u].id))
    <2> USE DEF TypeInv, TypeOK, Found, Frame
    <2>1. CASE Return(t)
      BY <2>1 DEF Goto, Return
    <2>2. CASE /\ files[frame[t].id] # None /\ Goto(t, "decide.check")
               /\ frame' = [frame EXCEPT ![t].rec = files[frame[t].id]]
      BY <2>2 DEF Goto, Exists
    <2> QED
      BY <1>2, <2>1, <2>2 DEF DecideRead
  <1>3. ASSUME NEW s \in Crashable, NEW u \in Threads, Crash(s) PROVE Kept(u)
    BY <1>3 DEF Crash, Found
  <1>4. ASSUME NEW u \in Threads, Tick \/ UNCHANGED vars PROVE Kept(u)
    BY <1>4 DEF Tick, vars, Found
  <1>5. ASSUME NEW u \in Threads, pc'[u] \in Found
        PROVE  frame'[u].id = frame[u].id /\ Exists(frame[u].id)
    <2>1. Kept(u) \/ (frame'[u].id = frame[u].id /\ Exists(frame[u].id))
      BY <1>1, <1>2, <1>3, <1>4 DEF Next
    <2> QED
      BY <1>5, <2>1 DEF FoundStays, Found
  <1>6. ASSUME NEW u \in Threads, pc'[u] \in Found PROVE frame'[u].id \in Ids
    <2>1. TypeInv'
      BY NextTypeInv
    <2> QED
      BY <1>6, <2>1 DEF TypeInv, FramesOK, FrameFits, Found, WithId, Labels, DecideLabels
  <1>7. ASSUME NEW u \in Threads, pc'[u] \in Found PROVE files'[frame'[u].id] # None
    BY <1>5, <1>6, <1>7, FilesStay DEF Exists
  <1> QED
    BY <1>7 DEF FoundStays, Found, Exists

\* A record a step leaves alone keeps the lines that account for it.
LEMMA SameExplained ==
  ASSUME TypeInv, AuditExplained, [Next]_vars, NEW id \in Ids, Exists(id), files'[id] = files[id]
  PROVE  /\ \E e \in Accounted' : e.id = id /\ e.event = "submitted"
         /\ Settled(id)' => \E e \in Accounted' : Tells(e, id)'
  <1>1. Accounted \subseteq Accounted'
    BY NothingForgotten
  <1>2. Settled(id)' => Settled(id)
    BY DEF Settled, Exists, Decided
  <1>3. \A e : Tells(e, id) => Tells(e, id)'
    BY DEF Tells, EventOf
  <1>4. \E e \in Accounted : e.id = id /\ e.event = "submitted"
    BY DEF AuditExplained
  <1>5. Settled(id) => \E e \in Accounted : Tells(e, id)
    BY DEF AuditExplained
  <1> QED
    BY <1>1, <1>2, <1>3, <1>4, <1>5

LEMMA WriteExplained ==
  ASSUME TypeInv, FoundStays, AuditExplained, NEW t \in Threads, Writes(t), [Next]_vars
  PROVE  AuditExplained'
  <1> SUFFICES ASSUME NEW id \in Ids, Exists(id)'
               PROVE  /\ \E e \in Accounted' : e.id = id /\ e.event = "submitted"
                      /\ Settled(id)' => \E e \in Accounted' : Tells(e, id)'
    BY DEF AuditExplained
  <1>1. CASE id # frame[t].id
    <2>1. files'[id] = files[id]
      BY <1>1, WriterOwes DEF TypeInv, TypeOK
    <2> QED
      BY <2>1, SameExplained DEF Exists
  <1>2. CASE id = frame[t].id
    <2>1. Owed(t)' \subseteq Accounted' /\ Accounted \subseteq Accounted'
      BY NothingForgotten DEF Accounted
    <2>2. \E e \in Accounted' : e.id = id /\ e.event = "submitted"
      <3>1. CASE Exists(id)
        BY <2>1, <3>1 DEF AuditExplained
      <3>2. CASE ~Exists(id)
        BY <1>2, <2>1, <3>2, WriterOwes
      <3> QED
        BY <3>1, <3>2
    <2>3. files'[id] = frame[t].rec
      BY <1>2, WriterOwes DEF TypeInv, TypeOK
    <2>4. Settled(id)' => Decided(frame[t].rec)
      BY <2>3 DEF Settled, Decided
    <2>5. Decided(frame[t].rec) => \E e \in Owed(t)' : Tells(e, frame[t].id)'
      BY WriterOwes
    <2>6. frame'[t] = frame[t]
      BY Announcer
    <2>7. Decided(frame[t].rec) => \E e \in Owed(t)' : Tells(e, id)'
      BY <1>2, <2>5, <2>6 DEF Tells
    <2> QED
      BY <2>1, <2>2, <2>4, <2>7
  <1> QED
    BY <1>1, <1>2

LEMMA NextExplained ==
  TypeInv /\ FoundStays /\ AuditExplained /\ [Next]_vars => AuditExplained'
  <1> SUFFICES ASSUME TypeInv, FoundStays, AuditExplained, [Next]_vars,
                      \A t \in Threads : ~Writes(t)
               PROVE  AuditExplained'
    BY WriteExplained
  <1>1. files' = files
    <2>1. ASSUME NEW t \in Threads, Appends(t) PROVE files' = files
      BY <2>1 DEF Appends, LogSubmitted, LogAuto, LogDecision, LogFailsLate
    <2> QED
      BY <2>1, SilentStep
  <1>2. \A id \in Ids : Exists(id)' => Exists(id) /\ files'[id] = files[id]
    BY <1>1 DEF Exists
  <1> QED
    BY <1>2, SameExplained DEF AuditExplained

\* Any Stores: every request has its "submitted" line and every decided one the
\* line of that decision, unless the call that writes it is still on its way
\* there or a failed append or a crash kept it from getting there.
THEOREM MissingLinesExplained == Spec => []AuditExplained
  <1>1. Init => TypeInv /\ FoundStays /\ AuditExplained
    BY InitTypeInv DEF Init, FoundStays, AuditExplained, Exists
  <1>2. TypeInv /\ FoundStays /\ AuditExplained /\ [Next]_vars =>
          (TypeInv /\ FoundStays /\ AuditExplained)'
    BY NextTypeInv, NextFound, NextExplained
  <1> QED
    BY <1>1, <1>2, PTL DEF Spec

-----------------------------------------------------------------------------
\* Any Stores, as long as NewID repeats none: nobody writes over what another
\* filed, and a decision keeps what it read.

KeepsRead(label, rec, onDisk) ==
  /\ label = "add.write" => onDisk = None
  /\ label \in {"decide.check", "decide.stamp", "decide.write"} =>
       onDisk # None /\ onDisk.expires = rec.expires

FreshReads ==
  /\ \A t \in Threads : KeepsRead(pc[t], frame[t].rec, files[frame[t].id])
  /\ \A t, u \in Threads :
       pc[t] = "add.write" /\ pc[u] = "add.write" /\ frame[t].id = frame[u].id => t = u

LEMMA MoveFresh ==
  ASSUME TypeInv, FreshReads, NEW t \in Threads, NEW label, NEW f,
         pc' = [pc EXCEPT ![t] = label], frame' = [frame EXCEPT ![t] = f], files' = files,
         KeepsRead(label, f.rec, files[f.id]),
         label = "add.write" =>
           \A u \in Threads \ {t} : pc[u] = "add.write" => frame[u].id # f.id
  PROVE  FreshReads'
  <1>1. /\ pc'[t] = label /\ frame'[t] = f
        /\ \A u \in Threads \ {t} : pc'[u] = pc[u] /\ frame'[u] = frame[u]
    BY DEF TypeInv, TypeOK
  <1>2. ASSUME NEW u \in Threads
        PROVE  KeepsRead(pc'[u], frame'[u].rec, files'[frame'[u].id])
    BY <1>1 DEF FreshReads
  <1>3. ASSUME NEW u \in Threads, NEW w \in Threads, pc'[u] = "add.write", pc'[w] = "add.write",
               frame'[u].id = frame'[w].id
        PROVE  u = w
    BY <1>1, <1>3 DEF FreshReads
  <1> QED
    BY <1>2, <1>3 DEF FreshReads, KeepsRead

\* A label at which nothing was read that a write would rest on.
LEMMA FreeFresh ==
  ASSUME TypeInv, FreshReads, NEW t \in Threads, NEW label, NEW f,
         pc' = [pc EXCEPT ![t] = label], frame' = [frame EXCEPT ![t] = f], files' = files,
         label \notin {"add.write", "decide.check", "decide.stamp", "decide.write"}
  PROVE  FreshReads'
  <1>1. KeepsRead(label, f.rec, files[f.id])
    BY DEF KeepsRead
  <1> QED
    BY <1>1, MoveFresh

LEMMA AddFresh ==
  ASSUME TypeInv, FreshReads, ~Collisions, NEW t \in Threads, AddStat(t)
  PROVE  FreshReads'
  <1>1. CASE Return(t)
    BY <1>1, FreeFresh DEF AddStat, Return, Goto
  <1>2. ASSUME NEW id \in NewIds, ~Taken(id),
               frame' = [frame EXCEPT ![t].id = id], Goto(t, "add.write")
        PROVE  FreshReads'
    <2> DEFINE f == [frame[t] EXCEPT !.id = id]
    <2>1. f.id = id
      BY DEF TypeInv, TypeOK, Frame
    <2>2. KeepsRead("add.write", f.rec, files[f.id])
      BY <1>2, <2>1 DEF KeepsRead, Taken
    <2>3. \A u \in Threads \ {t} : pc[u] = "add.write" => frame[u].id # f.id
      BY <1>2, <2>1 DEF NewIds
    <2>4. pc' = [pc EXCEPT ![t] = "add.write"] /\ frame' = [frame EXCEPT ![t] = f]
      BY <1>2 DEF Goto
    <2>5. files' = files
      BY DEF AddStat
    <2> HIDE DEF f
    <2> QED
      BY <2>2, <2>3, <2>4, <2>5, MoveFresh
  <1> QED
    BY <1>1, <1>2 DEF AddStat

LEMMA DecideFresh ==
  ASSUME TypeInv, FreshReads, NEW t \in Threads,
         DecideRead(t) \/ DecideCheck(t) \/ DecideStamp(t)
  PROVE  FreshReads'
  <1>0. /\ frame[t] \in Frame
        /\ frame = [frame EXCEPT ![t] = frame[t]]
        /\ KeepsRead(pc[t], frame[t].rec, files[frame[t].id])
        /\ files' = files
    BY DEF TypeInv, TypeOK, FreshReads, DecideRead, DecideCheck, DecideStamp
  <1>1. CASE Return(t)
    BY <1>0, <1>1, FreeFresh DEF Return, Goto
  <1>2. CASE DecideRead(t) /\ ~Return(t)
    <2> DEFINE f == [frame[t] EXCEPT !.rec = files[frame[t].id]]
    <2>1. /\ files[frame[t].id] # None
          /\ pc' = [pc EXCEPT ![t] = "decide.check"] /\ frame' = [frame EXCEPT ![t] = f]
      BY <1>2 DEF DecideRead, Goto
    <2>2. f.id = frame[t].id /\ f.rec = files[frame[t].id]
      BY <1>0 DEF Frame
    <2>3. KeepsRead("decide.check", f.rec, files[f.id])
      BY <2>1, <2>2 DEF KeepsRead
    <2> HIDE DEF f
    <2> QED
      BY <1>0, <2>1, <2>3, MoveFresh
  <1>3. CASE DecideCheck(t) /\ ~Return(t)
    <2>1. pc' = [pc EXCEPT ![t] = "decide.stamp"] /\ frame' = frame
      BY <1>3 DEF DecideCheck, Goto
    <2>2. KeepsRead("decide.stamp", frame[t].rec, files[frame[t].id])
      BY <1>0, <1>3 DEF DecideCheck, KeepsRead
    <2>3. frame' = [frame EXCEPT ![t] = frame[t]]
      BY <1>0, <2>1
    <2> QED
      BY <1>0, <2>1, <2>2, <2>3, MoveFresh
  <1>4. CASE DecideStamp(t)
    <2> DEFINE new == Resolved(frame[t].rec, frame[t].verdict, frame[t].note, clock)
               f   == [frame[t] EXCEPT !.rec = new]
    <2>1. frame[t].rec \in Request
      BY <1>4 DEF DecideStamp, TypeInv, FramesOK, FrameFits, WithRec
    <2>2. new.expires = frame[t].rec.expires
      BY <2>1 DEF Resolved, Request, Fields
    <2>3. f.id = frame[t].id /\ f.rec = new
      BY <1>0 DEF Frame
    <2>4. pc' = [pc EXCEPT ![t] = "decide.write"] /\ frame' = [frame EXCEPT ![t] = f]
      BY <1>4 DEF DecideStamp, Goto
    <2>5. KeepsRead("decide.write", f.rec, files[f.id])
      BY <1>0, <1>4, <2>2, <2>3 DEF DecideStamp, KeepsRead
    <2> HIDE DEF f
    <2> QED
      BY <1>0, <2>4, <2>5, MoveFresh
  <1> QED
    BY <1>1, <1>2, <1>3, <1>4

\* A write replaces no file, or a file that keeps its expiry.
LEMMA WriteKeeps ==
  ASSUME TypeInv, FreshReads, NEW t \in Threads, AddWrite(t) \/ DecideWrite(t)
  PROVE  /\ frame[t].id \in Ids
         /\ frame[t].rec \in Request
         /\ files' = [files EXCEPT ![frame[t].id] = frame[t].rec]
         /\ AddWrite(t) => files[frame[t].id] = None
         /\ DecideWrite(t) => /\ files[frame[t].id] # None
                              /\ files[frame[t].id].expires = frame[t].rec.expires
                              /\ Decided(frame[t].rec)
  <1>1. pc[t] \in {"add.write", "decide.write"}
    BY DEF AddWrite, DecideWrite
  <1>2. /\ frame[t].id \in Ids /\ frame[t].rec \in Request
        /\ pc[t] = "decide.write" => Decided(frame[t].rec)
    BY <1>1 DEF TypeInv, FramesOK, FrameFits, WithId, WithRec, Labels, AddLabels, DecideLabels
  <1> QED
    BY <1>2 DEF AddWrite, DecideWrite, FreshReads, KeepsRead

LEMMA WriteFresh ==
  ASSUME TypeInv, FreshReads, NEW t \in Threads, AddWrite(t) \/ DecideWrite(t)
  PROVE  FreshReads'
  <1> DEFINE id == frame[t].id
  <1>1. /\ id \in Ids /\ frame[t].rec \in Request
        /\ files' = [files EXCEPT ![id] = frame[t].rec]
        /\ AddWrite(t) => files[id] = None
        /\ DecideWrite(t) => files[id] # None /\ files[id].expires = frame[t].rec.expires
    BY WriteKeeps
  <1>2. /\ frame' = frame
        /\ pc'[t] \in {"log.submitted", "log.decision"}
        /\ \A u \in Threads \ {t} : pc'[u] = pc[u]
    BY DEF AddWrite, DecideWrite, Goto, TypeInv, TypeOK
  <1>3. files'[id] = frame[t].rec /\ frame[t].rec # None
    BY <1>1, RecordAssumption DEF TypeInv, TypeOK
  <1>4. ASSUME NEW u \in Threads
        PROVE  KeepsRead(pc'[u], frame'[u].rec, files'[frame'[u].id])
    <2>1. CASE u = t
      BY <1>2, <2>1 DEF KeepsRead
    <2>2. CASE u # t /\ frame[u].id # id
      <3>1. files'[frame[u].id] = files[frame[u].id]
        BY <1>1, <2>2 DEF TypeInv, TypeOK
      <3> QED
        BY <1>2, <2>2, <3>1 DEF FreshReads
    <2>3. CASE u # t /\ frame[u].id = id
      <3>1. KeepsRead(pc[u], frame[u].rec, files[id]) /\ pc'[u] = pc[u]
        BY <1>2, <2>3 DEF FreshReads
      <3>2. pc[u] # "add.write"
        <4>1. CASE AddWrite(t)
          BY <2>3, <4>1 DEF AddWrite, FreshReads
        <4>2. CASE DecideWrite(t)
          BY <1>1, <3>1, <4>2 DEF KeepsRead
        <4> QED
          BY <4>1, <4>2
      <3> QED
        BY <1>1, <1>2, <1>3, <2>3, <3>1, <3>2 DEF KeepsRead
    <2> QED
      BY <2>1, <2>2, <2>3
  <1>5. \A u \in Threads : pc'[u] = "add.write" => pc[u] = "add.write"
    BY <1>2
  <1> QED
    BY <1>2, <1>4, <1>5 DEF FreshReads, KeepsRead

LEMMA NextFresh == ~Collisions /\ TypeInv /\ FreshReads /\ [Next]_vars => FreshReads'
  <1> SUFFICES ASSUME ~Collisions, TypeInv, FreshReads, [Next]_vars PROVE FreshReads'
    OBVIOUS
  <1>0. \A t \in Threads : frame = [frame EXCEPT ![t] = frame[t]]
    BY DEF TypeInv, TypeOK
  <1>1. ASSUME NEW t \in Threads, Begin(t) PROVE FreshReads'
    BY <1>1, FreeFresh DEF Begin, BeginSubmit, BeginDecide, BeginPoll, Goto
  <1>2. ASSUME NEW t \in Threads,
               AddLock(t) \/ AddWriteFails(t) \/ DecideLock(t) \/ DecideWriteFails(t)
        PROVE  FreshReads'
    BY <1>0, <1>2, FreeFresh DEF AddLock, AddWriteFails, DecideLock, DecideWriteFails, Return, Goto
  <1>3. ASSUME NEW t \in Threads, LogSubmitted(t) \/ LogAuto(t) PROVE FreshReads'
    BY <1>0, <1>3, FreeFresh DEF LogSubmitted, LogAuto, AnswerSubmit, Return, Goto
  <1>4. ASSUME NEW t \in Threads, LogDecision(t) \/ LogFails(t) \/ LogFailsLate(t)
        PROVE  FreshReads'
    BY <1>4, FreeFresh DEF LogDecision, LogFails, LogFailsLate, Return, Goto
  <1>5. ASSUME NEW t \in Threads, PollRead(t) \/ PollCheck(t) PROVE FreshReads'
    BY <1>0, <1>5, FreeFresh DEF PollRead, PollCheck, Return, Goto
  <1>6. ASSUME NEW t \in Threads, PollRemain(t) \/ PollWake(t) PROVE FreshReads'
    BY <1>0, <1>6, FreeFresh DEF PollRemain, PollWake, Return, Goto
  <1>7. ASSUME NEW s \in Crashable, Crash(s) PROVE FreshReads'
    BY <1>7 DEF Crash, FreshReads, KeepsRead
  <1>8. CASE Tick \/ UNCHANGED vars
    BY <1>8 DEF Tick, vars, FreshReads, KeepsRead
  <1> QED
    BY <1>1, <1>2, <1>3, <1>4, <1>5, <1>6, <1>7, <1>8, AddFresh, DecideFresh, WriteFresh
    DEF Next, Step

LEMMA StepKeeps ==
  ASSUME TypeInv, FreshReads, [Next]_vars, NEW id \in Ids, Exists(id)
  PROVE  /\ files'[id] # None
         /\ files'[id].expires = files[id].expires
         /\ Decided(files[id]) => Decided(files'[id])
  <1>1. ASSUME NEW t \in Threads, AddWrite(t) \/ DecideWrite(t)
        PROVE  files'[id] = files[id] \/ (id = frame[t].id /\ DecideWrite(t))
    BY <1>1, WriteKeeps DEF Exists, TypeInv, TypeOK
  <1>2. ASSUME NEW t \in Threads, DecideWrite(t), id = frame[t].id
        PROVE  /\ files'[id] # None
               /\ files'[id].expires = files[id].expires
               /\ Decided(files'[id])
    BY <1>2, WriteKeeps, RecordAssumption DEF TypeInv, TypeOK
  <1>3. ASSUME \A t \in Threads : ~AddWrite(t) /\ ~DecideWrite(t)
        PROVE  files' = files
    BY <1>3
    DEF Next, Begin, Step, BeginSubmit, BeginDecide, BeginPoll, AddLock, AddStat, AddWriteFails,
        LogSubmitted, LogAuto, LogDecision, LogFails, LogFailsLate, DecideLock, DecideRead,
        DecideCheck, DecideStamp, DecideWriteFails, PollRead, PollCheck, PollRemain, PollWake,
        Crash, Tick, vars
  <1> QED
    BY <1>1, <1>2, <1>3 DEF Exists

\* Any Stores: as long as NewID repeats no id, no record is ever lost, no expiry
\* moves and no decided request is pending again, whoever races or dies.
THEOREM RecordsStay ==
  ASSUME ~Collisions
  PROVE  Spec => NeverReopened
  <1>1. Init => TypeInv /\ FreshReads
    BY InitTypeInv DEF Init, FreshReads, KeepsRead
  <1>2. TypeInv /\ FreshReads /\ [Next]_vars => (TypeInv /\ FreshReads)'
    BY NextFresh, NextTypeInv
  <1>3. TypeInv /\ FreshReads /\ [Next]_vars =>
          [\A id \in Ids : Exists(id) =>
             /\ files'[id] # None
             /\ files'[id].expires = files[id].expires
             /\ Decided(files[id]) => Decided(files'[id])]_vars
    BY StepKeeps
  <1> QED
    BY <1>1, <1>2, <1>3, PTL DEF Spec, NeverReopened

=============================================================================
