---------------------------- MODULE DoorsProofs ----------------------------
(***************************************************************************)
(* Theorems about Bootstrap and Doors, for every set of policies, setups   *)
(* and requests, any width of a duration and any length of time.           *)
(*                                                                         *)
(* BootInv is inductive for the start-up alone, and a call changes none of *)
(* its variables.                                                          *)
(*                                                                         *)
(* CallFits says of each call under way what it already knows of its       *)
(* request, stage by stage, and of an answer that it tells the truth.      *)
(* Records are never removed and keep their expiry (KeepsFiles), so what   *)
(* a call knows stays true whatever the other calls do.                    *)
(***************************************************************************)
EXTENDS Doors, TLAPS

-----------------------------------------------------------------------------
\* Start-up.

\* As long as the file is what was saved, nobody is about to write over it.
NoWriterLeft ==
  saved # None /\ racing = {} =>
    /\ policy = saved
    /\ \A s \in Setups : setup[s].at \notin {"truncate", "fill"}

\* The guard of cmdServe holds of a server from before it takes the port.
Guarded(srv) == srv # None => (srv.exposed => srv.token)

GuardKept ==
  /\ Guarded(server) /\ \A s \in Setups : Guarded(setup[s].becomes)
  /\ server # None \/ (\E s \in Setups : setup[s].becomes # None) => ready

BootInv == BootTypeOK /\ NoWriterLeft /\ GuardKept

LEMMA BootInitOK == BootInit => BootInv
  <1> SUFFICES ASSUME BootInit PROVE BootInv
    OBVIOUS
  <1>1. BootTypeOK
    BY DEF BootInit, BootTypeOK, Off
  <1>2. NoWriterLeft
    BY DEF BootInit, NoWriterLeft
  <1>3. GuardKept
    BY DEF BootInit, GuardKept, Guarded, Off
  <1> QED
    BY <1>1, <1>2, <1>3 DEF BootInv

LEMMA BootTypeStep == BootTypeOK /\ [BootNext]_bootVars => BootTypeOK'
  <1> SUFFICES ASSUME BootTypeOK, [BootNext]_bootVars PROVE BootTypeOK'
    OBVIOUS
  <1> USE BootstrapAssumption DEF BootTypeOK, MoveTo, Off
  <1>1. ASSUME NEW s \in Setups, StartInit(s) PROVE BootTypeOK'
    BY <1>1 DEF StartInit
  <1>2. ASSUME NEW s \in Setups, StartServe(s) PROVE BootTypeOK'
    <2>1. PICK host \in {"loopback", "elsewhere", "bad"}, token \in BOOLEAN, pol \in Policies :
            setup' = [setup EXCEPT ![s] =
              [at |-> "stat", becomes |-> [policy |-> pol, token |-> token,
                                           exposed |-> host = "elsewhere"]]]
      BY <1>2 DEF StartServe, Readable
    <2>2. [policy |-> pol, token |-> token, exposed |-> host = "elsewhere"] \in Server
      BY DEF Server
    <2> QED
      BY <1>2, <2>1, <2>2 DEF StartServe
  <1>3. ASSUME NEW s \in Setups, Stat(s) PROVE BootTypeOK'
    BY <1>3 DEF Stat
  <1>4. ASSUME NEW s \in Setups, Truncate(s) PROVE BootTypeOK'
    BY <1>4 DEF Truncate
  <1>5. ASSUME NEW s \in Setups, Fill(s) PROVE BootTypeOK'
    BY <1>5 DEF Fill
  <1>6. ASSUME NEW s \in Setups, Finish(s) PROVE BootTypeOK'
    BY <1>6 DEF Finish
  <1>7. ASSUME NEW s \in Setups, Die(s) PROVE BootTypeOK'
    BY <1>7 DEF Die
  <1>8. CASE ServerStops
    BY <1>8 DEF ServerStops
  <1>9. CASE EditPolicy
    BY <1>9 DEF EditPolicy
  <1>10. CASE UNCHANGED bootVars
    BY <1>10 DEF bootVars
  <1> QED
    BY <1>1, <1>2, <1>3, <1>4, <1>5, <1>6, <1>7, <1>8, <1>9, <1>10 DEF BootNext, SetupStep

LEMMA NoWriterStep == BootTypeOK /\ NoWriterLeft /\ [BootNext]_bootVars => NoWriterLeft'
  <1> SUFFICES ASSUME BootTypeOK, NoWriterLeft, [BootNext]_bootVars PROVE NoWriterLeft'
    OBVIOUS
  <1> USE DEF BootTypeOK, NoWriterLeft, MoveTo, Off
  <1>1. ASSUME NEW s \in Setups, StartInit(s) PROVE NoWriterLeft'
    BY <1>1 DEF StartInit
  <1>2. ASSUME NEW s \in Setups, StartServe(s) PROVE NoWriterLeft'
    BY <1>2 DEF StartServe
  \* The file is there, so there is nothing to write.
  <1>3. ASSUME NEW s \in Setups, Stat(s) PROVE NoWriterLeft'
    BY <1>3 DEF Stat, PolicyMissing
  \* Whoever writes has started before the last save, or nothing was saved.
  <1>4. ASSUME NEW s \in Setups, Truncate(s) PROVE NoWriterLeft'
    BY <1>4 DEF Truncate
  <1>5. ASSUME NEW s \in Setups, Fill(s) PROVE NoWriterLeft'
    BY <1>5 DEF Fill
  <1>6. ASSUME NEW s \in Setups, Finish(s) PROVE NoWriterLeft'
    BY <1>6 DEF Finish
  <1>7. ASSUME NEW s \in Setups, Die(s) PROVE NoWriterLeft'
    BY <1>7 DEF Die
  <1>8. CASE ServerStops
    BY <1>8 DEF ServerStops
  <1>9. CASE EditPolicy
    BY <1>9 DEF EditPolicy
  <1>10. CASE UNCHANGED bootVars
    BY <1>10 DEF bootVars
  <1> QED
    BY <1>1, <1>2, <1>3, <1>4, <1>5, <1>6, <1>7, <1>8, <1>9, <1>10 DEF BootNext, SetupStep

LEMMA GuardStep == BootTypeOK /\ GuardKept /\ [BootNext]_bootVars => GuardKept'
  <1> SUFFICES ASSUME BootTypeOK, GuardKept, [BootNext]_bootVars PROVE GuardKept'
    OBVIOUS
  <1> USE DEF BootTypeOK, GuardKept, Guarded, MoveTo, Off
  <1>1. ASSUME NEW s \in Setups, StartInit(s) PROVE GuardKept'
    BY <1>1 DEF StartInit
  <1>2. ASSUME NEW s \in Setups, StartServe(s) PROVE GuardKept'
    <2>1. PICK host \in {"loopback", "elsewhere", "bad"}, token \in BOOLEAN, pol \in Policies :
            /\ host = "elsewhere" => token
            /\ setup' = [setup EXCEPT ![s] =
                 [at |-> "stat", becomes |-> [policy |-> pol, token |-> token,
                                              exposed |-> host = "elsewhere"]]]
      BY <1>2 DEF StartServe, Readable, ServeRefuses
    <2> DEFINE srv == [policy |-> pol, token |-> token, exposed |-> host = "elsewhere"]
    <2>2. Guarded(srv)
      <3>1. srv.exposed <=> host = "elsewhere"
        BY Zenon
      <3>2. srv.token <=> token
        BY Zenon
      <3> QED
        BY <2>1, <3>1, <3>2, Zenon DEF Guarded
    <2>3. \A r \in Setups : setup'[r].becomes \in {srv, setup[r].becomes}
      BY <2>1
    <2>4. \A r \in Setups : Guarded(setup'[r].becomes)
      BY <2>2, <2>3, Zenon DEF GuardKept
    <2>5. Guarded(server') /\ ready'
      BY <1>2 DEF StartServe
    <2> HIDE DEF Guarded
    <2> QED
      BY <2>4, <2>5 DEF GuardKept
  <1>3. ASSUME NEW s \in Setups, Stat(s) \/ Truncate(s) \/ Fill(s) PROVE GuardKept'
    BY <1>3 DEF Stat, Truncate, Fill
  <1>4. ASSUME NEW s \in Setups, Finish(s) PROVE GuardKept'
    BY <1>4 DEF Finish
  <1>5. ASSUME NEW s \in Setups, Die(s) PROVE GuardKept'
    BY <1>5 DEF Die
  <1>6. CASE ServerStops
    BY <1>6 DEF ServerStops
  <1>7. CASE EditPolicy
    BY <1>7 DEF EditPolicy
  <1>8. CASE UNCHANGED bootVars
    BY <1>8 DEF bootVars
  <1> QED
    BY <1>1, <1>2, <1>3, <1>4, <1>5, <1>6, <1>7, <1>8 DEF BootNext, SetupStep

LEMMA BootStep == BootInv /\ [BootNext]_bootVars => BootInv'
  BY BootTypeStep, NoWriterStep, GuardStep DEF BootInv

\* A call is no step of the start-up.
LEMMA CallsLeaveBoot == [Next]_vars => [BootNext]_bootVars
  <1>1. ASSUME NEW c \in Callers, CallStep(c) PROVE UNCHANGED bootVars
    BY <1>1 DEF CallStep, BeginCall, FileRequest, ReadRecord, CheckDecidable, CheckStatus,
                WriteVerdict, LogLines, CallFails, Hear, CallDies, Elsewhere
  <1>2. CASE Tick \/ Boot \/ UNCHANGED vars
    BY <1>2 DEF Tick, Boot, vars
  <1> QED
    BY <1>1, <1>2 DEF Next

LEMMA BootInvariant == Spec => []BootInv
  <1>1. Init => BootInv
    BY BootInitOK DEF Init
  <1>2. BootInv /\ [Next]_vars => BootInv'
    BY BootStep, CallsLeaveBoot
  <1> QED
    BY <1>1, <1>2, PTL DEF Spec

\* The policy file, the setups and the server keep their types: in particular a
\* server has a policy that parses (cmdServe loads it before it listens).
THEOREM BootTypeCorrect == Spec => []BootTypeOK
  <1>1. BootInv => BootTypeOK
    BY DEF BootInv
  <1> QED
    BY <1>1, BootInvariant, PTL

\* Store.Init never replaces what an operator saved, whatever is started, stopped
\* or killed, unless an init or serve had just found no file when it was saved.
THEOREM EditsAreKept == Spec => []EditsStand
  <1>1. BootInv => EditsStand
    BY DEF BootInv, NoWriterLeft, EditsStand
  <1> QED
    BY <1>1, BootInvariant, PTL

-----------------------------------------------------------------------------
(***************************************************************************)
(* What a call knows of its request.  Everything is stated of a frame k,   *)
(* the statuses s that were seen, the files and the time, so that a step   *)
(* is one instance before it and one after it.                             *)
(***************************************************************************)

World(files, now) == files \in [Ids -> Filing \cup {None}] /\ now \in Nat

\* No record goes away, or expires at another time than it was filed with.
KeepsFiles(files, now, files2, now2) ==
  /\ now <= now2
  /\ \A id \in Ids : files[id] # None =>
       files2[id] # None /\ files2[id].expires = files[id].expires

Late(files, id, now) ==
  id \in Ids /\ files[id] # None /\ files[id].expires # None /\ now > files[id].expires

HadBy(k, s, files, now, status) ==
  \/ status \in s
  \/ status = "expired" /\ "pending" \in s /\ Late(files, k.id, now)
  \/ status = "pending" /\ Submits(k) /\ "expired" \in s

\* CodeTells and CodeHides of an answer.
Told(k, s, files, now) ==
  /\ k.says # None => HadBy(k, s, files, now, k.says) /\ k.code = CodeFor(k.name, k.says)
  /\ Submits(k) /\ k.code \in {0, 1, 4, OK, Accepted} => k.says # None
  /\ Decides(k) /\ k.code \in {0, OK} => {"pending", k.verdict} \subseteq s
  /\ k.code = NotFound => "absent" \in s
  /\ k.code = Conflict => \E t \in Verdicts \cup {"expired"} : HadBy(k, s, files, now, t)
  /\ Decides(k) /\ k.code = 4 => HadBy(k, s, files, now, "expired")
  /\ CodeHides(k)

OnItsWay(k) == k.at \in {"read", "check", "write", "log"}

\* What is on file is what was read, but for the verdict.
OnFile(k, files) == k.rec \in Filing /\ files[k.id] # None /\ files[k.id].expires = k.rec.expires

FileFits(k) == k.at = "file" => Submits(k) /\ k.rec \in Filing /\ ~k.wrote

WayFits(k, s, files, now) ==
  OnItsWay(k) => /\ k.id \in Ids /\ StatusIn(files, k.id, now) \in s
                 /\ Decides(k) => k.verdict \in Verdicts
                 /\ k.wrote => files[k.id] # None
                 /\ k.at # "log" => ~(Decides(k) /\ k.wrote)

CheckFits(k, s, files, now) ==
  k.at = "check" =>
    /\ OnFile(k, files)
    /\ \/ k.rec.status \in s
       \/ k.rec.status = "pending" /\ "expired" \in s /\ k.rec.expires # None /\ now > k.rec.expires

WriteFits(k, s, files) ==
  k.at = "write" =>
    OnFile(k, files) /\ Decides(k) /\ "pending" \in s /\ k.rec.status = "pending"

LogFits(k, s, files) ==
  k.at = "log" =>
    /\ OnFile(k, files)
    /\ Decides(k) => {"pending", k.verdict} \subseteq s
    /\ ~Decides(k) => /\ Submits(k)
                      /\ k.rec.status \in s \/ (k.rec.status = "pending" /\ "expired" \in s)

CallFits(k, s, files, now) ==
  /\ k \in CallType /\ s \subseteq Statuses \cup {"absent"}
  /\ k.id = None => s = {}
  /\ k.at \in {"idle", "file"} => k.id = None
  /\ FileFits(k) /\ WayFits(k, s, files, now) /\ CheckFits(k, s, files, now)
  /\ WriteFits(k, s, files) /\ LogFits(k, s, files)
  /\ k.at = "answer" => Told(k, s, files, now)

CallsInv ==
  /\ World(requests, clock)
  /\ DOMAIN call = Callers /\ DOMAIN seen = Callers
  /\ call = [c \in Callers |-> call[c]] /\ seen = [c \in Callers |-> seen[c]]
  /\ \A c \in Callers : CallFits(call[c], seen[c], requests, clock)

\* What Watch makes of the history of a call that goes from k to k2.
SeenOf(k, s, k2, files, now) ==
  IF k2.id = None THEN {}
  ELSE IF k2.id # k.id THEN {StatusIn(files, k2.id, now)}
  ELSE IF k.at = "answer" THEN s
  ELSE s \cup {StatusIn(files, k2.id, now)}

-----------------------------------------------------------------------------
\* Records and statuses.

LEMMA StatusFacts ==
  ASSUME NEW rec \in Filing, NEW now \in Nat
  PROVE  /\ StatusAt(rec, now) \in Statuses
         /\ StatusAt(rec, now) = "expired" =>
              rec.status = "pending" /\ rec.expires # None /\ now > rec.expires
         /\ StatusAt(rec, now) # "expired" => StatusAt(rec, now) = rec.status
         /\ rec.status # "expired"
  BY DEF StatusAt, Filing, Statuses, Verdicts

LEMMA NoneApart ==
  /\ \A id \in Ids : id # None
  /\ \A rec \in Filing : rec # None
  /\ \A t \in Statuses : t # None
  /\ \A n \in Int : n # None
  BY DoorsAssumption

LEMMA StatusInFacts ==
  ASSUME NEW files, NEW now, World(files, now), NEW id \in Ids
  PROVE  /\ StatusIn(files, id, now) \in Statuses \cup {"absent"}
         /\ files[id] = None => StatusIn(files, id, now) = "absent"
         /\ files[id] # None =>
              files[id] \in Filing /\ StatusIn(files, id, now) = StatusAt(files[id], now)
  BY StatusFacts DEF StatusIn, World

LEMMA LaterStill ==
  ASSUME NEW rec \in Filing, rec.expires # None, NEW now, NEW now2,
         now \in Nat, now2 \in Nat, now <= now2, now > rec.expires
  PROVE  now2 > rec.expires
  <1>1. rec.expires \in Int
    BY DEF Filing
  <1> QED
    BY <1>1

LEMMA HadKept ==
  ASSUME NEW k, NEW s, NEW files, NEW now, NEW files2, NEW now2, NEW t,
         World(files, now), World(files2, now2), KeepsFiles(files, now, files2, now2),
         HadBy(k, s, files, now, t)
  PROVE  HadBy(k, s, files2, now2, t)
  <1>1. ASSUME Late(files, k.id, now) PROVE Late(files2, k.id, now2)
    <2>1. files[k.id] \in Filing
      BY <1>1 DEF Late, World
    <2>2. files2[k.id] # None /\ files2[k.id].expires = files[k.id].expires
      BY <1>1 DEF Late, KeepsFiles
    <2>3. now2 > files[k.id].expires
      BY <1>1, <2>1, LaterStill DEF Late, KeepsFiles, World
    <2> QED
      BY <1>1, <2>2, <2>3 DEF Late
  <1> QED
    BY <1>1, Zenon DEF HadBy

LEMMA ToldKept ==
  ASSUME NEW k, NEW s, NEW files, NEW now, NEW files2, NEW now2,
         World(files, now), World(files2, now2), KeepsFiles(files, now, files2, now2),
         Told(k, s, files, now)
  PROVE  Told(k, s, files2, now2)
  <1>1. \A t : HadBy(k, s, files, now, t) => HadBy(k, s, files2, now2, t)
    BY HadKept, Zenon
  <1> QED
    BY <1>1, Zenon DEF Told

\* What a call knows it goes on knowing, whatever the others do.
LEMMA CallStays ==
  ASSUME NEW k, NEW s, NEW files, NEW now, NEW files2, NEW now2,
         World(files, now), World(files2, now2), KeepsFiles(files, now, files2, now2),
         CallFits(k, s, files, now)
  PROVE  CallFits(k, SeenOf(k, s, k, files2, now2), files2, now2)
  <1> DEFINE s2 == SeenOf(k, s, k, files2, now2)
  <1>1. k \in CallType /\ s \subseteq Statuses \cup {"absent"} /\ k.id \in Ids \cup {None}
    BY DEF CallFits, CallType
  <1>2. /\ k.id = None => s = {} /\ s2 = {}
        /\ k.id # None /\ k.at = "answer" => s2 = s
        /\ k.id # None /\ k.at # "answer" => s2 = s \cup {StatusIn(files2, k.id, now2)}
    BY DEF SeenOf, CallFits
  <1>3. s \subseteq s2 /\ s2 \subseteq Statuses \cup {"absent"}
    BY <1>1, <1>2, StatusInFacts
  <1>4. k.at = "answer" => Told(k, s2, files2, now2)
    <2> SUFFICES ASSUME k.at = "answer" PROVE Told(k, s2, files2, now2)
      OBVIOUS
    <2>1. s2 = s
      BY <1>2
    <2>2. Told(k, s, files, now)
      BY DEF CallFits
    <2> HIDE DEF s2
    <2> QED
      BY <2>1, <2>2, ToldKept
  <1>5. OnItsWay(k) => StatusIn(files2, k.id, now2) \in s2
    BY <1>1, <1>2, NoneApart DEF OnItsWay, CallFits, WayFits
  <1> HIDE DEF s2
  <1>6. WayFits(k, s2, files2, now2)
    BY <1>5, Zenon DEF CallFits, WayFits, KeepsFiles
  <1>7. ASSUME OnFile(k, files), k.id \in Ids PROVE OnFile(k, files2)
    BY <1>7 DEF OnFile, KeepsFiles
  <1>8. OnItsWay(k) => k.id \in Ids
    BY DEF CallFits, WayFits
  <1>9. CheckFits(k, s2, files2, now2)
    <2> SUFFICES ASSUME k.at = "check" PROVE CheckFits(k, s2, files2, now2)
      BY DEF CheckFits
    <2>1. OnFile(k, files2)
      BY <1>7, <1>8 DEF OnItsWay, CallFits, CheckFits
    <2>2. k.rec.status \in s \/ (k.rec.status = "pending" /\ "expired" \in s
                                 /\ k.rec.expires # None /\ now > k.rec.expires)
      BY DEF CallFits, CheckFits
    <2>3. k.rec.expires # None /\ now > k.rec.expires => now2 > k.rec.expires
      BY <2>1, LaterStill DEF OnFile, World, KeepsFiles
    <2> QED
      BY <1>3, <2>1, <2>2, <2>3, Zenon DEF CheckFits
  <1>10. WriteFits(k, s2, files2)
    BY <1>3, <1>7, <1>8 DEF OnItsWay, CallFits, WriteFits
  <1>11. LogFits(k, s2, files2)
    BY <1>3, <1>7, <1>8 DEF OnItsWay, CallFits, LogFits
  <1>12. FileFits(k) /\ (k.at \in {"idle", "file"} => k.id = None)
    BY DEF CallFits
  <1>13. k.id = None => s2 = {}
    BY <1>2
  <1>14. CallFits(k, s2, files2, now2)
    BY <1>1, <1>3, <1>4, <1>6, <1>9, <1>10, <1>11, <1>12, <1>13, Zenon DEF CallFits
  <1> QED
    BY <1>14 DEF s2

-----------------------------------------------------------------------------
\* A call begins.

LEMMA CodesDiffer ==
  /\ \A n \in 0..4 : n \notin HTTPCodes
  /\ \A code \in {BadRequest, Unauthorized, ServerError} :
       code \notin {0, 1, 4, OK, Accepted, NotFound, Conflict}
  /\ OK # NotFound /\ OK # Conflict /\ Accepted # NotFound /\ Accepted # Conflict
  /\ NotFound \notin {0, 1, 4, OK, Accepted} /\ Conflict \notin {0, 1, 4, OK, Accepted}
  /\ NotFound # Conflict
  BY DEF HTTPCodes, OK, Accepted, BadRequest, Unauthorized, NotFound, Conflict, ServerError

LEMMA CodesHold ==
  /\ 0..4 = ExitCodes /\ HTTPCodes \subseteq Nat
  /\ \A n \in {0, 1, 2, 3, 4} : n \in ExitCodes
  /\ \A code \in {OK, Accepted, BadRequest, Unauthorized, NotFound, Conflict, ServerError} :
       code \in HTTPCodes
  BY DEF ExitCodes, HTTPCodes, OK, Accepted, BadRequest, Unauthorized, NotFound, Conflict,
         ServerError

LEMMA NoCallType == NoCall \in CallType
  BY DEF NoCall, CallType, ExitCodes, CLICalls, HTTPCalls

\* A code that tells nothing of any request.
QuietCode(name, code) ==
  /\ code \in ExitCodes \cup HTTPCodes
  /\ code \notin {NotFound, Conflict}
  /\ name \in {"submit", "POST requests"} => code \notin {0, 1, 4, OK, Accepted}
  /\ name \in {"approve or deny", "POST decision"} => code \notin {0, 4, OK}

LEMMA QuietAnswer ==
  ASSUME NEW name \in CLICalls \cup HTTPCalls, NEW code, NEW shown \in BOOLEAN,
         NEW files, NEW now, QuietCode(name, code)
  PROVE  CallFits(Answered([NoCall EXCEPT !.name = name, !.shown = shown], code, None),
                  {}, files, now)
  <1> DEFINE k == Answered([NoCall EXCEPT !.name = name, !.shown = shown], code, None)
  <1>1. code \in ExitCodes \cup HTTPCodes
    BY DEF QuietCode
  <1>2. k \in CallType
    BY <1>1, NoCallType DEF CallType, Answered
  <1>3. /\ k.at = "answer" /\ k.name = name /\ k.id = None /\ k.says = None
        /\ k.code = code /\ ~k.wrote
    BY DEF Answered, NoCall
  <1> HIDE DEF k
  <1>4. Told(k, {}, files, now)
    BY <1>3 DEF Told, QuietCode, Submits, Decides, CodeHides
  <1>5. FileFits(k) /\ WayFits(k, {}, files, now) /\ CheckFits(k, {}, files, now)
        /\ WriteFits(k, {}, files) /\ LogFits(k, {}, files)
    BY <1>3 DEF FileFits, WayFits, CheckFits, WriteFits, LogFits, OnItsWay
  <1>6. CallFits(k, {}, files, now)
    BY <1>2, <1>3, <1>4, <1>5 DEF CallFits
  <1> QED
    BY <1>6 DEF k

LEMMA FileBegins ==
  ASSUME NEW name \in {"submit", "POST requests"}, NEW rec \in Filing, NEW patient \in BOOLEAN,
         NEW shown \in BOOLEAN, NEW files, NEW now
  PROVE  CallFits([NoCall EXCEPT !.at = "file", !.name = name, !.rec = rec,
                                 !.patient = patient, !.shown = shown], {}, files, now)
  <1> DEFINE k == [NoCall EXCEPT !.at = "file", !.name = name, !.rec = rec,
                                 !.patient = patient, !.shown = shown]
  <1>1. name \in CLICalls \cup HTTPCalls
    BY DEF CLICalls, HTTPCalls
  <1>2. k \in CallType
    BY <1>1, NoCallType DEF CallType
  <1>3. /\ k.at = "file" /\ k.name = name /\ k.id = None /\ k.rec = rec /\ ~k.wrote
    BY DEF NoCall
  <1> HIDE DEF k
  <1>5. FileFits(k) /\ WayFits(k, {}, files, now) /\ CheckFits(k, {}, files, now)
        /\ WriteFits(k, {}, files) /\ LogFits(k, {}, files)
    BY <1>3 DEF FileFits, WayFits, CheckFits, WriteFits, LogFits, OnItsWay, Submits
  <1>6. CallFits(k, {}, files, now)
    BY <1>2, <1>3, <1>5 DEF CallFits
  <1> QED
    BY <1>6 DEF k

LEMMA ReadBegins ==
  ASSUME NEW k \in CallType, k.at = "read", k.id \in Ids, ~k.wrote,
         Decides(k) => k.verdict \in Verdicts,
         NEW files, NEW now, World(files, now)
  PROVE  CallFits(k, {StatusIn(files, k.id, now)}, files, now)
  <1> DEFINE s == {StatusIn(files, k.id, now)}
  <1>1. s \subseteq Statuses \cup {"absent"}
    BY StatusInFacts
  <1>2. StatusIn(files, k.id, now) \in s /\ k.id # None
    BY NoneApart
  <1> HIDE DEF s
  <1>3. FileFits(k) /\ CheckFits(k, s, files, now) /\ WriteFits(k, s, files) /\ LogFits(k, s, files)
    BY DEF FileFits, CheckFits, WriteFits, LogFits
  <1>4. WayFits(k, s, files, now)
    BY <1>2 DEF WayFits
  <1>5. CallFits(k, s, files, now)
    BY <1>1, <1>2, <1>3, <1>4 DEF CallFits
  <1> QED
    BY <1>5 DEF s

LEMMA NoCallFits ==
  ASSUME NEW files, NEW now
  PROVE  CallFits(NoCall, {}, files, now)
  BY NoCallType DEF CallFits, NoCall, FileFits, WayFits, CheckFits, WriteFits, LogFits, OnItsWay

-----------------------------------------------------------------------------
\* A call gives its answer.

LEMMA NamesDiffer ==
  ASSUME NEW k
  PROVE  /\ ~(Submits(k) /\ Decides(k))
         /\ k.name = "submit" => ~Http(k)
         /\ k.name = "approve or deny" => ~Http(k)
         /\ k.name \in {"POST requests", "POST decision"} => Http(k)
  BY DEF Submits, Decides, Http, HTTPCalls

\* An answer keeps everything of the frame but the code and the status told.
LEMMA AnswerFrame ==
  ASSUME NEW k \in CallType, NEW code \in ExitCodes \cup HTTPCodes,
         NEW says \in Statuses \cup {None}, NEW k2, k2 = Answered(k, code, says)
  PROVE  /\ k2 \in CallType
         /\ k2.at = "answer" /\ k2.code = code /\ k2.says = says /\ k2.name = k.name
         /\ k2.id = k.id /\ k2.verdict = k.verdict /\ (k2.wrote <=> k.wrote)
         /\ (Submits(k2) <=> Submits(k)) /\ (Decides(k2) <=> Decides(k)) /\ (Http(k2) <=> Http(k))
  <1>1. k2 \in CallType
    BY DEF Answered, CallType
  <1>2. /\ k2.at = "answer" /\ k2.code = code /\ k2.says = says /\ k2.name = k.name
        /\ k2.id = k.id /\ k2.verdict = k.verdict /\ k2.wrote = k.wrote
    BY DEF Answered, CallType
  <1> QED
    BY <1>1, <1>2 DEF Submits, Decides, Http

\* Once an answer is told, the stages say nothing more.
LEMMA AnswerFits ==
  ASSUME NEW k, NEW s, NEW files, NEW now, k \in CallType, s \subseteq Statuses \cup {"absent"},
         k.id = None => s = {}, k.at = "answer", Told(k, s, files, now)
  PROVE  CallFits(k, s, files, now)
  BY DEF CallFits, FileFits, WayFits, CheckFits, WriteFits, LogFits, OnItsWay

LEMMA HadSame ==
  ASSUME NEW k, NEW k2, k2.id = k.id, Submits(k2) <=> Submits(k),
         NEW s, NEW files, NEW now, NEW t, HadBy(k, s, files, now, t)
  PROVE  HadBy(k2, s, files, now, t)
  BY Zenon DEF HadBy

\* Nothing is said of the request but that it did not work out.
LEMMA FailsFits ==
  ASSUME NEW k, NEW s, NEW files, NEW now, CallFits(k, s, files, now)
  PROVE  CallFits(Failing(k), s, files, now)
  <1> DEFINE k1 == Answered(k, CodeFailed(k), None)
             k2 == Failing(k)
  <1>1. k \in CallType /\ s \subseteq Statuses \cup {"absent"} /\ (k.id = None => s = {})
    BY DEF CallFits
  <1>2. /\ CodeFailed(k) \in {3, ServerError} /\ CodeFailed(k) \in ExitCodes \cup HTTPCodes
        /\ CodeFailed(k) \notin {0, 1, 4, OK, Accepted, NotFound, Conflict}
    BY CodesHold, CodesDiffer DEF CodeFailed
  <1>3. k1 \in CallType /\ k1.at = "answer" /\ k1.code = CodeFailed(k) /\ k1.says = None
        /\ k1.id = k.id
    BY <1>1, <1>2, AnswerFrame
  <1>4. k2 = [k1 EXCEPT !.failed = TRUE]
    BY DEF Failing
  <1> HIDE DEF k1, k2
  <1>5. k2 \in CallType
    BY <1>3, <1>4 DEF CallType
  <1>6. /\ k2.at = "answer" /\ k2.code = CodeFailed(k) /\ k2.says = None
        /\ k2.id = k.id /\ k2.failed
    BY <1>3, <1>4 DEF CallType
  <1>7. Told(k2, s, files, now)
    BY <1>2, <1>6 DEF Told, CodeHides
  <1>8. CallFits(k2, s, files, now)
    BY <1>1, <1>5, <1>6, <1>7, AnswerFits
  <1> QED
    BY <1>8 DEF k2

\* Store.Add refused: nothing was written.
LEMMA RefusedFits ==
  ASSUME NEW k, NEW s, NEW files, NEW now, CallFits(k, s, files, now), ~k.wrote
  PROVE  CallFits(Answered(k, CodeFailed(k), None), s, files, now)
  <1> DEFINE k2 == Answered(k, CodeFailed(k), None)
  <1>1. k \in CallType /\ s \subseteq Statuses \cup {"absent"} /\ (k.id = None => s = {})
    BY DEF CallFits
  <1>2. /\ CodeFailed(k) \in ExitCodes \cup HTTPCodes
        /\ CodeFailed(k) \notin {0, 1, 4, OK, Accepted, NotFound, Conflict}
    BY CodesHold, CodesDiffer DEF CodeFailed
  <1>3. k2 \in CallType /\ k2.at = "answer" /\ k2.code = CodeFailed(k) /\ k2.says = None
        /\ k2.id = k.id /\ ~k2.wrote
    BY <1>1, <1>2, AnswerFrame
  <1> HIDE DEF k2
  <1>4. Told(k2, s, files, now)
    BY <1>2, <1>3 DEF Told, CodeHides
  <1>5. CallFits(k2, s, files, now)
    BY <1>1, <1>3, <1>4, AnswerFits
  <1> QED
    BY <1>5 DEF k2

\* The file was not there when it was read.
LEMMA AbsentFits ==
  ASSUME NEW k, NEW s, NEW files, NEW now, World(files, now), CallFits(k, s, files, now),
         k.at = "read", files[k.id] = None
  PROVE  CallFits(Answered(k, CodeAbsent(k), None), s, files, now)
  <1> DEFINE k2 == Answered(k, CodeAbsent(k), None)
  <1>1. k \in CallType /\ s \subseteq Statuses \cup {"absent"} /\ (k.id = None => s = {})
    BY DEF CallFits
  <1>2. k.id \in Ids /\ StatusIn(files, k.id, now) \in s /\ ~k.wrote
    BY DEF CallFits, WayFits, OnItsWay
  <1>3. "absent" \in s
    BY <1>2, StatusInFacts
  <1>4. /\ CodeAbsent(k) \in ExitCodes \cup HTTPCodes
        /\ CodeAbsent(k) \notin {0, 1, 4, OK, Accepted, Conflict}
    BY CodesHold, CodesDiffer DEF CodeAbsent
  <1>5. k2 \in CallType /\ k2.at = "answer" /\ k2.code = CodeAbsent(k) /\ k2.says = None
        /\ k2.id = k.id /\ ~k2.wrote
    BY <1>1, <1>2, <1>4, AnswerFrame
  <1> HIDE DEF k2
  <1>6. Told(k2, s, files, now)
    BY <1>3, <1>4, <1>5 DEF Told, CodeHides
  <1>7. CallFits(k2, s, files, now)
    BY <1>1, <1>5, <1>6, AnswerFits
  <1> QED
    BY <1>7 DEF k2

\* What Get makes of a record it read is what the request was at some moment.
LEMMA CheckedHad ==
  ASSUME NEW k, NEW s, NEW files, NEW now, World(files, now), CallFits(k, s, files, now),
         k.at = "check"
  PROVE  /\ HadBy(k, s, files, now, StatusAt(k.rec, now))
         /\ StatusAt(k.rec, now) \in Statuses
         /\ StatusAt(k.rec, now) = "pending" => k.rec.status = "pending" /\ "pending" \in s
  <1> DEFINE t == StatusAt(k.rec, now)
  <1>1. k.id \in Ids
    BY DEF CallFits, WayFits, OnItsWay
  <1>2. k.rec \in Filing /\ files[k.id] # None /\ files[k.id].expires = k.rec.expires
    BY DEF CallFits, CheckFits, OnFile
  <1>3. /\ t \in Statuses
        /\ t = "expired" => k.rec.status = "pending" /\ k.rec.expires # None /\ now > k.rec.expires
        /\ t # "expired" => t = k.rec.status
        /\ k.rec.status # "expired"
    BY <1>2, StatusFacts DEF World
  <1>4. k.rec.status \in s \/ (k.rec.status = "pending" /\ "expired" \in s
                               /\ k.rec.expires # None /\ now > k.rec.expires)
    BY DEF CallFits, CheckFits
  <1>5. k.rec.status = "pending" /\ k.rec.expires # None /\ now > k.rec.expires => t = "expired"
    BY DEF StatusAt
  <1>6. now > k.rec.expires /\ k.rec.expires # None => Late(files, k.id, now)
    BY <1>1, <1>2 DEF Late
  <1> HIDE DEF t
  <1>7. CASE t = "expired"
    BY <1>3, <1>4, <1>6, <1>7, Zenon DEF HadBy, t
  <1>8. CASE t # "expired"
    <2>1. t = k.rec.status /\ t \in s
      BY <1>3, <1>4, <1>5, <1>8, Zenon
    <2> QED
      BY <1>3, <2>1 DEF HadBy, t
  <1> QED
    BY <1>7, <1>8

\* ErrExpired or ErrAlreadyDecided.
LEMMA DecidedFits ==
  ASSUME NEW k, NEW s, NEW files, NEW now, World(files, now), CallFits(k, s, files, now),
         k.at = "check", Decides(k), StatusAt(k.rec, now) # "pending"
  PROVE  CallFits(Answered(k, CodeRefused(k.name, StatusAt(k.rec, now)), None), s, files, now)
  <1> DEFINE t    == StatusAt(k.rec, now)
             code == CodeRefused(k.name, t)
             k2   == Answered(k, code, None)
  <1>1. k \in CallType /\ s \subseteq Statuses \cup {"absent"} /\ (k.id = None => s = {})
    BY DEF CallFits
  <1>2. HadBy(k, s, files, now, t) /\ t \in Verdicts \cup {"expired"}
    BY CheckedHad DEF Statuses
  <1>3. ~k.wrote /\ ~Submits(k)
    BY NamesDiffer DEF CallFits, WayFits, OnItsWay
  <1>4. /\ code \in ExitCodes \cup HTTPCodes
        /\ code \notin {0, OK, NotFound}
        /\ code = 4 => t = "expired"
    BY CodesHold, CodesDiffer DEF CodeRefused
  <1> HIDE DEF t, code
  <1>5. /\ k2 \in CallType /\ k2.at = "answer" /\ k2.code = code /\ k2.says = None
        /\ k2.id = k.id /\ ~k2.wrote /\ ~Submits(k2) /\ (Submits(k2) <=> Submits(k))
    BY <1>1, <1>3, <1>4, AnswerFrame
  <1> HIDE DEF k2
  <1>6. HadBy(k2, s, files, now, t)
    BY <1>2, <1>5, HadSame
  <1>7. Told(k2, s, files, now)
    BY <1>2, <1>4, <1>5, <1>6 DEF Told, CodeHides
  <1>8. CallFits(k2, s, files, now)
    BY <1>1, <1>5, <1>7, AnswerFits
  <1> QED
    BY <1>8 DEF k2, code, t

\* show, GET and submit --wait tell the status that was found.
LEMMA SaysFits ==
  ASSUME NEW k, NEW s, NEW files, NEW now, CallFits(k, s, files, now), ~Decides(k),
         NEW t \in Statuses, HadBy(k, s, files, now, t)
  PROVE  CallFits(Answered(k, CodeFor(k.name, t), t), s, files, now)
  <1> DEFINE code == CodeFor(k.name, t)
             k2   == Answered(k, code, t)
  <1>1. k \in CallType /\ s \subseteq Statuses \cup {"absent"} /\ (k.id = None => s = {})
    BY DEF CallFits
  <1>2. code \in ExitCodes \cup HTTPCodes /\ code \notin {NotFound, Conflict}
    BY CodesHold, CodesDiffer DEF CodeFor, exitFor
  <1>3. code = CodeFor(k.name, t)
    OBVIOUS
  <1> HIDE DEF code
  <1>4. /\ k2 \in CallType /\ k2.at = "answer" /\ k2.code = code /\ k2.says = t
        /\ k2.id = k.id /\ k2.name = k.name /\ ~Decides(k2) /\ (Submits(k2) <=> Submits(k))
    BY <1>1, <1>2, AnswerFrame
  <1> HIDE DEF k2
  <1>5. HadBy(k2, s, files, now, t)
    BY <1>4, HadSame
  <1>6. t # None
    BY NoneApart
  <1>7. Told(k2, s, files, now)
    BY <1>2, <1>3, <1>4, <1>5, <1>6 DEF Told, CodeHides
  <1>8. CallFits(k2, s, files, now)
    BY <1>1, <1>4, <1>7, AnswerFits
  <1> QED
    BY <1>8 DEF k2, code

\* A decision is confirmed.
LEMMA DoneFits ==
  ASSUME NEW k, NEW s, NEW files, NEW now, CallFits(k, s, files, now),
         k.at = "log", Decides(k)
  PROVE  CallFits(Answered(k, CodeDone(k), None), s, files, now)
  <1> DEFINE k2 == Answered(k, CodeDone(k), None)
  <1>1. k \in CallType /\ s \subseteq Statuses \cup {"absent"} /\ (k.id = None => s = {})
    BY DEF CallFits
  <1>2. {"pending", k.verdict} \subseteq s /\ ~Submits(k)
    BY NamesDiffer DEF CallFits, LogFits
  <1>3. /\ CodeDone(k) \in ExitCodes \cup HTTPCodes
        /\ CodeDone(k) \notin {4, NotFound, Conflict}
    BY CodesHold, CodesDiffer DEF CodeDone
  <1>4. /\ k2 \in CallType /\ k2.at = "answer" /\ k2.code = CodeDone(k) /\ k2.says = None
        /\ k2.id = k.id /\ k2.verdict = k.verdict /\ Decides(k2) /\ ~Submits(k2)
        /\ (Http(k2) <=> Http(k))
    BY <1>1, <1>2, <1>3, AnswerFrame
  <1>5. CodeDone(k2) = CodeDone(k)
    BY <1>4, Zenon DEF CodeDone
  <1> HIDE DEF k2
  <1>6. Told(k2, s, files, now)
    BY <1>2, <1>3, <1>4, <1>5 DEF Told, CodeHides
  <1>7. CallFits(k2, s, files, now)
    BY <1>1, <1>4, <1>6, AnswerFits
  <1> QED
    BY <1>7 DEF k2

-----------------------------------------------------------------------------
\* A call goes on.

\* Changing the stage keeps everything else.
LEMMA StageFrame ==
  ASSUME NEW k \in CallType, NEW at \in {"read", "check", "write", "log"},
         NEW k2, k2 = [k EXCEPT !.at = at]
  PROVE  /\ k2 \in CallType
         /\ k2.at = at /\ k2.name = k.name /\ k2.id = k.id /\ k2.verdict = k.verdict
         /\ (k2.wrote <=> k.wrote) /\ k2.rec = k.rec
         /\ (Submits(k2) <=> Submits(k)) /\ (Decides(k2) <=> Decides(k))
  <1>1. k2 \in CallType
    BY DEF CallType
  <1>2. /\ k2.at = at /\ k2.name = k.name /\ k2.id = k.id /\ k2.verdict = k.verdict
        /\ k2.wrote = k.wrote /\ k2.rec = k.rec
    BY DEF CallType
  <1> QED
    BY <1>1, <1>2 DEF Submits, Decides

LEMMA ReadFits ==
  ASSUME NEW k, NEW s, NEW files, NEW now, World(files, now), CallFits(k, s, files, now),
         k.at = "read", files[k.id] # None
  PROVE  CallFits([k EXCEPT !.at = "check", !.rec = files[k.id]], s, files, now)
  <1> DEFINE k2 == [k EXCEPT !.at = "check", !.rec = files[k.id]]
  <1>1. k \in CallType /\ s \subseteq Statuses \cup {"absent"} /\ (k.id = None => s = {})
    BY DEF CallFits
  <1>2. /\ k.id \in Ids /\ StatusIn(files, k.id, now) \in s
        /\ Decides(k) => k.verdict \in Verdicts
        /\ ~(Decides(k) /\ k.wrote)
    BY DEF CallFits, WayFits, OnItsWay
  <1>3. files[k.id] \in Filing /\ StatusAt(files[k.id], now) \in s
    BY <1>2, StatusInFacts
  <1>4. /\ k2 \in CallType /\ k2.at = "check" /\ k2.name = k.name /\ k2.id = k.id
        /\ k2.verdict = k.verdict /\ (k2.wrote <=> k.wrote) /\ k2.rec = files[k.id]
        /\ (Decides(k2) <=> Decides(k))
    <2>1. PICK rec \in Filing : rec = files[k.id]
      BY <1>3
    <2>2. k2 = [k EXCEPT !.at = "check", !.rec = rec]
      BY <2>1
    <2> HIDE DEF k2
    <2>3. k2 \in CallType
      BY <1>1, <2>2 DEF CallType
    <2>4. /\ k2.at = "check" /\ k2.name = k.name /\ k2.id = k.id
          /\ k2.verdict = k.verdict /\ k2.wrote = k.wrote /\ k2.rec = rec
      BY <1>1, <2>2 DEF CallType
    <2> QED
      BY <2>1, <2>3, <2>4 DEF Decides
  <1> HIDE DEF k2
  <1>5. WayFits(k2, s, files, now)
    BY <1>2, <1>4 DEF WayFits
  <1>6. OnFile(k2, files)
    BY <1>3, <1>4 DEF OnFile
  <1>7. CheckFits(k2, s, files, now)
    <2>1. /\ StatusAt(files[k.id], now) = "expired" =>
               /\ files[k.id].status = "pending" /\ files[k.id].expires # None
               /\ now > files[k.id].expires
          /\ StatusAt(files[k.id], now) # "expired" =>
               StatusAt(files[k.id], now) = files[k.id].status
      BY <1>3, StatusFacts DEF World
    <2> QED
      BY <1>3, <1>4, <1>6, <2>1, Zenon DEF CheckFits
  <1>8. FileFits(k2) /\ WriteFits(k2, s, files) /\ LogFits(k2, s, files)
    BY <1>4 DEF FileFits, WriteFits, LogFits
  <1>9. CallFits(k2, s, files, now)
    BY <1>1, <1>4, <1>5, <1>7, <1>8 DEF CallFits
  <1> QED
    BY <1>9 DEF k2

LEMMA GoesFits ==
  ASSUME NEW k, NEW s, NEW files, NEW now, World(files, now), CallFits(k, s, files, now),
         k.at = "check", Decides(k), StatusAt(k.rec, now) = "pending"
  PROVE  CallFits([k EXCEPT !.at = "write"], s, files, now)
  <1> DEFINE k2 == [k EXCEPT !.at = "write"]
  <1>1. k \in CallType /\ s \subseteq Statuses \cup {"absent"} /\ (k.id = None => s = {})
    BY DEF CallFits
  <1>2. /\ k.id \in Ids /\ StatusIn(files, k.id, now) \in s
        /\ k.verdict \in Verdicts /\ ~k.wrote
    BY DEF CallFits, WayFits, OnItsWay
  <1>3. OnFile(k, files) /\ k.rec.status = "pending" /\ "pending" \in s
    BY CheckedHad DEF CallFits, CheckFits
  <1>4. /\ k2 \in CallType /\ k2.at = "write" /\ k2.name = k.name /\ k2.id = k.id
        /\ k2.verdict = k.verdict /\ (k2.wrote <=> k.wrote) /\ k2.rec = k.rec
        /\ Decides(k2)
    BY <1>1, StageFrame
  <1> HIDE DEF k2
  <1>5. WayFits(k2, s, files, now) /\ WriteFits(k2, s, files)
    BY <1>2, <1>3, <1>4 DEF WayFits, WriteFits, OnFile
  <1>6. FileFits(k2) /\ CheckFits(k2, s, files, now) /\ LogFits(k2, s, files)
    BY <1>4 DEF FileFits, CheckFits, LogFits
  <1>7. CallFits(k2, s, files, now)
    BY <1>1, <1>4, <1>5, <1>6 DEF CallFits
  <1> QED
    BY <1>7 DEF k2

\* Wait reads once more.
LEMMA PollFits ==
  ASSUME NEW k, NEW s, NEW files, NEW now, CallFits(k, s, files, now),
         k.at \in {"check", "log"}, ~Decides(k)
  PROVE  CallFits([k EXCEPT !.at = "read"], s, files, now)
  <1> DEFINE k2 == [k EXCEPT !.at = "read"]
  <1>1. k \in CallType /\ s \subseteq Statuses \cup {"absent"} /\ (k.id = None => s = {})
    BY DEF CallFits
  <1>2. k.id \in Ids /\ StatusIn(files, k.id, now) \in s /\ files[k.id] # None
    BY DEF CallFits, WayFits, OnItsWay, CheckFits, LogFits, OnFile
  <1>3. /\ k2 \in CallType /\ k2.at = "read" /\ k2.id = k.id /\ ~Decides(k2)
    BY <1>1, StageFrame
  <1> HIDE DEF k2
  <1>4. WayFits(k2, s, files, now)
    BY <1>2, <1>3 DEF WayFits
  <1>5. FileFits(k2) /\ CheckFits(k2, s, files, now) /\ WriteFits(k2, s, files)
        /\ LogFits(k2, s, files)
    BY <1>3 DEF FileFits, CheckFits, WriteFits, LogFits
  <1>6. CallFits(k2, s, files, now)
    BY <1>1, <1>3, <1>4, <1>5 DEF CallFits
  <1> QED
    BY <1>6 DEF k2

\* What a submission has written is what it may say.
LEMMA LoggedHad ==
  ASSUME NEW k, NEW s, NEW files, NEW now, CallFits(k, s, files, now), k.at = "log", ~Decides(k)
  PROVE  k.rec.status \in Statuses /\ HadBy(k, s, files, now, k.rec.status)
  <1>1. k.rec.status \in Statuses
    BY DEF CallFits, LogFits, OnFile, Filing, Statuses
  <1>2. Submits(k) /\ (k.rec.status \in s \/ (k.rec.status = "pending" /\ "expired" \in s))
    BY DEF CallFits, LogFits
  <1> QED
    BY <1>1, <1>2, Zenon DEF HadBy

LEMMA FiledFits ==
  ASSUME NEW k, NEW s, NEW files, NEW now, World(files, now), CallFits(k, s, files, now),
         k.at = "file", NEW id \in Ids, files[id] = None,
         NEW files2, files2 = [files EXCEPT ![id] = k.rec],
         NEW k2, k2 = [k EXCEPT !.at = "log", !.id = id, !.wrote = TRUE]
  PROVE  /\ World(files2, now) /\ KeepsFiles(files, now, files2, now)
         /\ CallFits(k2, {StatusIn(files2, id, now)}, files2, now)
  <1> DEFINE t == StatusIn(files2, id, now)
             s2 == {t}
  <1>1. k \in CallType /\ Submits(k) /\ k.rec \in Filing /\ ~Decides(k)
    BY NamesDiffer DEF CallFits, FileFits
  <1>2. files2[id] = k.rec /\ k.rec # None /\ id # None
    BY <1>1, NoneApart DEF World
  <1>3. World(files2, now)
    BY <1>1 DEF World
  <1>4. KeepsFiles(files, now, files2, now)
    BY DEF KeepsFiles, World
  <1>5. t = StatusAt(k.rec, now)
    BY <1>2 DEF StatusIn
  <1>6. /\ t \in Statuses
        /\ t = "expired" => k.rec.status = "pending"
        /\ t # "expired" => t = k.rec.status
    BY <1>1, <1>5, StatusFacts DEF World
  <1>7. k2 \in CallType
    BY <1>1 DEF CallType
  <1>8. k2.at = "log" /\ k2.name = k.name /\ k2.id = id /\ k2.rec = k.rec
    BY <1>1 DEF CallType
  <1>9. Submits(k2) /\ ~Decides(k2)
    BY <1>1, <1>8 DEF Submits, Decides
  <1> HIDE DEF t
  <1>10. OnFile(k2, files2)
    BY <1>1, <1>2, <1>8 DEF OnFile
  <1>11. LogFits(k2, s2, files2)
    <2>1. k.rec.status \in s2 \/ (k.rec.status = "pending" /\ "expired" \in s2)
      BY <1>6
    <2> HIDE DEF s2
    <2> QED
      BY <1>8, <1>9, <1>10, <2>1 DEF LogFits
  <1>12. WayFits(k2, s2, files2, now)
    <2>1. StatusIn(files2, id, now) \in s2
      BY DEF t
    <2> HIDE DEF s2
    <2> QED
      BY <1>2, <1>8, <1>9, <2>1 DEF WayFits
  <1>13. FileFits(k2) /\ CheckFits(k2, s2, files2, now) /\ WriteFits(k2, s2, files2)
    BY <1>8 DEF FileFits, CheckFits, WriteFits
  <1>14. s2 \subseteq Statuses \cup {"absent"}
    BY <1>6
  <1> HIDE DEF s2
  <1>15. CallFits(k2, s2, files2, now)
    BY <1>2, <1>7, <1>8, <1>11, <1>12, <1>13, <1>14 DEF CallFits
  <1> QED
    BY <1>3, <1>4, <1>15 DEF s2, t

LEMMA ResolvedFacts ==
  ASSUME NEW rec \in Filing, NEW verdict \in Verdicts, NEW now \in Nat
  PROVE  LET r == Resolved(rec, verdict, NoReason, now)
         IN  r \in Filing /\ r.status = verdict /\ r.expires = rec.expires
                          /\ StatusAt(r, now) = verdict
  <1> DEFINE r == Resolved(rec, verdict, NoReason, now)
  <1>1. r.status = verdict /\ r.expires = rec.expires
    BY DEF Resolved, Filing
  <1>2. now # None
    BY NoneApart
  <1>3. r \in Filing
    BY <1>2 DEF Resolved, Filing, OptTime, Decided, Verdicts
  <1>4. StatusAt(r, now) = verdict
    BY <1>1 DEF StatusAt, Verdicts
  <1> QED
    BY <1>1, <1>3, <1>4

LEMMA WrittenFits ==
  ASSUME NEW k, NEW s, NEW files, NEW now, World(files, now), CallFits(k, s, files, now),
         k.at = "write",
         NEW rec, rec = Resolved(k.rec, k.verdict, NoReason, now),
         NEW files2, files2 = [files EXCEPT ![k.id] = rec],
         NEW k2, k2 = [k EXCEPT !.at = "log", !.rec = rec, !.wrote = TRUE]
  PROVE  /\ World(files2, now) /\ KeepsFiles(files, now, files2, now)
         /\ CallFits(k2, s \cup {StatusIn(files2, k.id, now)}, files2, now)
  <1> DEFINE t == StatusIn(files2, k.id, now)
             s2 == s \cup {t}
  <1>1. k \in CallType /\ s \subseteq Statuses \cup {"absent"} /\ k.id \in Ids
        /\ k.verdict \in Verdicts
    BY DEF CallFits, WayFits, OnItsWay, WriteFits
  <1>2. /\ OnFile(k, files) /\ Decides(k) /\ "pending" \in s
    BY DEF CallFits, WriteFits
  <1>3. /\ rec \in Filing /\ rec.status = k.verdict /\ rec.expires = k.rec.expires
        /\ StatusAt(rec, now) = k.verdict
    BY <1>1, <1>2, ResolvedFacts DEF OnFile, World
  <1>4. files2[k.id] = rec /\ rec # None /\ k.id # None
    BY <1>1, <1>3, NoneApart DEF World
  <1>5. World(files2, now)
    BY <1>1, <1>3 DEF World
  <1>6. KeepsFiles(files, now, files2, now)
    BY <1>1, <1>2, <1>3, <1>4 DEF KeepsFiles, World, OnFile
  <1>7. t = k.verdict
    BY <1>3, <1>4 DEF StatusIn
  <1>8. k2 \in CallType
    BY <1>1, <1>3 DEF CallType
  <1>9. k2.at = "log" /\ k2.name = k.name /\ k2.id = k.id /\ k2.rec = rec
        /\ k2.verdict = k.verdict
    BY <1>1 DEF CallType
  <1>10. Decides(k2)
    BY <1>2, <1>9 DEF Decides
  <1>11. OnFile(k2, files2)
    BY <1>3, <1>4, <1>9 DEF OnFile
  <1>12. {"pending", k.verdict} \subseteq s2
    BY <1>2, <1>7
  <1>13. StatusIn(files2, k.id, now) \in s2
    OBVIOUS
  <1>14. s2 \subseteq Statuses \cup {"absent"}
    BY <1>1, <1>7 DEF Statuses
  <1> HIDE DEF s2, t
  <1>15. WayFits(k2, s2, files2, now)
    BY <1>1, <1>4, <1>9, <1>13 DEF WayFits
  <1>16. FileFits(k2) /\ CheckFits(k2, s2, files2, now) /\ WriteFits(k2, s2, files2)
    BY <1>9 DEF FileFits, CheckFits, WriteFits
  <1>17. LogFits(k2, s2, files2)
    BY <1>9, <1>10, <1>11, <1>12 DEF LogFits
  <1>18. CallFits(k2, s2, files2, now)
    BY <1>4, <1>8, <1>9, <1>14, <1>15, <1>16, <1>17 DEF CallFits
  <1> QED
    BY <1>5, <1>6, <1>18 DEF s2, t

-----------------------------------------------------------------------------
\* What the doors make of a submission.

Refusals == {2, 3, BadRequest, Unauthorized}

Outcome(out) == (out.rec = None /\ out.code \in Refusals) \/ out.rec \in Filing

LEMMA RefuseOutcome == \A code \in Refusals : Outcome(Refuse(code))
  BY DEF Outcome, Refuse

LEMMA FileOutcome == \A rec \in Filing : Outcome(File(rec))
  BY DEF Outcome, File

LEMMA EffectStatus ==
  ASSUME NEW effect \in Effects
  PROVE  /\ StatusOfEffect(effect) \in Verdicts \cup {"pending"}
         /\ exitFor(StatusOfEffect(effect)) \in {0, 1, 4}
         /\ CodeFor("submit", StatusOfEffect(effect)) = exitFor(StatusOfEffect(effect))
         /\ \A other \in Effects : StatusOfEffect(other) = StatusOfEffect(effect) => other = effect
  BY DEF StatusOfEffect, exitFor, CodeFor, Effects, Verdicts

LEMMA NewRequestFiling ==
  ASSUME clock \in Nat, NEW effect \in Effects, NEW expires \in Int \cup {None}
  PROVE  /\ NewRequest(effect, NoReason, expires, clock) \in Filing
         /\ NewRequest(effect, NoReason, expires, clock).status = StatusOfEffect(effect)
         /\ NewRequest(effect, NoReason, expires, clock).expires = expires
  <1>1. StatusOfEffect(effect) \in Verdicts \cup {"pending"}
    BY EffectStatus
  <1>2. effect \in {"allow", "deny"} <=> StatusOfEffect(effect) \in Verdicts
    BY DEF StatusOfEffect, Effects, Verdicts
  <1>3. clock # None
    BY NoneApart
  <1> QED
    BY <1>1, <1>2, <1>3 DEF NewRequest, Filing, OptTime, Decided

LEMMA Expiry ==
  ASSUME clock \in Nat, NEW ttl \in TTLs
  PROVE  /\ (IF ttl > 0 THEN clock + ttl * Second ELSE None) \in Int \cup {None}
         /\ (IF ttl > 0 THEN clock + Seconds(ttl) ELSE None) \in Int \cup {None}
  <1>1. ttl \in Int /\ Second \in Nat \ {0} /\ MaxDuration \in Nat
    BY DoorsAssumption
  <1>2. ttl * Second \in Int
    BY <1>1
  <1>3. \A d \in Int : Wrap(d) \in Int
    BY <1>1 DEF Wrap
  <1>4. Seconds(ttl) \in Int
    BY <1>2, <1>3 DEF Seconds
  <1> QED
    BY <1>1, <1>2, <1>4

LEMMA SubmitCLIOutcome ==
  ASSUME clock \in Nat, NEW pol, NEW action \in Actions \cup {""}, NEW ttl \in TTLs, NEW params
  PROVE  Outcome(SubmitCLI(pol, action, ttl, params))
  <1> DEFINE expires == IF ttl > 0 THEN clock + ttl * Second ELSE None
             usage == ~FitsDuration(ttl) \/ action = "" \/ ParamsBad(params)
             fails == ~Readable(pol) \/ params = "nan"
  <1>1. CASE usage
    <2>1. SubmitCLI(pol, action, ttl, params) = Refuse(2)
      BY <1>1, Zenon DEF SubmitCLI
    <2> QED
      BY <2>1, RefuseOutcome DEF Refusals
  <1>2. CASE ~usage /\ fails
    <2>1. SubmitCLI(pol, action, ttl, params) = Refuse(3)
      BY <1>2, Zenon DEF SubmitCLI
    <2> QED
      BY <2>1, RefuseOutcome DEF Refusals
  <1>3. CASE ~usage /\ ~fails
    <2>1. SubmitCLI(pol, action, ttl, params) =
            File(NewRequest(pol[action], NoReason, expires, clock))
      BY <1>3, Zenon DEF SubmitCLI
    <2>2. pol[action] \in Effects
      BY <1>3, DoorsAssumption DEF Readable
    <2>3. expires \in Int \cup {None}
      BY Expiry
    <2> HIDE DEF expires
    <2>4. NewRequest(pol[action], NoReason, expires, clock) \in Filing
      BY <2>2, <2>3, NewRequestFiling
    <2> QED
      BY <2>1, <2>4, FileOutcome
  <1> QED
    BY <1>1, <1>2, <1>3, Zenon

LEMMA SubmitHTTPOutcome ==
  ASSUME clock \in Nat, BootTypeOK, server # None,
         NEW action \in Actions \cup {""}, NEW ttl \in TTLs, NEW body
  PROVE  Outcome(SubmitHTTP(action, ttl, body))
  <1> DEFINE expires == IF ttl > 0 THEN clock + Seconds(ttl) ELSE None
             refused == body = "bad" \/ action = "" \/ ttl < 0
  <1>1. CASE refused
    <2>1. SubmitHTTP(action, ttl, body) = Refuse(BadRequest)
      BY <1>1, Zenon DEF SubmitHTTP
    <2> QED
      BY <2>1, RefuseOutcome DEF Refusals
  <1>2. CASE ~refused
    <2>1. SubmitHTTP(action, ttl, body)
            = File(NewRequest(server.policy[action], NoReason, expires, clock))
      BY <1>2, Zenon DEF SubmitHTTP
    <2>2. server.policy[action] \in Effects
      <3>1. server.policy \in Policies
        BY DEF BootTypeOK, Server
      <3> QED
        BY <1>2, <3>1, DoorsAssumption
    <2>3. expires \in Int \cup {None}
      BY Expiry
    <2> HIDE DEF expires
    <2>4. NewRequest(server.policy[action], NoReason, expires, clock) \in Filing
      BY <2>2, <2>3, NewRequestFiling
    <2> QED
      BY <2>1, <2>4, FileOutcome
  <1> QED
    BY <1>1, <1>2, Zenon

-----------------------------------------------------------------------------
\* A call is taken up.

\* A route is served by a server, and without the token it only answers 401.
Admitted(k) ==
  k.name \in Routes =>
    server # None /\ (k.shown \/ ~server.token \/ (k.at = "answer" /\ k.code = Unauthorized))

Starts(k) ==
  CallFits(k, IF k.id = None THEN {} ELSE {StatusIn(requests, k.id, clock)}, requests, clock)

Begins(c) == \E k : Set(c, k) /\ Starts(k) /\ Admitted(k)

LEMMA AnswerBegins ==
  ASSUME NEW c, NEW name \in CLICalls \cup HTTPCalls, NEW code, NEW shown \in BOOLEAN,
         QuietCode(name, code), AnswerOnly(c, name, code, shown),
         name \in Routes => server # None /\ (shown \/ ~server.token \/ code = Unauthorized)
  PROVE  Begins(c)
  <1> DEFINE k == Answered([NoCall EXCEPT !.name = name, !.shown = shown], code, None)
  <1>1. Set(c, k)
    BY DEF AnswerOnly
  <1>2. CallFits(k, {}, requests, clock)
    BY QuietAnswer
  <1>3. k.id = None /\ k.name = name /\ k.at = "answer" /\ k.code = code
    BY DEF Answered, NoCall
  <1>4. k.shown <=> shown
    BY DEF Answered, NoCall
  <1> HIDE DEF k
  <1>5. Starts(k)
    BY <1>2, <1>3, Zenon DEF Starts
  <1>6. Admitted(k)
    BY <1>3, <1>4, Zenon DEF Admitted
  <1> QED
    BY <1>1, <1>5, <1>6, Zenon DEF Begins

LEMMA QuietRefusals ==
  \A code \in Refusals :
    QuietCode("submit", code) /\ QuietCode("POST requests", code)
  <1>1. \A code \in Refusals : code \in ExitCodes \cup HTTPCodes
    BY CodesHold DEF Refusals
  <1>2. \A code \in Refusals : code \notin {0, 1, 4, OK, Accepted, NotFound, Conflict}
    BY DEF Refusals, OK, Accepted, BadRequest, Unauthorized, NotFound, Conflict
  <1> QED
    BY <1>1, <1>2 DEF QuietCode

LEMMA SubmitBegins ==
  ASSUME NEW c, NEW name \in {"submit", "POST requests"}, NEW out, Outcome(out),
         NEW patient \in BOOLEAN, NEW shown \in BOOLEAN,
         BeginSubmit(c, name, out, patient, shown),
         name \in Routes =>
           server # None /\ (shown \/ ~server.token \/ (out.rec = None /\ out.code = Unauthorized))
  PROVE  Begins(c)
  <1>1. CASE out.rec = None
    <2>1. out.code \in Refusals
      BY <1>1, NoneApart DEF Outcome
    <2>2. QuietCode(name, out.code)
      BY <2>1, QuietRefusals
    <2>3. AnswerOnly(c, name, out.code, shown)
      BY <1>1 DEF BeginSubmit
    <2>4. name \in CLICalls \cup HTTPCalls
      BY DEF CLICalls, HTTPCalls
    <2> QED
      BY <1>1, <2>2, <2>3, <2>4, AnswerBegins, Zenon
  <1>2. CASE out.rec # None
    <2> DEFINE k == [NoCall EXCEPT !.at = "file", !.name = name, !.rec = out.rec,
                                   !.patient = patient, !.shown = shown]
    <2>1. out.rec \in Filing
      BY <1>2 DEF Outcome
    <2>2. PICK rec \in Filing : rec = out.rec
      BY <2>1
    <2>3. k = [NoCall EXCEPT !.at = "file", !.name = name, !.rec = rec,
                             !.patient = patient, !.shown = shown]
      BY <2>2
    <2>4. Set(c, k)
      BY <1>2 DEF BeginSubmit
    <2> HIDE DEF k
    <2>5. CallFits(k, {}, requests, clock)
      BY <2>3, FileBegins
    <2>6. k.id = None /\ k.name = name
      BY <2>3 DEF NoCall
    <2>7. k.shown <=> shown
      BY <2>3 DEF NoCall
    <2>8. Starts(k)
      BY <2>5, <2>6, Zenon DEF Starts
    <2>9. Admitted(k)
      BY <1>2, <2>6, <2>7, Zenon DEF Admitted
    <2> QED
      BY <2>4, <2>8, <2>9, Zenon DEF Begins
  <1> QED
    BY <1>1, <1>2

LEMMA DecideBegins ==
  ASSUME World(requests, clock), NEW c, NEW name \in {"approve or deny", "POST decision"},
         NEW id \in Ids, NEW verdict \in Verdicts, NEW shown \in BOOLEAN,
         BeginDecide(c, name, id, verdict, shown),
         name \in Routes => server # None /\ (shown \/ ~server.token)
  PROVE  Begins(c)
  <1> DEFINE k == [NoCall EXCEPT !.at = "read", !.name = name, !.id = id, !.verdict = verdict,
                                 !.shown = shown]
  <1>1. Set(c, k)
    BY DEF BeginDecide
  <1>2. name \in CLICalls \cup HTTPCalls
    BY DEF CLICalls, HTTPCalls
  <1>3. k \in CallType
    BY <1>2, NoCallType DEF CallType
  <1>4. k.at = "read" /\ k.name = name /\ k.id = id /\ ~k.wrote /\ k.verdict = verdict
    BY DEF NoCall
  <1>5. k.shown <=> shown
    BY DEF NoCall
  <1> HIDE DEF k
  <1>6. CallFits(k, {StatusIn(requests, k.id, clock)}, requests, clock)
    BY <1>3, <1>4, ReadBegins
  <1>7. Starts(k)
    BY <1>4, <1>6, NoneApart, Zenon DEF Starts
  <1>8. Admitted(k)
    BY <1>4, <1>5, Zenon DEF Admitted
  <1> QED
    BY <1>1, <1>7, <1>8, Zenon DEF Begins

LEMMA GetBegins ==
  ASSUME World(requests, clock), NEW c, NEW name \in {"show", "GET request"}, NEW id \in Ids,
         NEW patient \in BOOLEAN, NEW shown \in BOOLEAN, BeginRead(c, name, id, patient, shown),
         name \in Routes => server # None /\ (shown \/ ~server.token)
  PROVE  Begins(c)
  <1> DEFINE k == [NoCall EXCEPT !.at = "read", !.name = name, !.id = id, !.patient = patient,
                                 !.shown = shown]
  <1>1. Set(c, k)
    BY DEF BeginRead
  <1>2. name \in CLICalls \cup HTTPCalls
    BY DEF CLICalls, HTTPCalls
  <1>3. k \in CallType
    BY <1>2, NoCallType DEF CallType
  <1>4. k.at = "read" /\ k.name = name /\ k.id = id /\ ~k.wrote
    BY DEF NoCall
  <1>5. k.shown <=> shown
    BY DEF NoCall
  <1> HIDE DEF k
  <1>6. ~Decides(k)
    BY <1>4 DEF Decides
  <1>7. CallFits(k, {StatusIn(requests, k.id, clock)}, requests, clock)
    BY <1>3, <1>4, <1>6, ReadBegins
  <1>8. Starts(k)
    BY <1>4, <1>7, NoneApart, Zenon DEF Starts
  <1>9. Admitted(k)
    BY <1>4, <1>5, Zenon DEF Admitted
  <1> QED
    BY <1>1, <1>8, <1>9, Zenon DEF Begins

LEMMA NoRoutes == CLICalls \cap Routes = {} /\ "GET healthz" \notin Routes
  BY DEF CLICalls, Routes, HTTPCalls

LEMMA CmdSubmitBegins ==
  ASSUME World(requests, clock), NEW c, CmdSubmit(c)
  PROVE  Begins(c)
  <1>1. PICK pol \in Policies \cup {policy}, action \in Actions \cup {""}, ttl \in TTLs,
             params \in Params, wait \in BOOLEAN :
          BeginSubmit(c, "submit", SubmitCLI(pol, action, ttl, params), wait, FALSE)
    BY DEF CmdSubmit
  <1> DEFINE out == SubmitCLI(pol, action, ttl, params)
  <1>2. Outcome(out)
    BY SubmitCLIOutcome DEF World
  <1>3. "submit" \notin Routes
    BY NoRoutes DEF CLICalls
  <1>4. BeginSubmit(c, "submit", out, wait, FALSE)
    BY <1>1
  <1> HIDE DEF out
  <1> QED
    BY <1>2, <1>3, <1>4, SubmitBegins

LEMMA PostRequestBegins ==
  ASSUME BootTypeOK, World(requests, clock), NEW c, PostRequest(c)
  PROVE  Begins(c)
  <1>1. PICK action \in Actions \cup {""}, ttl \in TTLs, body \in {"json", "bad"},
             shown \in BOOLEAN :
          BeginSubmit(c, "POST requests",
                      IF Allowed(shown) THEN SubmitHTTP(action, ttl, body)
                      ELSE Refuse(Unauthorized), FALSE, shown)
    BY DEF PostRequest
  <1> DEFINE out == IF Allowed(shown) THEN SubmitHTTP(action, ttl, body)
                    ELSE Refuse(Unauthorized)
  <1>2. server # None
    BY DEF PostRequest
  <1>3. Outcome(out)
    <2>1. Outcome(SubmitHTTP(action, ttl, body))
      BY <1>2, SubmitHTTPOutcome DEF World
    <2>2. Outcome(Refuse(Unauthorized))
      BY RefuseOutcome DEF Refusals
    <2> QED
      BY <2>1, <2>2, Zenon
  <1>4. shown \/ ~server.token \/ (out.rec = None /\ out.code = Unauthorized)
    <2>1. CASE Allowed(shown)
      BY <2>1, Zenon DEF Allowed
    <2>2. CASE ~Allowed(shown)
      <3>1. out = Refuse(Unauthorized)
        BY <2>2, Zenon
      <3> HIDE DEF out
      <3>2. out.rec = None /\ out.code = Unauthorized
        BY <3>1 DEF Refuse
      <3> QED
        BY <3>2, Zenon
    <2> QED
      BY <2>1, <2>2
  <1>5. BeginSubmit(c, "POST requests", out, FALSE, shown)
    BY <1>1
  <1> HIDE DEF out
  <1> QED
    BY <1>2, <1>3, <1>4, <1>5, SubmitBegins

LEMMA AllowedMeans == ASSUME NEW shown, Allowed(shown) PROVE shown \/ ~server.token
  BY Zenon DEF Allowed

LEMMA CmdDecideBegins ==
  ASSUME World(requests, clock), NEW c, CmdDecide(c)
  PROVE  Begins(c)
  <1>1. PICK id \in Ids, verdict \in Verdicts :
          BeginDecide(c, "approve or deny", id, verdict, FALSE)
    BY DEF CmdDecide
  <1>2. "approve or deny" \notin Routes
    BY NoRoutes DEF CLICalls
  <1> QED
    BY <1>1, <1>2, DecideBegins

\* The codes of calls that touch no request.
LEMMA QuietCodes ==
  /\ \A name \in HTTPCalls, code \in {BadRequest, Unauthorized} : QuietCode(name, code)
  /\ \A name \in {"GET requests", "GET policy", "GET healthz"}, code \in {OK, ServerError} :
       QuietCode(name, code)
  /\ \A name \in {"askfirst", "list", "log", "policy check", "policy test"}, code \in 0..4 :
       QuietCode(name, code)
  <1>1. /\ \A code \in {BadRequest, Unauthorized, ServerError} :
             code \notin {0, 1, 4, OK, Accepted, NotFound, Conflict}
        /\ OK \notin {NotFound, Conflict} /\ \A code \in 0..4 : code \notin {NotFound, Conflict}
    BY DEF OK, Accepted, BadRequest, Unauthorized, NotFound, Conflict, ServerError
  <1>2. /\ \A code \in {OK, BadRequest, Unauthorized, ServerError} : code \in HTTPCodes
        /\ \A code \in 0..4 : code \in ExitCodes
    BY CodesHold
  <1> QED
    BY <1>1, <1>2 DEF QuietCode

LEMMA PostDecisionBegins ==
  ASSUME World(requests, clock), NEW c, PostDecision(c)
  PROVE  Begins(c)
  <1>1. PICK id \in Ids, verdict \in Verdicts, body \in {"json", "empty", "bad"},
             shown \in BOOLEAN :
          IF ~Allowed(shown) THEN AnswerOnly(c, "POST decision", Unauthorized, shown)
          ELSE IF body = "bad" THEN AnswerOnly(c, "POST decision", BadRequest, shown)
          ELSE BeginDecide(c, "POST decision", id, verdict, shown)
    BY DEF PostDecision
  <1>2. server # None
    BY DEF PostDecision
  <1>3. /\ QuietCode("POST decision", Unauthorized) /\ QuietCode("POST decision", BadRequest)
        /\ "POST decision" \in CLICalls \cup HTTPCalls
    BY QuietCodes DEF HTTPCalls
  <1>4. CASE ~Allowed(shown)
    <2>1. AnswerOnly(c, "POST decision", Unauthorized, shown)
      BY <1>1, <1>4, Zenon
    <2> QED
      BY <1>2, <1>3, <2>1, AnswerBegins
  <1>5. CASE Allowed(shown) /\ body = "bad"
    <2>1. AnswerOnly(c, "POST decision", BadRequest, shown)
      BY <1>1, <1>5, Zenon
    <2>2. shown \/ ~server.token
      BY <1>5, AllowedMeans
    <2> QED
      BY <1>2, <1>3, <2>1, <2>2, AnswerBegins
  <1>6. CASE Allowed(shown) /\ body # "bad"
    <2>1. BeginDecide(c, "POST decision", id, verdict, shown)
      BY <1>1, <1>6, Zenon
    <2>2. shown \/ ~server.token
      BY <1>6, AllowedMeans
    <2> QED
      BY <1>2, <2>1, <2>2, DecideBegins
  <1> QED
    BY <1>4, <1>5, <1>6, Zenon

LEMMA CmdShowBegins ==
  ASSUME World(requests, clock), NEW c, CmdShow(c)
  PROVE  Begins(c)
  <1>1. PICK id \in Ids : BeginRead(c, "show", id, FALSE, FALSE)
    BY DEF CmdShow
  <1>2. "show" \notin Routes
    BY NoRoutes DEF CLICalls
  <1> QED
    BY <1>1, <1>2, GetBegins

LEMMA GetRequestBegins ==
  ASSUME World(requests, clock), NEW c, GetRequest(c)
  PROVE  Begins(c)
  <1>1. PICK id \in Ids, query \in {"none", "wait", "bad"}, shown \in BOOLEAN :
          IF ~Allowed(shown) THEN AnswerOnly(c, "GET request", Unauthorized, shown)
          ELSE IF query = "bad" THEN AnswerOnly(c, "GET request", BadRequest, shown)
          ELSE BeginRead(c, "GET request", id, query = "wait", shown)
    BY DEF GetRequest
  <1>2. server # None
    BY DEF GetRequest
  <1>3. /\ QuietCode("GET request", Unauthorized) /\ QuietCode("GET request", BadRequest)
        /\ "GET request" \in CLICalls \cup HTTPCalls
    BY QuietCodes DEF HTTPCalls
  <1>4. CASE ~Allowed(shown)
    <2>1. AnswerOnly(c, "GET request", Unauthorized, shown)
      BY <1>1, <1>4, Zenon
    <2> QED
      BY <1>2, <1>3, <2>1, AnswerBegins
  <1>5. CASE Allowed(shown) /\ query = "bad"
    <2>1. AnswerOnly(c, "GET request", BadRequest, shown)
      BY <1>1, <1>5, Zenon
    <2>2. shown \/ ~server.token
      BY <1>5, AllowedMeans
    <2> QED
      BY <1>2, <1>3, <2>1, <2>2, AnswerBegins
  <1>6. CASE Allowed(shown) /\ query # "bad"
    <2>1. PICK patient \in BOOLEAN : patient = (query = "wait")
      OBVIOUS
    <2>2. BeginRead(c, "GET request", id, patient, shown)
      BY <1>1, <1>6, <2>1, Zenon
    <2>3. shown \/ ~server.token
      BY <1>6, AllowedMeans
    <2> QED
      BY <1>2, <2>2, <2>3, GetBegins
  <1> QED
    BY <1>4, <1>5, <1>6, Zenon

LEMMA SmallCodes == \A n \in {0, 1, 2, 3, 4} : n \in 0..4
  OBVIOUS

LEMMA TestCode ==
  ASSUME NEW pol, NEW action \in Actions \cup {""}, NEW params
  PROVE  TestCLI(pol, action, params) \in 0..4
  <1> DEFINE usage == action = "" \/ ParamsBad(params)
  <1>0. \A n \in {0, 1, 2, 3, 4} : n \in 0..4
    BY SmallCodes
  <1>1. CASE usage
    <2>1. TestCLI(pol, action, params) = 2
      BY <1>1, Zenon DEF TestCLI
    <2> QED
      BY <1>0, <2>1
  <1>2. CASE ~usage /\ ~Readable(pol)
    <2>1. TestCLI(pol, action, params) = 3
      BY <1>2, Zenon DEF TestCLI
    <2> QED
      BY <1>0, <2>1
  <1>3. CASE ~usage /\ Readable(pol)
    <2>1. TestCLI(pol, action, params) = exitFor(StatusOfEffect(pol[action]))
      BY <1>3, Zenon DEF TestCLI
    <2>2. pol[action] \in Effects
      BY <1>3, DoorsAssumption DEF Readable
    <2>3. exitFor(StatusOfEffect(pol[action])) \in {0, 1, 4}
      BY <2>2, EffectStatus
    <2> HIDE DEF usage
    <2> QED
      BY <1>0, <2>1, <2>3
  <1> QED
    BY <1>1, <1>2, <1>3

LEMMA CmdOtherBegins ==
  ASSUME NEW c, CmdOther(c)
  PROVE  Begins(c)
  <1>1. ASSUME NEW name \in {"askfirst", "list", "log", "policy check", "policy test"},
               NEW code \in 0..4, AnswerOnly(c, name, code, FALSE)
        PROVE  Begins(c)
    <2>1. QuietCode(name, code)
      BY QuietCodes
    <2>2. name \in CLICalls \cup HTTPCalls /\ name \notin Routes
      BY NoRoutes DEF CLICalls
    <2> QED
      BY <1>1, <2>1, <2>2, AnswerBegins
  <1>2. ASSUME NEW code \in UsageCLI, AnswerOnly(c, "askfirst", code, FALSE) PROVE Begins(c)
    <2>1. code \in 0..4
      BY DEF UsageCLI
    <2> QED
      BY <1>1, <1>2, <2>1
  <1>3. ASSUME NEW filter, NEW code \in ListCLI(filter), AnswerOnly(c, "list", code, FALSE)
        PROVE  Begins(c)
    <2>1. code \in 0..4
      BY DEF ListCLI
    <2> QED
      BY <1>1, <1>3, <2>1
  <1>4. ASSUME NEW code \in LogCLI, AnswerOnly(c, "log", code, FALSE) PROVE Begins(c)
    <2>1. code \in 0..4
      BY DEF LogCLI
    <2> QED
      BY <1>1, <1>4, <2>1
  <1>5. ASSUME NEW pol, AnswerOnly(c, "policy check", CheckCLI(pol), FALSE) PROVE Begins(c)
    <2>1. CheckCLI(pol) \in 0..4
      BY DEF CheckCLI
    <2> QED
      BY <1>1, <1>5, <2>1
  <1>6. ASSUME NEW pol, NEW action \in Actions \cup {""}, NEW params,
               AnswerOnly(c, "policy test", TestCLI(pol, action, params), FALSE)
        PROVE  Begins(c)
    <2>1. TestCLI(pol, action, params) \in 0..4
      BY TestCode
    <2> QED
      BY <1>1, <1>6, <2>1
  <1> QED
    BY <1>2, <1>3, <1>4, <1>5, <1>6, Zenon DEF CmdOther

LEMMA GetOtherBegins ==
  ASSUME NEW c, GetOther(c)
  PROVE  Begins(c)
  <1>1. server # None
    BY DEF GetOther
  <1>2. /\ "GET requests" \in CLICalls \cup HTTPCalls /\ "GET policy" \in CLICalls \cup HTTPCalls
        /\ "GET healthz" \in CLICalls \cup HTTPCalls
        /\ "GET requests" \in HTTPCalls /\ "GET policy" \in HTTPCalls
        /\ "GET healthz" \notin Routes
    BY NoRoutes DEF HTTPCalls
  <1>3. ASSUME NEW query, NEW shown \in BOOLEAN,
               NEW code \in IF Allowed(shown) THEN ListHTTP(query) ELSE {Unauthorized},
               AnswerOnly(c, "GET requests", code, shown)
        PROVE  Begins(c)
    <2>1. CASE Allowed(shown)
      <3>1. code \in {BadRequest, OK, ServerError}
        BY <2>1 DEF ListHTTP
      <3>2. QuietCode("GET requests", code)
        BY <1>2, <3>1, QuietCodes
      <3>3. shown \/ ~server.token
        BY <2>1, AllowedMeans
      <3> QED
        BY <1>1, <1>2, <1>3, <3>2, <3>3, AnswerBegins
    <2>2. CASE ~Allowed(shown)
      <3>1. code = Unauthorized
        BY <2>2
      <3>2. QuietCode("GET requests", code)
        BY <1>2, <3>1, QuietCodes
      <3> QED
        BY <1>1, <1>2, <1>3, <3>1, <3>2, AnswerBegins
    <2> QED
      BY <2>1, <2>2
  <1>4. ASSUME NEW shown \in BOOLEAN,
               AnswerOnly(c, "GET policy", IF Allowed(shown) THEN OK ELSE Unauthorized, shown)
        PROVE  Begins(c)
    <2>1. CASE Allowed(shown)
      <3>1. QuietCode("GET policy", OK)
        BY QuietCodes
      <3>2. shown \/ ~server.token
        BY <2>1, AllowedMeans
      <3>3. AnswerOnly(c, "GET policy", OK, shown)
        BY <1>4, <2>1, Zenon
      <3> QED
        BY <1>1, <1>2, <3>1, <3>2, <3>3, AnswerBegins
    <2>2. CASE ~Allowed(shown)
      <3>1. QuietCode("GET policy", Unauthorized)
        BY <1>2, QuietCodes
      <3>2. AnswerOnly(c, "GET policy", Unauthorized, shown)
        BY <1>4, <2>2, Zenon
      <3> QED
        BY <1>1, <1>2, <3>1, <3>2, AnswerBegins
    <2> QED
      BY <2>1, <2>2
  <1>5. ASSUME NEW shown \in BOOLEAN, AnswerOnly(c, "GET healthz", OK, shown) PROVE Begins(c)
    <2>1. QuietCode("GET healthz", OK)
      BY QuietCodes
    <2> QED
      BY <1>2, <1>5, <2>1, AnswerBegins
  <1> QED
    BY <1>3, <1>4, <1>5, Zenon DEF GetOther

LEMMA CallBegins ==
  ASSUME BootTypeOK, World(requests, clock), NEW c, BeginCall(c)
  PROVE  Begins(c) /\ call[c].at = "idle" /\ UNCHANGED <<bootVars, requests, clock>>
  <1>1. Begins(c)
    BY CmdSubmitBegins, PostRequestBegins, CmdDecideBegins, PostDecisionBegins, CmdShowBegins,
       GetRequestBegins, CmdOtherBegins, GetOtherBegins, Zenon DEF BeginCall
  <1> QED
    BY <1>1 DEF BeginCall, Elsewhere

-----------------------------------------------------------------------------
\* Step by step.

LEMMA Watched ==
  ASSUME Watch
  PROVE  /\ \A c \in Callers :
              seen'[c] = SeenOf(call[c], seen[c], call'[c], requests', clock')
         /\ DOMAIN seen' = Callers /\ seen' = [c \in Callers |-> seen'[c]]
  BY DEF Watch, SeenOf

\* It is enough to look at the calls that moved.
LEMMA AllFit ==
  ASSUME CallsInv, Watch, World(requests', clock'),
         KeepsFiles(requests, clock, requests', clock'),
         DOMAIN call' = Callers, call' = [c \in Callers |-> call'[c]],
         \A c \in Callers :
           \/ call'[c] = call[c]
           \/ CallFits(call'[c], SeenOf(call[c], seen[c], call'[c], requests', clock'),
                       requests', clock')
  PROVE  CallsInv'
  <1>1. ASSUME NEW c \in Callers PROVE CallFits(call'[c], seen'[c], requests', clock')
    <2>1. seen'[c] = SeenOf(call[c], seen[c], call'[c], requests', clock')
      BY Watched
    <2>2. CASE call'[c] = call[c]
      <3>1. World(requests, clock) /\ CallFits(call[c], seen[c], requests, clock)
        BY DEF CallsInv
      <3>2. CallFits(call[c], SeenOf(call[c], seen[c], call[c], requests', clock'),
                     requests', clock')
        BY <3>1, CallStays
      <3> QED
        BY <2>1, <2>2, <3>2, Zenon
    <2>3. CASE CallFits(call'[c], SeenOf(call[c], seen[c], call'[c], requests', clock'),
                        requests', clock')
      BY <2>1, <2>3, Zenon
    <2> QED
      BY <2>2, <2>3
  <1> QED
    BY <1>1, Watched DEF CallsInv

\* A step of one call, which keeps whose call it is.
Keeps(k, k2) == k.at # "answer" /\ k2.name = k.name /\ (k2.shown <=> k.shown)

Fits(c, k) ==
  CallFits(k, SeenOf(call[c], seen[c], k, requests', clock'), requests', clock')

FilesKept == World(requests', clock') /\ KeepsFiles(requests, clock, requests', clock')

Goes(c) == FilesKept /\ \E k : Set(c, k) /\ Fits(c, k) /\ Keeps(call[c], k)

LEMMA OneMoves ==
  ASSUME CallsInv, Watch, FilesKept, NEW c \in Callers, NEW k, Set(c, k), Fits(c, k)
  PROVE  CallsInv'
  <1>1. DOMAIN call = Callers /\ call = [d \in Callers |-> call[d]]
    BY DEF CallsInv
  <1>2. /\ DOMAIN call' = Callers /\ call' = [d \in Callers |-> call'[d]]
        /\ call'[c] = k /\ \A d \in Callers : d # c => call'[d] = call[d]
    BY <1>1 DEF Set
  <1>3. CallFits(call'[c], SeenOf(call[c], seen[c], call'[c], requests', clock'),
                 requests', clock')
    BY <1>2, Zenon DEF Fits
  <1>4. \A d \in Callers :
          \/ call'[d] = call[d]
          \/ CallFits(call'[d], SeenOf(call[d], seen[d], call'[d], requests', clock'),
                      requests', clock')
    BY <1>2, <1>3, Zenon
  <1> QED
    BY <1>2, <1>4, AllFit, Zenon DEF FilesKept

LEMMA SameFiles ==
  ASSUME CallsInv, UNCHANGED <<requests, clock>>
  PROVE  FilesKept
  BY DEF CallsInv, World, FilesKept, KeepsFiles

LEMMA SeenAsBefore ==
  ASSUME NEW k, NEW s, NEW files, NEW now, CallFits(k, s, files, now), OnItsWay(k),
         NEW k2, k2.id = k.id
  PROVE  SeenOf(k, s, k2, files, now) = s
  <1>1. k.id \in Ids /\ StatusIn(files, k.id, now) \in s
    BY DEF CallFits, WayFits
  <1>2. k2.id # None /\ k.at # "answer"
    BY <1>1, NoneApart DEF OnItsWay
  <1> QED
    BY <1>1, <1>2 DEF SeenOf

\* A step that touches no file and stays with its request.
LEMMA StepGoes ==
  ASSUME CallsInv, NEW c \in Callers, OnItsWay(call[c]), UNCHANGED <<requests, clock>>,
         NEW k, Set(c, k), k.id = call[c].id, k.name = call[c].name, k.shown <=> call[c].shown,
         CallFits(k, seen[c], requests, clock)
  PROVE  Goes(c)
  <1>1. CallFits(call[c], seen[c], requests, clock)
    BY DEF CallsInv
  <1>2. SeenOf(call[c], seen[c], k, requests, clock) = seen[c]
    BY <1>1, SeenAsBefore
  <1>3. Fits(c, k)
    BY <1>2, Zenon DEF Fits
  <1>4. Keeps(call[c], k)
    BY DEF Keeps, OnItsWay
  <1> QED
    BY <1>3, <1>4, SameFiles DEF Goes

LEMMA AnswerKeeps ==
  ASSUME NEW k \in CallType, NEW code, NEW says
  PROVE  LET k2 == Answered(k, code, says)
         IN  k2.id = k.id /\ k2.name = k.name /\ (k2.shown <=> k.shown)
  BY DEF Answered, CallType

LEMMA AnswerGoes ==
  ASSUME CallsInv, NEW c \in Callers, OnItsWay(call[c]), UNCHANGED <<requests, clock>>,
         NEW code, NEW says, Set(c, Answered(call[c], code, says)),
         CallFits(Answered(call[c], code, says), seen[c], requests, clock)
  PROVE  Goes(c)
  <1> DEFINE k == Answered(call[c], code, says)
  <1>1. call[c] \in CallType
    BY DEF CallsInv, CallFits
  <1>2. k.id = call[c].id /\ k.name = call[c].name /\ (k.shown <=> call[c].shown)
    BY <1>1, AnswerKeeps
  <1>3. Set(c, k) /\ CallFits(k, seen[c], requests, clock)
    OBVIOUS
  <1> HIDE DEF k
  <1> QED
    BY <1>2, <1>3, StepGoes

LEMMA StageGoes ==
  ASSUME CallsInv, NEW c \in Callers, OnItsWay(call[c]), UNCHANGED <<requests, clock>>,
         NEW at \in {"read", "write"}, Set(c, [call[c] EXCEPT !.at = at]),
         CallFits([call[c] EXCEPT !.at = at], seen[c], requests, clock)
  PROVE  Goes(c)
  <1> DEFINE k == [call[c] EXCEPT !.at = at]
  <1>1. call[c] \in CallType
    BY DEF CallsInv, CallFits
  <1>2. k.id = call[c].id /\ k.name = call[c].name /\ (k.shown <=> call[c].shown)
    BY <1>1 DEF CallType
  <1>3. Set(c, k) /\ CallFits(k, seen[c], requests, clock)
    OBVIOUS
  <1> HIDE DEF k
  <1> QED
    BY <1>2, <1>3, StepGoes

LEMMA FileRequestGoes ==
  ASSUME CallsInv, NEW c \in Callers, FileRequest(c)
  PROVE  Goes(c)
  <1> DEFINE k == call[c]
             s == seen[c]
  <1>1. /\ World(requests, clock) /\ CallFits(k, s, requests, clock) /\ k.at = "file"
        /\ UNCHANGED clock
    BY DEF CallsInv, FileRequest, Elsewhere
  <1>2. k \in CallType /\ k.id = None /\ s = {} /\ ~k.wrote
    BY <1>1 DEF CallFits, FileFits
  <1>3. CASE Set(c, Answered(k, CodeFailed(k), None)) /\ UNCHANGED requests
    <2> DEFINE k2 == Answered(k, CodeFailed(k), None)
    <2>1. CallFits(k2, s, requests, clock)
      BY <1>1, <1>2, RefusedFits
    <2>2. k2.id = None /\ k2.name = k.name /\ (k2.shown <=> k.shown)
      BY <1>2, AnswerKeeps
    <2>3. Set(c, k2)
      BY <1>3
    <2> HIDE DEF k2
    <2>4. SeenOf(k, s, k2, requests, clock) = s
      BY <1>2, <2>2 DEF SeenOf
    <2>5. Fits(c, k2)
      BY <1>1, <1>3, <2>1, <2>4, Zenon DEF Fits
    <2>6. Keeps(k, k2)
      BY <1>1, <2>2 DEF Keeps
    <2> QED
      BY <1>1, <1>3, <2>3, <2>5, <2>6, SameFiles DEF Goes
  <1>4. ASSUME NEW id \in Ids, ~Exists(id), requests' = [requests EXCEPT ![id] = k.rec],
               Set(c, [k EXCEPT !.at = "log", !.id = id, !.wrote = TRUE])
        PROVE  Goes(c)
    <2> DEFINE k2 == [k EXCEPT !.at = "log", !.id = id, !.wrote = TRUE]
    <2>1. requests[id] = None
      BY <1>4 DEF Exists
    <2> HIDE DEF s
    <2>0. PICK files2 : files2 = requests'
      OBVIOUS
    <2>2. /\ World(requests', clock) /\ KeepsFiles(requests, clock, requests', clock)
          /\ CallFits(k2, {StatusIn(requests', id, clock)}, requests', clock)
      <3>1. files2 = [requests EXCEPT ![id] = k.rec]
        BY <1>4, <2>0
      <3>2. k2 = [k EXCEPT !.at = "log", !.id = id, !.wrote = TRUE]
        OBVIOUS
      <3> HIDE DEF k, k2
      <3>3. /\ World(files2, clock) /\ KeepsFiles(requests, clock, files2, clock)
            /\ CallFits(k2, {StatusIn(files2, id, clock)}, files2, clock)
        BY <1>1, <2>1, <3>1, <3>2, FiledFits
      <3> QED
        BY <2>0, <3>3
    <2>3. k2.id = id /\ k2.name = k.name /\ (k2.shown <=> k.shown)
      BY <1>2 DEF CallType
    <2>4. Set(c, k2)
      BY <1>4
    <2> HIDE DEF k2
    <2>5. SeenOf(k, s, k2, requests', clock) = {StatusIn(requests', id, clock)}
      BY <1>2, <2>3, NoneApart DEF SeenOf
    <2>6. Fits(c, k2)
      BY <1>1, <2>2, <2>5, Zenon DEF Fits, s
    <2>7. Keeps(k, k2)
      BY <1>1, <2>3 DEF Keeps
    <2>8. FilesKept
      BY <1>1, <2>2, Zenon DEF FilesKept
    <2> QED
      BY <2>4, <2>6, <2>7, <2>8 DEF Goes
  <1> QED
    BY <1>3, <1>4 DEF FileRequest

LEMMA ReadRecordGoes ==
  ASSUME CallsInv, NEW c \in Callers, ReadRecord(c)
  PROVE  Goes(c)
  <1> DEFINE k == call[c]
             s == seen[c]
  <1>1. /\ World(requests, clock) /\ CallFits(k, s, requests, clock) /\ k.at = "read"
        /\ UNCHANGED <<requests, clock>>
    BY DEF CallsInv, ReadRecord, Elsewhere
  <1>2. k \in CallType /\ k.id \in Ids /\ OnItsWay(k)
    BY <1>1 DEF CallFits, WayFits, OnItsWay
  <1>3. CASE requests[k.id] = None
    <2>1. Set(c, Answered(k, CodeAbsent(k), None))
      BY <1>3 DEF ReadRecord, Exists
    <2>2. CallFits(Answered(k, CodeAbsent(k), None), s, requests, clock)
      BY <1>1, <1>3, AbsentFits
    <2> QED
      BY <1>1, <1>2, <2>1, <2>2, AnswerGoes
  <1>4. CASE requests[k.id] # None
    <2> DEFINE k2 == [k EXCEPT !.at = "check", !.rec = requests[k.id]]
    <2>1. Set(c, k2)
      BY <1>4 DEF ReadRecord, Exists
    <2>2. CallFits(k2, s, requests, clock)
      BY <1>1, <1>4, ReadFits
    <2>3. k2.id = k.id /\ k2.name = k.name /\ (k2.shown <=> k.shown)
      BY <1>2 DEF CallType
    <2> HIDE DEF k2
    <2> QED
      BY <1>1, <1>2, <2>1, <2>2, <2>3, StepGoes
  <1> QED
    BY <1>3, <1>4

LEMMA CheckDecidableGoes ==
  ASSUME CallsInv, NEW c \in Callers, CheckDecidable(c)
  PROVE  Goes(c)
  <1> DEFINE k == call[c]
             s == seen[c]
  <1>1. /\ World(requests, clock) /\ CallFits(k, s, requests, clock)
        /\ k.at = "check" /\ Decides(k) /\ UNCHANGED <<requests, clock>> /\ OnItsWay(k)
    BY DEF CallsInv, CheckDecidable, Elsewhere, OnItsWay
  <1>2. CASE StatusAt(k.rec, clock) = "pending"
    <2>1. Set(c, [k EXCEPT !.at = "write"])
      BY <1>2 DEF CheckDecidable, Decidable
    <2>2. CallFits([k EXCEPT !.at = "write"], s, requests, clock)
      BY <1>1, <1>2, GoesFits
    <2> QED
      BY <1>1, <2>1, <2>2, StageGoes
  <1>3. CASE StatusAt(k.rec, clock) # "pending"
    <2>1. Set(c, Answered(k, CodeRefused(k.name, StatusAt(k.rec, clock)), None))
      BY <1>3 DEF CheckDecidable, Decidable
    <2>2. CallFits(Answered(k, CodeRefused(k.name, StatusAt(k.rec, clock)), None), s,
                   requests, clock)
      BY <1>1, <1>3, DecidedFits
    <2> QED
      BY <1>1, <2>1, <2>2, AnswerGoes
  <1> QED
    BY <1>2, <1>3

LEMMA CheckStatusGoes ==
  ASSUME CallsInv, NEW c \in Callers, CheckStatus(c)
  PROVE  Goes(c)
  <1> DEFINE k == call[c]
             s == seen[c]
             t == StatusAt(k.rec, clock)
  <1>1. /\ World(requests, clock) /\ CallFits(k, s, requests, clock)
        /\ k.at = "check" /\ ~Decides(k) /\ UNCHANGED <<requests, clock>> /\ OnItsWay(k)
    BY DEF CallsInv, CheckStatus, Elsewhere, OnItsWay
  <1>2. CASE Set(c, Answered(k, CodeFor(k.name, t), t))
    <2>1. HadBy(k, s, requests, clock, t) /\ t \in Statuses
      BY <1>1, CheckedHad
    <2> HIDE DEF t
    <2>2. CallFits(Answered(k, CodeFor(k.name, t), t), s, requests, clock)
      BY <1>1, <2>1, SaysFits
    <2> QED
      BY <1>1, <1>2, <2>2, AnswerGoes
  <1>3. CASE Set(c, [k EXCEPT !.at = "read"])
    <2>1. CallFits([k EXCEPT !.at = "read"], s, requests, clock)
      BY <1>1, PollFits
    <2> QED
      BY <1>1, <1>3, <2>1, StageGoes
  <1> QED
    BY <1>2, <1>3 DEF CheckStatus

LEMMA WriteVerdictGoes ==
  ASSUME CallsInv, NEW c \in Callers, WriteVerdict(c)
  PROVE  Goes(c)
  <1> DEFINE k   == call[c]
             s   == seen[c]
             rec == Resolved(k.rec, k.verdict, NoReason, clock)
             k2  == [k EXCEPT !.at = "log", !.rec = rec, !.wrote = TRUE]
  <1>1. /\ World(requests, clock) /\ CallFits(k, s, requests, clock) /\ k.at = "write"
        /\ UNCHANGED clock
    BY DEF CallsInv, WriteVerdict, Elsewhere
  <1>2. requests' = [requests EXCEPT ![k.id] = rec] /\ Set(c, k2)
    BY DEF WriteVerdict
  <1>3. k \in CallType /\ k.id \in Ids /\ k.id # None
    BY <1>1, NoneApart DEF CallFits, WayFits, OnItsWay
  <1>4. /\ World(requests', clock) /\ KeepsFiles(requests, clock, requests', clock)
        /\ CallFits(k2, s \cup {StatusIn(requests', k.id, clock)}, requests', clock)
    <2>1. PICK files2 : files2 = requests'
      OBVIOUS
    <2>2. rec = Resolved(k.rec, k.verdict, NoReason, clock)
      OBVIOUS
    <2>3. k2 = [k EXCEPT !.at = "log", !.rec = rec, !.wrote = TRUE]
      OBVIOUS
    <2> HIDE DEF k, s, rec, k2
    <2>4. files2 = [requests EXCEPT ![k.id] = rec]
      BY <1>2, <2>1
    <2>5. /\ World(files2, clock) /\ KeepsFiles(requests, clock, files2, clock)
          /\ CallFits(k2, s \cup {StatusIn(files2, k.id, clock)}, files2, clock)
      BY <1>1, <2>2, <2>3, <2>4, WrittenFits
    <2> QED
      BY <2>1, <2>5
  <1> HIDE DEF rec
  <1>5. k2.id = k.id /\ k2.name = k.name /\ (k2.shown <=> k.shown)
    BY <1>3 DEF CallType
  <1> HIDE DEF k2
  <1>6. SeenOf(k, s, k2, requests', clock) = s \cup {StatusIn(requests', k.id, clock)}
    BY <1>1, <1>3, <1>5 DEF SeenOf
  <1>7. Fits(c, k2)
    BY <1>1, <1>4, <1>6, Zenon DEF Fits
  <1>8. Keeps(k, k2)
    BY <1>1, <1>5 DEF Keeps
  <1>9. FilesKept
    BY <1>1, <1>4, Zenon DEF FilesKept
  <1> QED
    BY <1>2, <1>7, <1>8, <1>9 DEF Goes

LEMMA LogLinesGoes ==
  ASSUME CallsInv, NEW c \in Callers, LogLines(c)
  PROVE  Goes(c)
  <1> DEFINE k == call[c]
             s == seen[c]
             t == k.rec.status
  <1>1. /\ World(requests, clock) /\ CallFits(k, s, requests, clock)
        /\ k.at = "log" /\ UNCHANGED <<requests, clock>> /\ OnItsWay(k)
    BY DEF CallsInv, LogLines, Elsewhere, OnItsWay
  <1>2. CASE Decides(k)
    <2>1. Set(c, Answered(k, CodeDone(k), None))
      BY <1>2 DEF LogLines
    <2>2. CallFits(Answered(k, CodeDone(k), None), s, requests, clock)
      BY <1>1, <1>2, DoneFits
    <2> QED
      BY <1>1, <2>1, <2>2, AnswerGoes
  <1>3. CASE ~Decides(k) /\ Set(c, [k EXCEPT !.at = "read"])
    <2>1. CallFits([k EXCEPT !.at = "read"], s, requests, clock)
      BY <1>1, <1>3, PollFits
    <2> QED
      BY <1>1, <1>3, <2>1, StageGoes
  <1>4. CASE ~Decides(k) /\ Set(c, Answered(k, CodeFor(k.name, t), t))
    <2>1. HadBy(k, s, requests, clock, t) /\ t \in Statuses
      BY <1>1, <1>4, LoggedHad
    <2> HIDE DEF t
    <2>2. CallFits(Answered(k, CodeFor(k.name, t), t), s, requests, clock)
      BY <1>1, <1>4, <2>1, SaysFits
    <2> QED
      BY <1>1, <1>4, <2>2, AnswerGoes
  <1> QED
    BY <1>2, <1>3, <1>4 DEF LogLines

LEMMA CallFailsGoes ==
  ASSUME CallsInv, NEW c \in Callers, CallFails(c)
  PROVE  Goes(c)
  <1> DEFINE k  == call[c]
             s  == seen[c]
             k1 == Answered(k, CodeFailed(k), None)
             k2 == Failing(k)
  <1>1. /\ World(requests, clock) /\ CallFits(k, s, requests, clock)
        /\ k.at \in {"file", "read", "write", "log"} /\ UNCHANGED <<requests, clock>>
    BY DEF CallsInv, CallFails, Elsewhere
  <1>2. k \in CallType /\ (k.at = "file" => k.id = None /\ s = {})
    BY <1>1 DEF CallFits
  <1>3. CallFits(k2, s, requests, clock) /\ Set(c, k2)
    BY <1>1, FailsFits DEF CallFails
  <1>4. k1.id = k.id /\ k1.name = k.name /\ (k1.shown <=> k.shown)
    BY <1>2, AnswerKeeps
  <1>5. k2 = [k1 EXCEPT !.failed = TRUE] /\ k1 \in CallType
    <2>1. CodeFailed(k) \in ExitCodes \cup HTTPCodes
      BY CodesHold DEF CodeFailed
    <2> QED
      BY <1>2, <2>1, AnswerFrame DEF Failing
  <1> HIDE DEF k1, k2
  <1>6. k2.id = k.id /\ k2.name = k.name /\ (k2.shown <=> k.shown)
    BY <1>4, <1>5 DEF CallType
  <1>7. SeenOf(k, s, k2, requests, clock) = s
    <2>1. CASE k.at = "file"
      BY <1>2, <1>6, <2>1 DEF SeenOf
    <2>2. CASE k.at # "file"
      BY <1>1, <1>6, <2>2, SeenAsBefore DEF OnItsWay
    <2> QED
      BY <2>1, <2>2
  <1>8. Fits(c, k2)
    BY <1>1, <1>3, <1>7, Zenon DEF Fits
  <1>9. Keeps(k, k2)
    BY <1>1, <1>6 DEF Keeps
  <1> QED
    BY <1>1, <1>3, <1>8, <1>9, SameFiles DEF Goes

\* A call that is under way, and one that begins or is over.
UnderWay(c) ==
  \/ FileRequest(c) \/ ReadRecord(c) \/ CheckDecidable(c) \/ CheckStatus(c)
  \/ WriteVerdict(c) \/ LogLines(c) \/ CallFails(c)

LEMMA StepsOfCalls ==
  ASSUME NEW c \in Callers, CallStep(c)
  PROVE  BeginCall(c) \/ UnderWay(c) \/ (Set(c, NoCall) /\ UNCHANGED <<requests, clock>>)
  BY DEF CallStep, UnderWay, Hear, CallDies, Elsewhere

LEMMA UnderWayGoes ==
  ASSUME CallsInv, NEW c \in Callers, UnderWay(c)
  PROVE  Goes(c)
  BY FileRequestGoes, ReadRecordGoes, CheckDecidableGoes, CheckStatusGoes, WriteVerdictGoes,
     LogLinesGoes, CallFailsGoes DEF UnderWay

LEMMA NoCallHere ==
  ASSUME NEW c
  PROVE  Fits(c, NoCall)
  <1>1. NoCall.id = None
    BY DEF NoCall
  <1>2. SeenOf(call[c], seen[c], NoCall, requests', clock') = {}
    BY <1>1 DEF SeenOf
  <1> QED
    BY <1>2, NoCallFits, Zenon DEF Fits

LEMMA BeginStep ==
  ASSUME BootTypeOK, CallsInv, Watch, NEW c \in Callers, BeginCall(c)
  PROVE  CallsInv'
  <1>1. World(requests, clock) /\ CallFits(call[c], seen[c], requests, clock)
    BY DEF CallsInv
  <1>2. Begins(c) /\ call[c].at = "idle" /\ UNCHANGED <<requests, clock>>
    BY <1>1, CallBegins
  <1>3. PICK k : Set(c, k) /\ Starts(k)
    BY <1>2 DEF Begins
  <1>4. call[c].id = None
    BY <1>1, <1>2 DEF CallFits
  <1>5. SeenOf(call[c], seen[c], k, requests, clock)
          = IF k.id = None THEN {} ELSE {StatusIn(requests, k.id, clock)}
    BY <1>4 DEF SeenOf
  <1>6. Fits(c, k)
    BY <1>2, <1>3, <1>5, Zenon DEF Fits, Starts
  <1> QED
    BY <1>2, <1>3, <1>6, SameFiles, OneMoves

LEMMA CallsStep ==
  ASSUME BootTypeOK, CallsInv, [Next]_vars
  PROVE  CallsInv'
  <1>1. ASSUME NEW c \in Callers, CallStep(c), Watch PROVE CallsInv'
    <2>1. CASE BeginCall(c)
      BY <1>1, <2>1, BeginStep
    <2>2. CASE UnderWay(c)
      <3>1. Goes(c)
        BY <2>2, UnderWayGoes
      <3>2. FilesKept /\ \E k : Set(c, k) /\ Fits(c, k)
        BY <3>1, Zenon DEF Goes
      <3> QED
        BY <1>1, <3>2, OneMoves
    <2>3. CASE Set(c, NoCall) /\ UNCHANGED <<requests, clock>>
      BY <1>1, <2>3, SameFiles, NoCallHere, OneMoves
    <2> QED
      BY <1>1, <2>1, <2>2, <2>3, StepsOfCalls
  <1>2. CASE Tick /\ Watch
    <2>1. UNCHANGED <<requests, call>> /\ clock' = clock + 1
      BY <1>2 DEF Tick
    <2>2. FilesKept
      BY <2>1 DEF CallsInv, World, FilesKept, KeepsFiles
    <2>3. DOMAIN call' = Callers /\ call' = [c \in Callers |-> call'[c]]
      BY <2>1 DEF CallsInv
    <2> QED
      BY <1>2, <2>1, <2>2, <2>3, AllFit DEF FilesKept
  <1>3. CASE Boot /\ Watch
    <2>1. /\ UNCHANGED <<requests, clock>>
          /\ call' = [c \in Callers |-> IF Http(call[c]) /\ server' = None THEN NoCall ELSE call[c]]
      BY <1>3 DEF Boot
    <2>2. DOMAIN call' = Callers /\ call' = [c \in Callers |-> call'[c]]
      BY <2>1
    <2>3. ASSUME NEW c \in Callers PROVE call'[c] = call[c] \/ call'[c] = NoCall
      BY <2>1
    <2>4. \A c \in Callers :
            \/ call'[c] = call[c]
            \/ CallFits(call'[c], SeenOf(call[c], seen[c], call'[c], requests', clock'),
                        requests', clock')
      BY <2>3, NoCallHere, Zenon DEF Fits
    <2> QED
      BY <1>3, <2>1, <2>2, <2>4, SameFiles, AllFit, Zenon DEF FilesKept
  <1>4. CASE UNCHANGED vars
    <2>1. UNCHANGED <<requests, clock, call, seen>>
      BY <1>4 DEF vars
    <2> QED
      BY <2>1 DEF CallsInv
  <1> QED
    BY <1>1, <1>2, <1>3, <1>4 DEF Next

LEMMA CallsInvariant == Spec => [](BootInv /\ CallsInv)
  <1>1. Init => CallsInv
    <2> SUFFICES ASSUME Init PROVE CallsInv
      OBVIOUS
    <2>1. World(requests, clock)
      BY DEF Init, World
    <2>2. \A c \in Callers : call[c] = NoCall /\ seen[c] = {}
      BY DEF Init
    <2>3. DOMAIN call = Callers /\ DOMAIN seen = Callers
          /\ call = [c \in Callers |-> call[c]] /\ seen = [c \in Callers |-> seen[c]]
      BY DEF Init
    <2>4. ASSUME NEW c \in Callers PROVE CallFits(call[c], seen[c], requests, clock)
      BY <2>2, NoCallFits
    <2> QED
      BY <2>1, <2>3, <2>4 DEF CallsInv
  <1>2. BootInv /\ CallsInv /\ [Next]_vars => CallsInv'
    BY CallsStep DEF BootInv
  <1> QED
    BY <1>1, <1>2, BootInvariant, PTL DEF Spec

\* The files hold requests, and calls and their histories keep their types.
THEOREM DoorsTypeCorrect == Spec => []TypeOK
  <1>1. CallsInv => TypeOK
    <2> SUFFICES ASSUME CallsInv PROVE TypeOK
      OBVIOUS
    <2>1. \A c \in Callers : call[c] \in CallType /\ seen[c] \subseteq Statuses \cup {"absent"}
      BY DEF CallsInv, CallFits
    <2> QED
      BY <2>1 DEF CallsInv, World, TypeOK
  <1> QED
    BY <1>1, CallsInvariant, PTL

\* However the calls of two doors interleave, fail and die: an exit code or HTTP
\* status is true of its request as it was at some moment of the call.
THEOREM CodesTellTruth == Spec => []CodesAreTrue
  <1>1. CallsInv => CodesAreTrue
    <2> SUFFICES ASSUME CallsInv, NEW c \in Callers, call[c].at = "answer"
                 PROVE  CodeTells(c) /\ CodeHides(call[c])
      BY DEF CodesAreTrue
    <2>1. Told(call[c], seen[c], requests, clock)
      BY DEF CallsInv, CallFits
    <2>2. ASSUME NEW t, HadBy(call[c], seen[c], requests, clock, t) PROVE Had(c, t)
      BY <2>2, Zenon DEF HadBy, Late, Had
    <2> QED
      BY <2>1, <2>2, Zenon DEF Told, CodeTells
  <1> QED
    BY <1>1, CallsInvariant, PTL

-----------------------------------------------------------------------------
\* The token.

NetInv == \A c \in Callers : Admitted(call[c])

\* A server is replaced by none, and only none by another.
LEMMA ServerSteps ==
  ASSUME [BootNext]_bootVars
  PROVE  server' = server \/ server' = None \/ server = None
  BY DEF BootNext, SetupStep, StartInit, StartServe, Stat, Truncate, Fill, Finish, Die,
         ServerStops, EditPolicy, bootVars

LEMMA NoCallAdmitted == Admitted(NoCall)
  BY DEF Admitted, NoCall, Routes, HTTPCalls

LEMMA NetStep ==
  ASSUME BootTypeOK, CallsInv, NetInv, [Next]_vars
  PROVE  NetInv'
  <1> USE DEF NetInv
  <1>1. DOMAIN call = Callers
    BY DEF CallsInv
  <1>2. ASSUME NEW c \in Callers, CallStep(c), UNCHANGED server PROVE NetInv'
    <2>1. ASSUME NEW k, Set(c, k), Admitted(k) PROVE NetInv'
      <3>1. call'[c] = k /\ \A d \in Callers : d # c => call'[d] = call[d]
        BY <1>1, <2>1 DEF Set
      <3>2. \A d \in Callers : call'[d] = k \/ call'[d] = call[d]
        BY <3>1
      <3> QED
        BY <1>2, <2>1, <3>2, Zenon DEF Admitted
    <2>2. CASE BeginCall(c)
      <3>1. Begins(c)
        BY <2>2, CallBegins DEF CallsInv
      <3> QED
        BY <2>1, <3>1, Zenon DEF Begins
    <2>3. CASE UnderWay(c)
      <3>1. PICK k : Set(c, k) /\ Keeps(call[c], k)
        BY <2>3, UnderWayGoes, Zenon DEF Goes
      <3>2. Admitted(call[c])
        OBVIOUS
      <3>3. Admitted(k)
        BY <3>1, <3>2, Zenon DEF Admitted, Keeps
      <3> QED
        BY <2>1, <3>1, <3>3
    <2>4. CASE Set(c, NoCall)
      BY <2>1, <2>4, NoCallAdmitted
    <2> QED
      BY <1>2, <2>2, <2>3, <2>4, StepsOfCalls
  <1>3. ASSUME NEW c \in Callers, CallStep(c) PROVE UNCHANGED server
    BY <1>3 DEF CallStep, BeginCall, FileRequest, ReadRecord, CheckDecidable, CheckStatus,
                WriteVerdict, LogLines, CallFails, Hear, CallDies, Elsewhere, bootVars
  <1>4. CASE UNCHANGED <<call, server>>
    BY <1>4 DEF Admitted
  <1>5. CASE Boot
    <2>1. /\ server' = server \/ server' = None \/ server = None
          /\ call' = [c \in Callers |-> IF Http(call[c]) /\ server' = None THEN NoCall ELSE call[c]]
      BY <1>5, ServerSteps DEF Boot
    <2>2. ASSUME NEW c \in Callers PROVE Admitted(call[c])'
      <3>1. Admitted(call[c])
        OBVIOUS
      <3>2. CASE call[c].name \notin Routes
        <4>1. call'[c].name \notin Routes
          BY <2>1, <3>2 DEF NoCall, Routes, HTTPCalls
        <4> QED
          BY <4>1 DEF Admitted
      <3>3. CASE call[c].name \in Routes
        <4>1. Http(call[c]) /\ server # None
          BY <3>1, <3>3 DEF Admitted, Http, Routes
        <4>2. CASE server' = None
          <5>1. call'[c] = NoCall
            BY <2>1, <4>1, <4>2
          <5>2. call'[c].name \notin Routes
            BY <5>1 DEF NoCall, Routes, HTTPCalls
          <5> QED
            BY <5>2 DEF Admitted
        <4>3. CASE server' # None
          <5>1. server' = server /\ call'[c] = call[c]
            BY <2>1, <4>1, <4>3
          <5> QED
            BY <3>1, <5>1, Zenon DEF Admitted
        <4> QED
          BY <4>2, <4>3
      <3> QED
        BY <3>2, <3>3
    <2> QED
      BY <2>2
  <1> QED
    BY <1>2, <1>3, <1>4, <1>5 DEF Next, Tick, vars, bootVars

LEMMA NetInvariant == Spec => [](BootInv /\ NetInv)
  <1>1. Init => NetInv
    BY NoCallAdmitted DEF Init, NetInv
  <1>2. BootInv /\ CallsInv /\ NetInv /\ [Next]_vars => NetInv'
    BY NetStep DEF BootInv
  <1> QED
    BY <1>1, <1>2, CallsInvariant, PTL DEF Spec

\* Whoever starts and stops servers, and whatever calls are under way: over a
\* network every call without the token has got 401 and nothing else.
THEOREM NetworkIsGuarded == Spec => []NetworkNeedsToken
  <1>1. BootInv /\ NetInv => NetworkNeedsToken
    <2> SUFFICES ASSUME BootInv, NetInv, server # None, server.exposed, NEW c \in Callers,
                        call[c].name \in Routes, ~call[c].shown
                 PROVE  call[c].at = "answer" /\ call[c].code = Unauthorized
      BY DEF NetworkNeedsToken
    <2>1. server.token
      BY Zenon DEF BootInv, GuardKept, Guarded
    <2>2. Admitted(call[c])
      BY DEF NetInv
    <2> QED
      BY <2>1, <2>2, Zenon DEF Admitted
  <1> QED
    BY <1>1, NetInvariant, PTL

-----------------------------------------------------------------------------
\* The two doors and the dry run.

LEMMA Remainder ==
  ASSUME NEW a \in Nat, NEW b \in Nat \ {0}, a < b
  PROVE  a % b = a
  OBVIOUS

LEMMA Numbers ==
  /\ MaxDuration \in Nat /\ Second \in Nat /\ Second > 0
  /\ \A ttl \in TTLs : ttl \in Int
  <1>1. TTLs \subseteq Int /\ Second \in Nat \ {0} /\ MaxDuration \in Nat
    BY DoorsAssumption, Zenon
  <1> QED
    BY <1>1

LEMMA WrapKeeps ==
  ASSUME NEW d \in Int, d \in 0..MaxDuration
  PROVE  Wrap(d) = d
  <1>1. MaxDuration \in Nat
    BY Numbers
  <1>2. d + MaxDuration + 1 \in Nat /\ 2 * MaxDuration + 2 \in Nat \ {0}
        /\ d + MaxDuration + 1 < 2 * MaxDuration + 2
    BY <1>1
  <1>3. (d + MaxDuration + 1) % (2 * MaxDuration + 2) = d + MaxDuration + 1
    BY <1>2, Remainder
  <1> QED
    BY <1>1, <1>3 DEF Wrap

LEMMA Product ==
  ASSUME NEW a \in Nat, NEW b \in Nat
  PROVE  a * b \in Nat /\ 0 * b = 0
  OBVIOUS

LEMMA TTLFits ==
  ASSUME NEW ttl \in TTLs, ~(ttl < 0), FitsDuration(ttl)
  PROVE  Seconds(ttl) = ttl * Second
  <1>1. ttl \in Nat /\ Second \in Nat /\ MaxDuration \in Nat
    <2>1. ttl \in Int /\ Second \in Nat /\ MaxDuration \in Nat
      BY Numbers
    <2> QED
      BY <2>1
  <1>2. ttl * Second \in Nat
    BY <1>1, Product
  <1>3. ttl * Second \in 0..MaxDuration
    BY <1>1, <1>2 DEF FitsDuration
  <1>4. ttl * Second \in Int
    BY <1>2
  <1> QED
    BY <1>3, <1>4, WrapKeeps DEF Seconds

LEMMA NoTTLFits == FitsDuration(0)
  <1>1. MaxDuration \in Nat /\ 0 * Second = 0
    BY Numbers, Product
  <1>2. 0 \in -MaxDuration..MaxDuration
    BY <1>1
  <1> QED
    BY <1>1, <1>2, Zenon DEF FitsDuration

\* What either door makes of an action the policy knows, and a good body.
LEMMA CLISubmission ==
  ASSUME clock \in Nat, NEW pol \in Policies, NEW action \in Actions, NEW ttl \in TTLs
  PROVE  LET out == SubmitCLI(pol, action, ttl, "good")
         IN  /\ ~FitsDuration(ttl) => out = Refuse(2)
             /\ FitsDuration(ttl) =>
                  /\ out = File(NewRequest(pol[action], NoReason,
                                           IF ttl > 0 THEN clock + ttl * Second ELSE None, clock))
                  /\ out.rec \in Filing /\ out.rec.status = StatusOfEffect(pol[action])
  <1> DEFINE out == SubmitCLI(pol, action, ttl, "good")
             expires == IF ttl > 0 THEN clock + ttl * Second ELSE None
             rec == NewRequest(pol[action], NoReason, expires, clock)
  <1>1. action # "" /\ ~ParamsBad("good") /\ Readable(pol) /\ "good" # "nan"
    BY DoorsAssumption DEF ParamsBad, Readable
  <1>2. CASE ~FitsDuration(ttl)
    BY <1>2, Zenon DEF SubmitCLI
  <1>3. CASE FitsDuration(ttl)
    <2>1. out = File(rec)
      BY <1>1, <1>3, Zenon DEF SubmitCLI
    <2>2. pol[action] \in Effects
      BY DoorsAssumption
    <2>3. expires \in Int \cup {None}
      BY Expiry
    <2> HIDE DEF expires, out
    <2>4. rec \in Filing /\ rec.status = StatusOfEffect(pol[action])
      BY <2>2, <2>3, NewRequestFiling
    <2> HIDE DEF rec
    <2>5. out.rec = rec
      BY <2>1 DEF File
    <2> QED
      BY <1>3, <2>1, <2>4, <2>5 DEF rec, expires, out
  <1> QED
    BY <1>2, <1>3

LEMMA HTTPSubmission ==
  ASSUME clock \in Nat, server.policy \in Policies, NEW action \in Actions, NEW ttl \in TTLs
  PROVE  LET out == SubmitHTTP(action, ttl, "json")
         IN  /\ ttl < 0 => out = Refuse(BadRequest)
             /\ ~(ttl < 0) =>
                  /\ out = File(NewRequest(server.policy[action], NoReason,
                                           IF ttl > 0 THEN clock + Seconds(ttl) ELSE None, clock))
                  /\ out.rec \in Filing
                  /\ out.rec.status = StatusOfEffect(server.policy[action])
  <1> DEFINE out == SubmitHTTP(action, ttl, "json")
             expires == IF ttl > 0 THEN clock + Seconds(ttl) ELSE None
             rec == NewRequest(server.policy[action], NoReason, expires, clock)
  <1>1. action # "" /\ "json" # "bad"
    BY DoorsAssumption
  <1>2. CASE ttl < 0
    BY <1>2, Zenon DEF SubmitHTTP
  <1>3. CASE ~(ttl < 0)
    <2>1. out = File(rec)
      BY <1>1, <1>3, Zenon DEF SubmitHTTP
    <2>2. server.policy[action] \in Effects
      BY DoorsAssumption
    <2>3. expires \in Int \cup {None}
      BY Expiry
    <2> HIDE DEF expires, out
    <2>4. rec \in Filing /\ rec.status = StatusOfEffect(server.policy[action])
      BY <2>2, <2>3, NewRequestFiling
    <2> HIDE DEF rec
    <2>5. out.rec = rec
      BY <2>1 DEF File
    <2> QED
      BY <1>3, <2>1, <2>4, <2>5 DEF rec, expires, out
  <1> QED
    BY <1>2, <1>3

LEMMA RefuseFields ==
  ASSUME NEW code
  PROVE  Refuse(code).code = code /\ Refuse(code).rec = None
  BY DEF Refuse

LEMMA FileFields == ASSUME NEW rec PROVE File(rec).rec = rec
  BY DEF File

LEMMA AgreeWhen ==
  ASSUME BootTypeOK, clock \in Nat, server # None, Readable(policy),
         NEW action \in Actions, NEW ttl \in TTLs
  PROVE  Agree(action, ttl) <=>
           IF ttl < 0 THEN ~FitsDuration(ttl)
           ELSE FitsDuration(ttl) /\ policy[action] = server.policy[action]
  <1> DEFINE c == SubmitCLI(policy, action, ttl, "good")
             h == SubmitHTTP(action, ttl, "json")
  <1>1. policy \in Policies /\ server.policy \in Policies
    BY DEF Readable, BootTypeOK, Server
  <1>2. /\ ~FitsDuration(ttl) => c = Refuse(2)
        /\ FitsDuration(ttl) =>
             /\ c = File(NewRequest(policy[action], NoReason,
                                    IF ttl > 0 THEN clock + ttl * Second ELSE None, clock))
             /\ c.rec \in Filing /\ c.rec.status = StatusOfEffect(policy[action])
    BY <1>1, CLISubmission
  <1>3. /\ ttl < 0 => h = Refuse(BadRequest)
        /\ ~(ttl < 0) =>
             /\ h = File(NewRequest(server.policy[action], NoReason,
                                    IF ttl > 0 THEN clock + Seconds(ttl) ELSE None, clock))
             /\ h.rec \in Filing /\ h.rec.status = StatusOfEffect(server.policy[action])
    BY <1>1, HTTPSubmission
  <1>4. Agree(action, ttl) <=> /\ c.rec = h.rec
                               /\ c.rec = None => <<c.code, h.code>> = <<2, BadRequest>>
    BY Zenon DEF Agree
  <1> HIDE DEF c, h
  <1>5. CASE ttl < 0 /\ ~FitsDuration(ttl)
    <2>1. c.rec = None /\ c.code = 2 /\ h.rec = None /\ h.code = BadRequest
      BY <1>2, <1>3, <1>5, RefuseFields, Zenon
    <2> QED
      BY <1>4, <1>5, <2>1, Zenon
  <1>6. CASE ttl < 0 /\ FitsDuration(ttl)
    <2>1. c.rec # None /\ h.rec = None
      BY <1>2, <1>3, <1>6, RefuseFields, NoneApart, Zenon
    <2> QED
      BY <1>4, <1>6, <2>1, Zenon
  <1>7. CASE ~(ttl < 0) /\ ~FitsDuration(ttl)
    <2>1. c.rec = None /\ h.rec # None
      BY <1>2, <1>3, <1>7, RefuseFields, NoneApart, Zenon
    <2> QED
      BY <1>4, <1>7, <2>1, Zenon
  <1>8. CASE ~(ttl < 0) /\ FitsDuration(ttl) /\ policy[action] = server.policy[action]
    <2>1. Seconds(ttl) = ttl * Second
      BY <1>8, TTLFits, Zenon
    <2>2. c = h
      BY <1>2, <1>3, <1>8, <2>1, Zenon
    <2>3. c.rec = h.rec /\ c.rec # None
      BY <1>2, <1>8, <2>2, NoneApart, Zenon
    <2> QED
      BY <1>4, <1>8, <2>3, Zenon
  <1>9. CASE ~(ttl < 0) /\ FitsDuration(ttl) /\ policy[action] # server.policy[action]
    <2>1. policy[action] \in Effects /\ server.policy[action] \in Effects
      BY <1>1, DoorsAssumption
    <2>2. StatusOfEffect(policy[action]) # StatusOfEffect(server.policy[action])
      BY <1>9, <2>1, EffectStatus
    <2>3. c.rec # h.rec
      BY <1>2, <1>3, <1>9, <2>2, Zenon
    <2> QED
      BY <1>4, <1>9, <2>3, Zenon
  <1> QED
    BY <1>5, <1>6, <1>7, <1>8, <1>9, Zenon

\* When the doors make the same of a submission, and when they do not, whatever
\* the width of a Duration.
THEOREM DoorsAreAlike == Spec => []DoorsAgree
  <1>1. BootInv /\ CallsInv => DoorsAgree
    <2> SUFFICES ASSUME BootInv, CallsInv, server # None, Readable(policy),
                        NEW action \in Actions, NEW ttl \in TTLs
                 PROVE  Agree(action, ttl) <=>
                          IF ttl < 0 THEN ~FitsDuration(ttl)
                          ELSE FitsDuration(ttl) /\ policy[action] = server.policy[action]
      BY Zenon DEF DoorsAgree
    <2>1. BootTypeOK /\ clock \in Nat
      BY DEF BootInv, CallsInv, World
    <2> QED
      BY <2>1, AgreeWhen, Zenon
  <1> QED
    BY <1>1, CallsInvariant, PTL

LEMMA UsualCodes == 2 \notin {0, 1, 4} /\ 3 \notin {0, 1, 4} /\ ~(0 > 0)
  OBVIOUS

LEMMA DryRun ==
  ASSUME clock \in Nat, NEW action \in Actions \cup {""}, NEW params \in Params
  PROVE  LET dry == TestCLI(policy, action, params)
             run == SubmitCode(SubmitCLI(policy, action, 0, params))
         IN  IF params = "nan" /\ dry \in {0, 1, 4} THEN run = 3 ELSE run = dry
  <1> DEFINE dry == TestCLI(policy, action, params)
             out == SubmitCLI(policy, action, 0, params)
             run == SubmitCode(out)
             usage == action = "" \/ ParamsBad(params)
  <1>1. ASSUME NEW code PROVE SubmitCode(Refuse(code)) = code
    BY RefuseFields, Zenon DEF SubmitCode
  <1>2. FitsDuration(0) /\ 2 \notin {0, 1, 4} /\ 3 \notin {0, 1, 4}
    BY NoTTLFits, UsualCodes, Zenon
  <1>3. CASE usage
    <2>1. dry = 2 /\ out = Refuse(2)
      BY <1>3, Zenon DEF TestCLI, SubmitCLI
    <2> QED
      BY <1>1, <1>2, <2>1, Zenon
  <1>4. CASE ~usage /\ ~Readable(policy)
    <2>1. dry = 3
      BY <1>4, Zenon DEF TestCLI
    <2>2. out = Refuse(3)
      BY <1>2, <1>4, Zenon DEF SubmitCLI
    <2> QED
      BY <1>1, <1>2, <2>1, <2>2, Zenon
  <1>5. CASE ~usage /\ Readable(policy)
    <2> DEFINE status  == StatusOfEffect(policy[action])
               expires == IF 0 > 0 THEN clock + 0 * Second ELSE None
               rec     == NewRequest(policy[action], NoReason, expires, clock)
    <2>1. policy[action] \in Effects
      BY <1>5, DoorsAssumption DEF Readable
    <2>2. dry = exitFor(status)
      BY <1>5, Zenon DEF TestCLI
    <2>3. exitFor(status) \in {0, 1, 4} /\ CodeFor("submit", status) = exitFor(status)
      BY <2>1, EffectStatus
    <2>4. CASE params = "nan"
      <3>1. out = Refuse(3)
        BY <1>2, <1>5, <2>4, Zenon DEF SubmitCLI
      <3> QED
        BY <1>1, <2>2, <2>3, <2>4, <3>1, Zenon
    <2>5. CASE params # "nan"
      <3>1. out = File(rec)
        BY <1>2, <1>5, <2>5, Zenon DEF SubmitCLI
      <3>2. expires \in Int \cup {None}
        <4>1. ~(0 > 0)
          BY UsualCodes
        <4> QED
          BY <4>1, Zenon
      <3> HIDE DEF expires
      <3>3. rec.status = status /\ rec # None
        BY <2>1, <3>2, NewRequestFiling, NoneApart
      <3> HIDE DEF rec, status, out
      <3>4. out.rec = rec
        BY <3>1, FileFields
      <3>5. run = exitFor(status)
        BY <2>3, <3>3, <3>4, Zenon DEF SubmitCode
      <3> QED
        BY <2>2, <2>5, <3>5, Zenon DEF out
    <2> QED
      BY <2>4, <2>5
  <1> QED
    BY <1>3, <1>4, <1>5

\* `policy test` exits with the code submit would exit with, for every policy
\* file, readable or not, but for parameters that cannot be stored.
THEOREM DryRunIsTrue == Spec => []DryRunPredicts
  <1>1. CallsInv => DryRunPredicts
    BY DryRun, Zenon DEF DryRunPredicts, CallsInv, World
  <1> QED
    BY <1>1, CallsInvariant, PTL

=============================================================================
