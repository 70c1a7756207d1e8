---------------------------- MODULE ReadersProofs ----------------------------
(***************************************************************************)
(* What the two readers of the store show while others write to it: a      *)
(* listing of the requests, for any number of them, and the audit log, for *)
(* any number of appenders and of writes that stop half-way.               *)
(***************************************************************************)
EXTENDS Listing, AuditLog, Induction, SequenceTheorems

-----------------------------------------------------------------------------
\* The directory beside the listing.

\* What replaces a record: the same request with a verdict.
Overtakes(old, new) == new.status \in Verdicts /\ new.expires = old.expires

LEMMA NewRequestType ==
  ASSUME NEW effect \in Effects, NEW expires \in OptTime, NEW now \in Nat
  PROVE  NewRequest(effect, NoReason, expires, now) \in Request
  BY ListingAssumption
  DEF NewRequest, Request, Fields, Effects, OptTime, AnyReason, StatusOfEffect, Verdicts, Decided

LEMMA ResolvedType ==
  ASSUME NEW r \in Request, NEW verdict \in Verdicts, NEW now \in Nat
  PROVE  /\ Resolved(r, verdict, NoReason, now) \in Request
         /\ Overtakes(r, Resolved(r, verdict, NoReason, now))
  BY ListingAssumption DEF Resolved, Request, Fields, OptTime, Verdicts, Decided, Overtakes

\* The three statuses, spelled out.
LEMMA Reading ==
  ASSUME NEW r \in Request, NEW now \in Nat
  PROVE  /\ r.status \in Verdicts \cup {"pending"}
         /\ r.expires # None => r.expires \in Nat
         /\ StatusAt(r, now) \in Statuses
         /\ r.status \in Verdicts => StatusAt(r, now) = r.status
         /\ StatusAt(r, now) = "expired"
              <=> r.status = "pending" /\ r.expires # None /\ now > r.expires
         /\ StatusAt(r, now) = "pending"
              <=> r.status = "pending" /\ ~(r.expires # None /\ now > r.expires)
  BY DEF Request, Fields, OptTime, StatusAt, Statuses, Verdicts

There(id) == id \in Ids /\ Exists(id)

Filing(drafts, w, id) == drafts[w] # None /\ drafts[w][1] = id

\* A call files a request no other call files, or overtakes one that is there.
FitsOn(drafts, w, disk) ==
  LET id == drafts[w][1] IN
    /\ disk[id] # None => Overtakes(disk[id], drafts[w][2])
    /\ disk[id] = None => \A u \in Writers : Filing(drafts, u, id) => u = w

DraftFits == \A w \in Writers : draft[w] # None => FitsOn(draft, w, files)

StoreOK ==
  /\ files   \in [Ids -> Request \cup {None}]
  /\ created \in [Ids -> Nat]
  /\ bad     \subseteq Strays
  /\ draft   \in [Writers -> (Ids \X Request) \cup {None}]
  /\ clock   \in Nat
  /\ DraftFits

\* What no step beside the listing takes away.
Grows ==
  /\ bad' = bad /\ clock <= clock'
  /\ \A id \in Ids :
       Exists(id) => /\ Exists(id)'
                     /\ files'[id] = files[id] \/ Overtakes(files[id], files'[id])

Writing == (\E w \in Writers : Add(w) \/ Decide(w) \/ Rename(w) \/ Die(w)) \/ Tick

LEMMA AddGrows ==
  ASSUME StoreOK, NEW w \in Writers, Add(w)
  PROVE  StoreOK' /\ Grows
  <1>1. PICK id \in Ids, effect \in Effects, expires \in {clock + ttl : ttl \in TTLs} \cup {None} :
          /\ ~Exists(id)
          /\ \A d \in Drafts : d[1] # id
          /\ draft' = [draft EXCEPT ![w] = <<id, NewRequest(effect, NoReason, expires, clock)>>]
          /\ created' = [created EXCEPT ![id] = clock]
          /\ UNCHANGED <<bad, files, clock, scan>>
    BY DEF Add, Draft
  <1>2. expires \in OptTime
    BY ListingAssumption DEF OptTime, StoreOK
  <1>3. PICK rec \in Request : rec = NewRequest(effect, NoReason, expires, clock)
    BY <1>2, NewRequestType DEF StoreOK
  <1>4. draft' = [draft EXCEPT ![w] = <<id, rec>>]
    BY <1>1, <1>3
  <1>5. \A u \in Writers : ~Filing(draft, u, id)
    BY <1>1 DEF Drafts, Filing
  <1>6. /\ draft'[w] = <<id, rec>>
        /\ \A u \in Writers \ {w} : draft'[u] = draft[u]
    BY <1>4 DEF StoreOK
  <1>7. DraftFits'
    <2> SUFFICES ASSUME NEW u \in Writers, draft'[u] # None PROVE FitsOn(draft', u, files)
      BY <1>1 DEF DraftFits
    <2>1. CASE u = w
      <3>1. \A v \in Writers \ {w} : ~Filing(draft', v, id)
        BY <1>5, <1>6 DEF Filing
      <3>2. draft'[w][1] = id /\ files[id] = None
        BY <1>1, <1>6 DEF Exists
      <3>3. \A v \in Writers : Filing(draft', v, id) => v = w
        BY <3>1
      <3> QED
        BY <2>1, <3>2, <3>3 DEF FitsOn
    <2>2. CASE u # w
      <3>1. draft'[u] = draft[u] /\ draft[u][1] # id
        BY <1>5, <1>6, <2>2 DEF Filing
      <3>2. \A v \in Writers : Filing(draft', v, draft[u][1]) => Filing(draft, v, draft[u][1])
        BY <1>6, <3>1 DEF Filing
      <3>3. FitsOn(draft, u, files)
        BY <3>1 DEF StoreOK, DraftFits
      <3> QED
        BY <3>1, <3>2, <3>3 DEF FitsOn
    <2> QED
      BY <2>1, <2>2
  <1>8. StoreOK'
    BY <1>1, <1>4, <1>7 DEF StoreOK
  <1>9. Grows
    BY <1>1 DEF StoreOK, Grows, Exists
  <1> QED
    BY <1>8, <1>9

LEMMA DecideGrows ==
  ASSUME StoreOK, NEW w \in Writers, Decide(w)
  PROVE  StoreOK' /\ Grows
  <1>1. PICK id \in Ids, verdict \in Verdicts :
          /\ StatusOn(id) = "pending"
          /\ draft' = [draft EXCEPT ![w] = <<id, Resolved(files[id], verdict, NoReason, clock)>>]
          /\ UNCHANGED <<bad, files, created, clock, scan>>
    BY DEF Decide, Draft
  <1>2. Exists(id) /\ files[id] \in Request
    BY <1>1 DEF StatusOn, Exists, StoreOK
  <1>3. PICK rec \in Request :
          rec = Resolved(files[id], verdict, NoReason, clock) /\ Overtakes(files[id], rec)
    BY <1>2, ResolvedType DEF StoreOK
  <1>4. draft' = [draft EXCEPT ![w] = <<id, rec>>]
    BY <1>1, <1>3
  <1>5. /\ draft'[w] = <<id, rec>>
        /\ \A u \in Writers \ {w} : draft'[u] = draft[u]
    BY <1>4 DEF StoreOK
  <1>6. DraftFits'
    <2> SUFFICES ASSUME NEW u \in Writers, draft'[u] # None PROVE FitsOn(draft', u, files)
      BY <1>1 DEF DraftFits
    <2>1. CASE u = w
      BY <1>2, <1>3, <1>5, <2>1 DEF FitsOn, Exists
    <2>2. CASE u # w
      <3>1. draft'[u] = draft[u] /\ FitsOn(draft, u, files)
        BY <1>5, <2>2 DEF StoreOK, DraftFits
      <3>2. files[draft[u][1]] = None =>
              \A v \in Writers : Filing(draft', v, draft[u][1]) => Filing(draft, v, draft[u][1])
        BY <1>2, <1>5 DEF Filing, Exists
      <3> QED
        BY <3>1, <3>2 DEF FitsOn
    <2> QED
      BY <2>1, <2>2
  <1>7. StoreOK'
    BY <1>1, <1>4, <1>6 DEF StoreOK
  <1>8. Grows
    BY <1>1 DEF StoreOK, Grows, Exists
  <1> QED
    BY <1>7, <1>8

LEMMA RenameGrows ==
  ASSUME StoreOK, NEW w \in Writers, Rename(w)
  PROVE  StoreOK' /\ Grows
  <1>1. PICK id \in Ids, rec \in Request : draft[w] = <<id, rec>>
    BY DEF Rename, StoreOK
  <1>2. /\ files' = [files EXCEPT ![id] = rec]
        /\ bad' = bad \ {id} /\ UNCHANGED <<created, clock, scan>>
        /\ draft' = [draft EXCEPT ![w] = None]
    BY <1>1 DEF Rename
  <1>3. bad' = bad
    BY <1>2, NameAssumption DEF StoreOK
  <1>4. rec # None /\ files'[id] = rec /\ \A i \in Ids \ {id} : files'[i] = files[i]
    BY <1>1, <1>2, ListingAssumption DEF StoreOK
  <1>5. draft'[w] = None /\ \A u \in Writers \ {w} : draft'[u] = draft[u]
    BY <1>2 DEF StoreOK
  <1>6. Filing(draft, w, id) /\ draft[w] # None
    BY <1>1 DEF Filing, Rename
  <1>7. files[id] # None => Overtakes(files[id], rec)
    BY <1>1, <1>6 DEF StoreOK, DraftFits, FitsOn
  <1>8. DraftFits'
    <2> SUFFICES ASSUME NEW u \in Writers, draft'[u] # None PROVE FitsOn(draft', u, files')
      BY DEF DraftFits
    <2>1. u # w /\ draft'[u] = draft[u] /\ FitsOn(draft, u, files) /\ draft[u][1] \in Ids
      BY <1>5 DEF StoreOK, DraftFits
    <2>2. CASE draft[u][1] = id
      <3>1. files[id] # None
        BY <1>6, <2>1, <2>2 DEF FitsOn
      <3>2. Overtakes(rec, draft[u][2])
        BY <1>7, <2>1, <2>2, <3>1 DEF FitsOn, Overtakes
      <3> QED
        BY <1>4, <2>1, <2>2, <3>2 DEF FitsOn
    <2>3. CASE draft[u][1] # id
      <3>1. files'[draft[u][1]] = files[draft[u][1]]
        BY <1>4, <2>1, <2>3
      <3>2. \A v \in Writers : Filing(draft', v, draft[u][1]) => Filing(draft, v, draft[u][1])
        BY <1>5 DEF Filing
      <3> QED
        BY <2>1, <3>1, <3>2 DEF FitsOn
    <2> QED
      BY <2>2, <2>3
  <1>9. StoreOK'
    <2>1. draft' \in [Writers -> (Ids \X Request) \cup {None}]
      BY <1>2 DEF StoreOK
    <2>2. files' \in [Ids -> Request \cup {None}]
      BY <1>2 DEF StoreOK
    <2> QED
      BY <1>2, <1>3, <1>8, <2>1, <2>2 DEF StoreOK
  <1>10. Grows
    BY <1>2, <1>3, <1>4, <1>7 DEF Grows, Exists, StoreOK
  <1> QED
    BY <1>9, <1>10

LEMMA WritersGrow ==
  ASSUME StoreOK, Writing
  PROVE  StoreOK' /\ Grows /\ scan' = scan /\ Watch
  <1>1. scan' = scan /\ Watch
    BY DEF Writing, Add, Decide, Rename, Die, Tick
  <1>2. ASSUME NEW w \in Writers, Die(w) PROVE StoreOK' /\ Grows
    <2>1. /\ draft' = [draft EXCEPT ![w] = None]
          /\ files' = files /\ created' = created /\ bad' = bad /\ clock' = clock
      BY <1>2 DEF Die, store
    <2>2. \A u \in Writers : draft'[u] = draft[u] \/ draft'[u] = None
      BY <2>1 DEF StoreOK
    <2>3. \A u \in Writers, id \in Ids : Filing(draft', u, id) => Filing(draft, u, id)
      BY <2>2 DEF Filing
    <2>4. DraftFits'
      <3> SUFFICES ASSUME NEW u \in Writers, draft'[u] # None PROVE FitsOn(draft', u, files)
        BY <2>1 DEF DraftFits
      <3>1. draft'[u] = draft[u] /\ FitsOn(draft, u, files) /\ draft[u][1] \in Ids
        BY <2>2 DEF StoreOK, DraftFits
      <3> QED
        BY <2>3, <3>1 DEF FitsOn
    <2> QED
      BY <2>1, <2>4 DEF StoreOK, Grows, Exists
  <1>3. CASE Tick
    BY <1>3 DEF Tick, store, StoreOK, DraftFits, FitsOn, Filing, Grows, Exists
  <1> QED
    BY <1>1, <1>2, <1>3, AddGrows, DecideGrows, RenameGrows DEF Writing

-----------------------------------------------------------------------------
(***************************************************************************)
(* The listing.  What a request is now, it has been seen to be; what the   *)
(* listing holds of it was read while it was seen.                         *)
(***************************************************************************)
Scan ==
  [at     : {"idle", "dir", "next", "check", "done", "failed"},
   filter : Filters \cup {"all"},
   left   : SUBSET (Ids \cup Strays),
   rec    : Request \cup {None},
   rows   : Seq(Row),
   fault  : BOOLEAN]

SeenFits ==
  /\ seen \in [Ids -> SUBSET (Statuses \cup {"absent"})]
  /\ UnderWay => \A id \in Ids : StatusOn(id) \in seen[id]

LeftFits == \A n \in scan.left : There(n) \/ n \in bad

\* A record read of a request, and what the request was at that moment.
ReadOf(id, rec) ==
  /\ There(id) /\ rec \in Request /\ files[id].expires = rec.expires
  /\ rec.status \in Verdicts => rec.status \in seen[id]
  /\ rec.status = "pending" =>
       \/ "pending" \in seen[id]
       \/ "expired" \in seen[id] /\ rec.expires # None /\ clock > rec.expires

RecFits ==
  scan.at = "check" => scan.left # {} /\ ReadOf(FirstOf(scan.left), scan.rec)

\* A row of the listing, of a request that is filed.
RowFits(row) ==
  /\ row \in Row /\ There(row.id)
  /\ \/ row.status \in seen[row.id]
     \/ /\ row.status = "expired" /\ "pending" \in seen[row.id]
        /\ files[row.id].expires \in Nat /\ clock > files[row.id].expires

RowsFit == \A k \in DOMAIN scan.rows : RowFits(scan.rows[k])

HasRow(id) == \E row \in Shown : row.id = id

\* What was looked at and had no status but one asked for has its row.
AllCovered ==
  scan.at \in {"dir", "next", "check", "done"} =>
    \A id \in Ids : seen[id] \subseteq Asked /\ id \notin scan.left => HasRow(id)

EndFits ==
  /\ scan.at = "done" => scan.left = {}
  /\ scan.at = "failed" => scan.fault \/ bad # {}

ListInv == /\ StoreOK /\ scan \in Scan
           /\ SeenFits /\ LeftFits /\ RecFits /\ RowsFit /\ AllCovered /\ EndFits

LEMMA FirstOfLeft ==
  ASSUME scan \in Scan, scan.left # {}
  PROVE  FirstOf(scan.left) \in scan.left
  <1>1. scan.left \in SUBSET Nat
    BY NameAssumption DEF Scan
  <1>2. \E n \in scan.left : \A m \in scan.left : n <= m
    BY <1>1, Least
  <1> QED
    BY <1>2 DEF FirstOf

LEMMA RowsAreSeq ==
  ASSUME NEW S, NEW n \in Nat, NEW f \in [1..n -> S]
  PROVE  f \in Seq(S)
  OBVIOUS

LEMMA StatusOnType ==
  ASSUME StoreOK, NEW id \in Ids
  PROVE  StatusOn(id) \in Statuses \cup {"absent"}
  BY Reading DEF StatusOn, Exists, StoreOK

LEMMA InitListInv == ListInit => ListInv
  <1> SUFFICES ASSUME ListInit PROVE ListInv
    OBVIOUS
  <1>1. StoreOK
    BY DEF ListInit, StoreOK, DraftFits
  <1>2. /\ scan \in Scan /\ scan.at = "idle" /\ scan.left = {} /\ scan.rows = <<>>
    BY DEF ListInit, NoScan, Scan
  <1>3. SeenFits
    BY <1>2 DEF ListInit, SeenFits, UnderWay
  <1> QED
    BY <1>1, <1>2, <1>3 DEF ListInv, LeftFits, RecFits, RowsFit, AllCovered, EndFits

\* What the listing has found stays true while others write.
LEMMA WritersKeep ==
  ASSUME ListInv, Writing
  PROVE  ListInv'
  <1>1. StoreOK /\ StoreOK' /\ Grows /\ scan' = scan /\ scan \in Scan /\ Watch
    BY WritersGrow DEF ListInv
  <1>2. \A n : There(n) => There(n)' /\ files'[n].expires = files[n].expires
    BY <1>1 DEF There, Grows, Overtakes
  <1>3. \A id \in Ids : StatusOn(id)' \in Statuses \cup {"absent"}
    BY <1>1, Reading DEF StatusOn, Exists, StoreOK
  <1>4. /\ seen' \in [Ids -> SUBSET (Statuses \cup {"absent"})]
        /\ \A id \in Ids : /\ seen[id] \subseteq seen'[id]
                           /\ UnderWay => StatusOn(id)' \in seen'[id]
    BY <1>1, <1>3 DEF Watch, ListInv, SeenFits
  <1>5. UnderWay' <=> UnderWay
    BY <1>1 DEF UnderWay
  <1>6. SeenFits'
    BY <1>4, <1>5 DEF SeenFits
  <1>7. LeftFits'
    BY <1>1, <1>2 DEF ListInv, LeftFits, Grows
  <1>8. clock \in Nat /\ clock' \in Nat /\ clock <= clock'
    BY <1>1 DEF StoreOK, Grows
  <1>9. RecFits'
    <2> SUFFICES ASSUME scan.at = "check" PROVE RecFits'
      BY <1>1 DEF RecFits
    <2>1. PICK id : id = FirstOf(scan.left)
      OBVIOUS
    <2>2. scan.left # {} /\ ReadOf(id, scan.rec)
      BY <2>1 DEF ListInv, RecFits
    <2>3. id \in Ids /\ seen[id] \subseteq seen'[id]
      BY <1>4, <2>2 DEF ReadOf, There
    <2>4. scan.rec.expires # None => scan.rec.expires \in Nat
      BY <2>2, Reading, <1>8 DEF ReadOf
    <2>5. ReadOf(id, scan.rec)'
      BY <1>1, <1>2, <1>8, <2>2, <2>3, <2>4 DEF ReadOf
    <2> QED
      BY <1>1, <2>1, <2>2, <2>5 DEF RecFits
  <1>10. ASSUME NEW row, RowFits(row) PROVE RowFits(row)'
    <2>1. There(row.id) /\ There(row.id)' /\ files'[row.id].expires = files[row.id].expires
      BY <1>2, <1>10 DEF RowFits
    <2>2. seen[row.id] \subseteq seen'[row.id]
      BY <1>4, <2>1 DEF There
    <2> QED
      BY <1>8, <1>10, <2>1, <2>2 DEF RowFits
  <1>11. RowsFit'
    BY <1>1, <1>10 DEF ListInv, RowsFit
  <1>12. AllCovered'
    BY <1>1, <1>4 DEF ListInv, AllCovered, HasRow, Shown, Asked
  <1>13. EndFits'
    BY <1>1 DEF ListInv, EndFits, Grows
  <1> QED
    BY <1>1, <1>6, <1>7, <1>9, <1>11, <1>12, <1>13 DEF ListInv

\* A step of the listing leaves the store alone.
LEMMA LookKeeps ==
  ASSUME StoreOK, NEW next, Look(next)
  PROVE  /\ StoreOK' /\ scan' = next
         /\ bad' = bad /\ files' = files /\ clock' = clock
         /\ \A id : (StatusOn(id)' = StatusOn(id)) /\ (There(id)' <=> There(id))
  BY DEF Look, store, StoreOK, DraftFits, FitsOn, Filing, StatusOn, There, Exists

LEMMA BeginKeeps ==
  ASSUME ListInv, ListBegin
  PROVE  ListInv'
  <1>1. PICK filter \in Filters :
          Look([NoScan EXCEPT !.at = "dir", !.filter = filter,
                              !.left = {id \in Ids : Exists(id)} \cup bad])
    BY DEF ListBegin
  <1> DEFINE left == {id \in Ids : Exists(id)} \cup bad
  <1>2. scan' = [at |-> "dir", filter |-> filter, left |-> left, rec |-> None,
                 rows |-> <<>>, fault |-> FALSE]
    BY <1>1 DEF Look, NoScan
  <1>3. /\ StoreOK' /\ bad' = bad
        /\ \A id : (StatusOn(id)' = StatusOn(id)) /\ (There(id)' <=> There(id))
    BY <1>1, LookKeeps DEF ListInv
  <1>4. seen' = [id \in Ids |-> {StatusOn(id)}]
    BY DEF ListBegin
  <1>5. left \in SUBSET (Ids \cup Strays) /\ \A n \in left : There(n) \/ n \in bad
    BY DEF ListInv, StoreOK, There
  <1>6. \A id \in Ids : id \notin left => StatusOn(id) = "absent"
    BY DEF StatusOn
  <1> HIDE DEF left
  <1>7. /\ scan' \in Scan /\ scan'.at = "dir" /\ scan'.left = left /\ scan'.rows = <<>>
        /\ scan'.filter \in Statuses \cup {"all"}
    BY <1>2, <1>5, ListingAssumption DEF Scan
  <1>8. SeenFits'
    BY <1>3, <1>4, StatusOnType DEF ListInv, SeenFits
  <1>9. "absent" \notin Asked'
    BY <1>7 DEF Asked, Statuses, Verdicts
  <1>10. AllCovered'
    BY <1>4, <1>6, <1>7, <1>9 DEF AllCovered
  <1> QED
    BY <1>3, <1>5, <1>7, <1>8, <1>10 DEF ListInv, LeftFits, RecFits, RowsFit, EndFits

\* A step of the listing that reads no row in: its rows and what it asks for stay.
LEMMA QuietKeeps ==
  ASSUME ListInv, NEW next \in Scan, Look(next), UNCHANGED seen,
         scan.at \in {"dir", "next"},
         next.rows = scan.rows, next.filter = scan.filter,
         scan.left \subseteq next.left, \A n \in next.left : There(n) \/ n \in bad,
         next.at \in {"next", "check", "failed"},
         next.at = "check" => next.left # {} /\ ReadOf(FirstOf(next.left), next.rec),
         next.at = "failed" => next.fault \/ bad # {}
  PROVE  ListInv'
  <1>1. /\ StoreOK' /\ scan' = next /\ bad' = bad /\ files' = files /\ clock' = clock
        /\ \A n : (StatusOn(n)' = StatusOn(n)) /\ (There(n)' <=> There(n))
    BY LookKeeps DEF ListInv
  <1>2. \A id, rec : ReadOf(id, rec)' <=> ReadOf(id, rec)
    BY <1>1 DEF ReadOf
  <1>3. \A row : RowFits(row)' <=> RowFits(row)
    BY <1>1 DEF RowFits
  <1>4. SeenFits' /\ LeftFits' /\ EndFits'
    BY <1>1 DEF ListInv, SeenFits, UnderWay, LeftFits, EndFits
  <1>5. RecFits'
    BY <1>1, <1>2 DEF RecFits
  <1>6. RowsFit'
    BY <1>1, <1>3 DEF ListInv, RowsFit
  <1>7. AllCovered'
    BY <1>1 DEF ListInv, AllCovered, HasRow, Shown, Asked
  <1> QED
    BY <1>1, <1>4, <1>5, <1>6, <1>7 DEF ListInv

LEMMA DirKeeps ==
  ASSUME ListInv, ListDir
  PROVE  ListInv'
  <1>1. PICK new \in SUBSET {id \in Ids : Exists(id)} :
          Look([scan EXCEPT !.at = "next", !.left = @ \cup new])
    BY DEF ListDir
  <1>2. PICK next : next = [scan EXCEPT !.at = "next", !.left = @ \cup new]
    OBVIOUS
  <1>3. scan.at = "dir" /\ scan \in Scan
    BY DEF ListDir, ListInv
  <1>4. /\ next \in Scan /\ next.at = "next" /\ next.left = scan.left \cup new
        /\ next.rows = scan.rows /\ next.filter = scan.filter
    BY <1>2, <1>3 DEF Scan
  <1>5. \A n \in next.left : There(n) \/ n \in bad
    BY <1>4 DEF ListInv, LeftFits, There
  <1> QED
    BY <1>1, <1>2, <1>3, <1>4, <1>5, QuietKeeps DEF ListDir

LEMMA FailsKeeps ==
  ASSUME ListInv, ListFails
  PROVE  ListInv'
  <1>1. scan.at \in {"dir", "next"} /\ scan \in Scan /\ Look(Failed)
    BY DEF ListFails, ListInv
  <1>2. /\ Failed \in Scan /\ Failed.at = "failed" /\ Failed.fault /\ Failed.left = scan.left
        /\ Failed.rows = scan.rows /\ Failed.filter = scan.filter
    BY <1>1 DEF Failed, Scan
  <1> QED
    BY <1>1, <1>2, QuietKeeps DEF ListFails, ListInv, LeftFits

LEMMA ReadKeeps ==
  ASSUME ListInv, ListRead
  PROVE  ListInv'
  <1>1. PICK id : id = FirstOf(scan.left)
    OBVIOUS
  <1>2. scan.at = "next" /\ scan.left # {} /\ scan \in Scan /\ StoreOK
    BY DEF ListRead, ListInv
  <1>3. id \in scan.left
    BY <1>1, <1>2, FirstOfLeft
  <1>4. CASE id \in bad /\ Look([scan EXCEPT !.at = "failed"])
    <2>1. PICK next : next = [scan EXCEPT !.at = "failed"]
      OBVIOUS
    <2>2. /\ next \in Scan /\ next.at = "failed" /\ next.left = scan.left
          /\ next.rows = scan.rows /\ next.filter = scan.filter
      BY <1>2, <2>1 DEF Scan
    <2> QED
      BY <1>2, <1>4, <2>1, <2>2, QuietKeeps DEF ListRead, ListInv, LeftFits
  <1>5. CASE id \notin bad /\ Look([scan EXCEPT !.at = "check", !.rec = files[id]])
    <2>1. There(id) /\ files[id] \in Request /\ clock \in Nat
      BY <1>2, <1>3, <1>5 DEF ListInv, LeftFits, There, Exists, StoreOK
    <2>2. StatusAt(files[id], clock) \in seen[id]
      BY <1>2, <2>1 DEF ListInv, SeenFits, UnderWay, StatusOn, There
    <2>3. ReadOf(id, files[id])
      BY <2>1, <2>2, Reading DEF ReadOf
    <2>4. PICK next : next = [scan EXCEPT !.at = "check", !.rec = files[id]]
      OBVIOUS
    <2>5. /\ next \in Scan /\ next.at = "check" /\ next.left = scan.left
          /\ next.rows = scan.rows /\ next.filter = scan.filter /\ next.rec = files[id]
      BY <1>2, <2>1, <2>4 DEF Scan
    <2> QED
      BY <1>1, <1>2, <1>5, <2>3, <2>4, <2>5, QuietKeeps DEF ListRead, ListInv, LeftFits
  <1> QED
    BY <1>1, <1>4, <1>5 DEF ListRead

\* A record read of a request that had no status but one asked for is a row.
LEMMA WantedWhenSeen ==
  ASSUME ListInv, scan.at = "check", NEW id \in Ids, ReadOf(id, scan.rec),
         seen[id] \subseteq Asked
  PROVE  Wanted(scan.rec)
  <1>1. /\ scan.rec \in Request /\ clock \in Nat /\ files[id] \in Request
        /\ files[id].expires = scan.rec.expires
        /\ StatusAt(files[id], clock) \in seen[id]
    BY DEF ListInv, StoreOK, SeenFits, UnderWay, StatusOn, ReadOf, There, Exists
  <1>2. CASE scan.filter = "all"
    BY <1>2 DEF Wanted
  <1>3. CASE scan.filter # "all"
    <2>1. \A s \in seen[id] : s = scan.filter
      BY <1>3 DEF Asked
    <2>2. StatusAt(files[id], clock) = scan.filter
      BY <1>1, <2>1
    <2>3. StatusAt(scan.rec, clock) = scan.filter
      <3>1. CASE scan.rec.status \in Verdicts
        BY <1>1, <2>1, <3>1, Reading DEF ReadOf
      <3>2. CASE "pending" \in seen[id] /\ scan.rec.status = "pending"
        BY <1>1, <2>1, <2>2, <3>2, Reading
      <3>3. CASE /\ "expired" \in seen[id] /\ scan.rec.status = "pending"
                 /\ scan.rec.expires # None /\ clock > scan.rec.expires
        BY <1>1, <2>1, <3>3, Reading
      <3> QED
        BY <1>1, <3>1, <3>2, <3>3, Reading DEF ReadOf
    <2> QED
      BY <2>3 DEF Wanted, ReadAs
  <1> QED
    BY <1>2, <1>3

\* The record in hand becomes a row, or is passed over.
LEMMA CheckKeeps ==
  ASSUME ListInv, ListCheck
  PROVE  ListInv'
  <1>0. PICK id, t, row :
          /\ id = FirstOf(scan.left)
          /\ t = StatusAt(scan.rec, clock) /\ row = [id |-> id, status |-> t]
    OBVIOUS
  <1>1. scan.at = "check" /\ scan \in Scan /\ StoreOK /\ clock \in Nat
    BY DEF ListCheck, ListInv, StoreOK
  <1>2. scan.left # {} /\ ReadOf(id, scan.rec) /\ There(id) /\ scan.rec \in Request
    BY <1>0, <1>1 DEF ListInv, RecFits, ReadOf
  <1>3. id \in scan.left /\ id \in Ids
    BY <1>0, <1>1, <1>2, FirstOfLeft DEF There
  <1>4. t \in Statuses
    BY <1>0, <1>1, <1>2, Reading
  <1>5. Look([scan EXCEPT !.at = "next", !.left = @ \ {id}, !.rec = None,
                          !.rows = IF Wanted(scan.rec) THEN Append(@, row) ELSE @])
    BY <1>0 DEF ListCheck, ReadAs
  <1>6. /\ StoreOK' /\ bad' = bad /\ files' = files /\ clock' = clock /\ seen' = seen
        /\ \A n : (StatusOn(n)' = StatusOn(n)) /\ (There(n)' <=> There(n))
    BY <1>1, <1>5, LookKeeps DEF ListCheck
  <1>7. row \in Row /\ row.id = id /\ row.status = t
    BY <1>0, <1>3, <1>4 DEF Row
  <1>8. /\ scan' \in Scan /\ scan'.at = "next"
        /\ scan'.left = scan.left \ {id} /\ scan'.filter = scan.filter
        /\ scan'.rows = IF Wanted(scan.rec) THEN Append(scan.rows, row) ELSE scan.rows
    <2>1. scan' = [scan EXCEPT !.at = "next", !.left = @ \ {id}, !.rec = None,
                               !.rows = IF Wanted(scan.rec) THEN Append(@, row) ELSE @]
      BY <1>5 DEF Look
    <2>2. scan.rows \in Seq(Row) /\ Append(scan.rows, row) \in Seq(Row)
      BY <1>1, <1>7 DEF Scan
    <2> QED
      BY <1>1, <2>1, <2>2 DEF Scan
  <1>9. Shown' = IF Wanted(scan.rec) THEN Shown \cup {row} ELSE Shown
    <2>1. scan.rows \in Seq(Row)
      BY <1>1 DEF Scan
    <2>2. {Append(scan.rows, row)[k] : k \in DOMAIN Append(scan.rows, row)}
            = {scan.rows[k] : k \in DOMAIN scan.rows} \cup {row}
      <3>1. /\ DOMAIN scan.rows = 1..Len(scan.rows) /\ Len(scan.rows) \in Nat
            /\ DOMAIN Append(scan.rows, row) = 1..(Len(scan.rows) + 1)
            /\ Append(scan.rows, row)[Len(scan.rows) + 1] = row
            /\ \A k \in 1..Len(scan.rows) : Append(scan.rows, row)[k] = scan.rows[k]
        BY <1>7, <2>1
      <3>2. DOMAIN Append(scan.rows, row) = DOMAIN scan.rows \cup {Len(scan.rows) + 1}
        BY <3>1
      <3> QED
        BY <3>1, <3>2
    <2> QED
      BY <1>8, <2>2 DEF Shown
  <1>10. RowFits(row)
    <2>1. CASE scan.rec.status \in Verdicts
      BY <1>0, <1>1, <1>2, <1>7, <2>1, Reading DEF RowFits, ReadOf
    <2>2. CASE scan.rec.status = "pending"
      BY <1>0, <1>1, <1>2, <1>7, <2>2, Reading DEF RowFits, ReadOf
    <2> QED
      BY <1>1, <1>2, <2>1, <2>2, Reading
  <1>11. \A r : RowFits(r)' <=> RowFits(r)
    BY <1>6 DEF RowFits
  <1>12. RowsFit'
    <2>1. \A r \in Shown : RowFits(r)
      BY DEF ListInv, RowsFit, Shown
    <2>2. \A r \in Shown' : RowFits(r)'
      BY <1>9, <1>10, <1>11, <2>1
    <2>3. \A k \in DOMAIN scan'.rows : scan'.rows[k] \in Shown'
      BY DEF Shown
    <2> QED
      BY <2>2, <2>3 DEF RowsFit
  <1>13. AllCovered'
    <2> SUFFICES ASSUME NEW n \in Ids, seen[n] \subseteq Asked, n \notin scan.left \ {id}
                 PROVE  \E r \in Shown' : r.id = n
      BY <1>6, <1>8 DEF AllCovered, Asked, HasRow
    <2>1. CASE n = id
      BY <1>1, <1>2, <1>7, <1>9, <2>1, WantedWhenSeen
    <2>2. CASE n # id
      BY <1>1, <1>9, <2>2 DEF ListInv, AllCovered, HasRow
    <2> QED
      BY <2>1, <2>2
  <1>14. SeenFits' /\ LeftFits'
    BY <1>1, <1>6, <1>8 DEF ListInv, SeenFits, UnderWay, LeftFits
  <1> QED
    BY <1>6, <1>8, <1>12, <1>13, <1>14 DEF ListInv, RecFits, EndFits

\* Sorting moves the rows about and changes none.
LEMMA SortKeeps ==
  ASSUME ListInv, ListSort
  PROVE  ListInv'
  <1>1. scan.at = "next" /\ scan.left = {} /\ scan \in Scan /\ StoreOK
    BY DEF ListSort, ListInv
  <1>2. PICK D : D = DOMAIN scan.rows
    OBVIOUS
  <1>3. PICK from \in Bijection(D, D) :
          LET rows == [k \in D |-> scan.rows[from[k]]]
          IN  Sorted(rows) /\ Look([scan EXCEPT !.at = "done", !.rows = rows])
    BY <1>2 DEF ListSort
  <1>4. PICK rows : rows = [k \in D |-> scan.rows[from[k]]]
    OBVIOUS
  <1>5. /\ from \in [D -> D]
        /\ \A j \in D : \E k \in D : from[k] = j
    BY <1>3 DEF Bijection, Injection, Surjection, IsInjective
  <1>6. rows \in Seq(Row) /\ DOMAIN rows = D
    <2> USE <1>2, <1>4
    <2>1. scan.rows \in Seq(Row) /\ D = 1..Len(scan.rows) /\ Len(scan.rows) \in Nat
      BY <1>1 DEF Scan
    <2>2. \A k \in D : scan.rows[from[k]] \in Row
      BY <1>5, <2>1
    <2>3. rows \in [1..Len(scan.rows) -> Row]
      BY <2>1, <2>2
    <2> QED
      BY <2>1, <2>3, RowsAreSeq
  <1>7. /\ \A k \in D : rows[k] = scan.rows[from[k]]
        /\ Look([scan EXCEPT !.at = "done", !.rows = rows])
    BY <1>3, <1>4
  <1>8. /\ StoreOK' /\ bad' = bad /\ files' = files /\ clock' = clock /\ seen' = seen
        /\ \A n : (StatusOn(n)' = StatusOn(n)) /\ (There(n)' <=> There(n))
    BY <1>1, <1>7, LookKeeps DEF ListSort
  <1>9. /\ scan' \in Scan /\ scan'.at = "done"
        /\ scan'.left = scan.left /\ scan'.filter = scan.filter /\ scan'.rows = rows
    BY <1>1, <1>6, <1>7 DEF Look, Scan
  <1>10. Shown' = Shown
    <2>1. \A j \in D : \E k \in D : rows[k] = scan.rows[j]
      BY <1>5, <1>7
    <2>2. \A k \in D : \E j \in D : rows[k] = scan.rows[j]
      BY <1>5, <1>7
    <2>3. {rows[k] : k \in D} = {scan.rows[k] : k \in D}
      BY <2>1, <2>2
    <2> QED
      BY <1>2, <1>6, <1>9, <2>3 DEF Shown
  <1>11. RowsFit'
    <2>1. \A r \in Shown : RowFits(r)
      BY DEF ListInv, RowsFit, Shown
    <2>2. \A r : RowFits(r)' <=> RowFits(r)
      BY <1>8 DEF RowFits
    <2>3. \A k \in DOMAIN scan'.rows : scan'.rows[k] \in Shown'
      BY DEF Shown
    <2>4. \A r \in Shown' : RowFits(r)'
      BY <1>10, <2>1, <2>2
    <2> QED
      BY <2>3, <2>4 DEF RowsFit
  <1>12. AllCovered'
    BY <1>1, <1>8, <1>9, <1>10 DEF ListInv, AllCovered, HasRow, Asked
  <1>13. SeenFits' /\ LeftFits' /\ EndFits'
    BY <1>1, <1>8, <1>9 DEF ListInv, SeenFits, UnderWay, LeftFits, EndFits
  <1> QED
    BY <1>8, <1>9, <1>11, <1>12, <1>13 DEF ListInv, RecFits

LEMMA NextListInv == ListInv /\ [ListNext]_listVars => ListInv'
  <1> SUFFICES ASSUME ListInv, [ListNext]_listVars PROVE ListInv'
    OBVIOUS
  <1>1. CASE Writing
    BY <1>1, WritersKeep
  <1>2. CASE ListBegin \/ ListDir \/ ListFails \/ ListRead \/ ListCheck \/ ListSort
    BY <1>2, BeginKeeps, DirKeeps, FailsKeeps, ReadKeeps, CheckKeeps, SortKeeps
  <1>3. CASE UNCHANGED listVars
    <2>1. /\ files' = files /\ created' = created /\ bad' = bad /\ draft' = draft
          /\ clock' = clock /\ scan' = scan /\ seen' = seen
      BY <1>3 DEF listVars, store
    <2>2. \A id : (StatusOn(id)' = StatusOn(id)) /\ (There(id)' <=> There(id))
      BY <2>1 DEF StatusOn, There, Exists
    <2>3. StoreOK' /\ (scan \in Scan)'
      BY <2>1 DEF ListInv, StoreOK, DraftFits, FitsOn, Filing, Exists
    <2>4. SeenFits' /\ LeftFits' /\ EndFits'
      BY <2>1, <2>2 DEF ListInv, SeenFits, UnderWay, LeftFits, EndFits
    <2>5. RecFits'
      BY <2>1, <2>2 DEF ListInv, RecFits, ReadOf
    <2>6. RowsFit'
      BY <2>1, <2>2 DEF ListInv, RowsFit, RowFits
    <2>7. AllCovered'
      BY <2>1, <2>2 DEF ListInv, AllCovered, HasRow, Shown, Asked
    <2> QED
      BY <2>3, <2>4, <2>5, <2>6, <2>7 DEF ListInv
  <1> QED
    BY <1>1, <1>2, <1>3 DEF ListNext, Writing

-----------------------------------------------------------------------------
\* The directory, the record in hand and the rows keep their types.
THEOREM ListTypeCorrect == ListSpec => []ListTypeOK
  <1>1. ListInv => ListTypeOK
    BY DEF ListInv, StoreOK, SeenFits, Scan, ListTypeOK
  <1> QED
    BY <1>1, InitListInv, NextListInv, PTL DEF ListSpec

\* A request that has a status asked for from the beginning of a listing to its end
\* is in it, however many processes file, decide and overwrite meanwhile.
THEOREM ListIsComplete == ListSpec => []ListMissesNone
  <1>1. ListInv => ListMissesNone
    BY DEF ListInv, AllCovered, EndFits, HasRow, ListMissesNone
  <1> QED
    BY <1>1, InitListInv, NextListInv, PTL DEF ListSpec

\* A row tells of a status its request had during the listing, or of a deadline that
\* has passed.
THEOREM ListTellsTruth == ListSpec => []ListIsCurrent
  <1>1. ListInv => ListIsCurrent
    <2> SUFFICES ASSUME ListInv, NEW row \in Shown
                 PROVE  \/ row.status \in seen[row.id]
                        \/ /\ row.status = "expired" /\ "pending" \in seen[row.id]
                           /\ clock > files[row.id].expires
      BY DEF ListIsCurrent
    <2>1. RowFits(row)
      BY DEF Shown, ListInv, RowsFit
    <2> QED
      BY <2>1 DEF RowFits
  <1> QED
    BY <1>1, InitListInv, NextListInv, PTL DEF ListSpec

\* Only the disk or a file that is no request makes a listing fail; no writer and no
\* death of one does.
THEOREM OnlyStraysStopIt == ListSpec => []OnlyStraysFailList
  <1>1. ListInv => OnlyStraysFailList
    BY DEF ListInv, StoreOK, EndFits, OnlyStraysFailList
  <1> QED
    BY <1>1, InitListInv, NextListInv, PTL DEF ListSpec

-----------------------------------------------------------------------------
(***************************************************************************)
(* The audit log.  No event is begun twice, so no symbol but the newline   *)
(* is in the file twice.                                                   *)
(***************************************************************************)
Symbols == (Events \X {"head", "tail"}) \cup {Newline}

LogTypes ==
  /\ log     \in Seq(Symbols)
  /\ todo    \in [Appenders -> Seq(Events)]
  /\ sent    \in [Appenders -> 0..2]
  /\ \A a \in Appenders : sent[a] > 0 => todo[a] # <<>>
  /\ begun   \subseteq Events
  /\ written \in Seq(Events)
  /\ cuts    \subseteq Events \X {1, 2} /\ IsFiniteSet(cuts)

\* An event is to be written, or written, or neither any more; and by one call.
Once ==
  /\ Written \subseteq begun
  /\ \A j, k \in DOMAIN written : written[j] = written[k] => j = k
  /\ \A a \in Appenders : \A k \in DOMAIN todo[a] : todo[a][k] \in begun \ Written
  /\ \A a, b \in Appenders : \A j \in DOMAIN todo[a], k \in DOMAIN todo[b] :
       todo[a][j] = todo[b][k] => a = b /\ j = k

(***************************************************************************)
(* Either the file is the lines of the written events, in order, with at   *)
(* most one of a last event unfinished, which nobody but the call that     *)
(* began it may go on with; or some line broke off and another was put     *)
(* after it, and no later write makes that good.                           *)
(***************************************************************************)
WholeLines ==
  \A q \in DOMAIN written :
    /\ log[3 * q - 2] = <<written[q], "head">>
    /\ log[3 * q - 1] = <<written[q], "tail">>
    /\ log[3 * q] = Newline

Closed == Len(log) = 3 * Len(written) /\ \A a \in Appenders : sent[a] = 0

Open(n, e) ==
  /\ Len(log) = 3 * Len(written) + n
  /\ log[3 * Len(written) + 1] = <<e, "head">>
  /\ n = 2 => log[3 * Len(written) + 2] = <<e, "tail">>
  /\ e \notin Written /\ cuts # {}
  /\ \A a \in Appenders : sent[a] # 0 => sent[a] = n /\ Head(todo[a]) = e
  /\ \A a, b \in Appenders : sent[a] # 0 /\ sent[b] # 0 => a = b

Clean == WholeLines /\ (Closed \/ \E n \in {1, 2}, e \in Events : Open(n, e))

BrokenAt(k, e) ==
  \/ log[k] = <<e, "head">> /\ log[k + 1] # <<e, "tail">>
  \/ log[k] = <<e, "tail">> /\ log[k + 1] # Newline

Ruined == cuts # {} /\ \E k \in DOMAIN log, e \in Events : k + 1 \in DOMAIN log /\ BrokenAt(k, e)

\* Every symbol of an event is in the file once, and put there by the call whose turn it is.
Single == \A i, j \in DOMAIN log : log[i] = log[j] /\ log[i] # Newline => i = j

InTurn ==
  \A i \in DOMAIN log, e \in Events :
    log[i] \in {<<e, "head">>, <<e, "tail">>} =>
      /\ e \in begun
      /\ \A a \in Appenders : \A k \in DOMAIN todo[a] :
           todo[a][k] = e => /\ k = 1 /\ sent[a] > 0
                             /\ log[i] = <<e, "tail">> => sent[a] = 2

\* A line begins where the last one ended, or where a write stopped half-way.
BeginsAfter(i) ==
  \/ i = 0
  \/ log[i] = Newline
  \/ \E e \in Events : \/ log[i] = <<e, "head">> /\ <<e, 1>> \in cuts
                       \/ log[i] = <<e, "tail">> /\ <<e, 2>> \in cuts

LineAt(i, e) ==
  /\ i \in 1..Len(log) - 2
  /\ log[i] = <<e, "head">> /\ log[i + 1] = <<e, "tail">> /\ log[i + 2] = Newline

CutEvents == {c[1] : c \in cuts}

Fragments ==
  /\ BeginsAfter(Len(log))
  /\ \A a \in Appenders : sent[a] > 0 => <<Head(todo[a]), sent[a]>> \in cuts
  /\ \A e \in Written \ CutEvents : \E i \in DOMAIN log : LineAt(i, e) /\ BeginsAfter(i - 1)

-----------------------------------------------------------------------------
\* What a write puts into the file.

LEMMA SymbolsDiffer ==
  ASSUME NEW e, NEW f
  PROVE  /\ <<e, "head">> # <<f, "tail">>
         /\ <<e, "head">> # Newline /\ <<e, "tail">> # Newline
         /\ <<e, "head">> = <<f, "head">> => e = f
         /\ <<e, "tail">> = <<f, "tail">> => e = f
  BY DEF Newline

LEMMA LineSymbols ==
  ASSUME NEW e \in Events
  PROVE  /\ Line(e) \in Seq(Symbols) /\ Len(Line(e)) = 3
         /\ Line(e)[1] = <<e, "head">> /\ Line(e)[2] = <<e, "tail">> /\ Line(e)[3] = Newline
  BY DEF Line, Symbols

\* The next k symbols of a call's line are at the end of the file.
Wrote(a, k) ==
  /\ Len(log') = Len(log) + k /\ log' \in Seq(Symbols)
  /\ \A i \in 1..Len(log) : log'[i] = log[i]
  /\ \A i \in 1..k : log'[Len(log) + i] = Line(Head(todo[a]))[sent[a] + i]

LEMMA FirstToDo ==
  ASSUME LogTypes, NEW a \in Appenders, todo[a] # <<>>
  PROVE  /\ Head(todo[a]) \in Events /\ Head(todo[a]) = todo[a][1]
         /\ 1 \in DOMAIN todo[a] /\ sent[a] \in 0..2
         /\ Tail(todo[a]) \in Seq(Events)
         /\ \A k \in DOMAIN Tail(todo[a]) :
              k + 1 \in DOMAIN todo[a] /\ Tail(todo[a])[k] = todo[a][k + 1]
  <1>1. todo[a] \in Seq(Events) /\ sent[a] \in 0..2
    BY DEF LogTypes
  <1> QED
    BY <1>1

LEMMA RestSymbols ==
  ASSUME LogTypes, NEW a \in Appenders, todo[a] # <<>>
  PROVE  /\ Rest(a) \in Seq(Symbols) /\ Len(Rest(a)) = 3 - sent[a]
         /\ \A i \in 1..(3 - sent[a]) : Rest(a)[i] = Line(Head(todo[a]))[sent[a] + i]
  <1> DEFINE l == Line(Head(todo[a]))
  <1>1. l \in Seq(Symbols) /\ Len(l) = 3 /\ sent[a] \in 0..2
    BY FirstToDo, LineSymbols
  <1>2. Rest(a) = SubSeq(l, sent[a] + 1, 3)
    BY <1>1 DEF Rest
  <1> HIDE DEF l
  <1>3. SubSeq(l, sent[a] + 1, 3) \in Seq(Symbols)
    <2>1. \A i \in sent[a] + 1..3 : l[i] \in Symbols
      BY <1>1
    <2> QED
      BY <1>1, <2>1, SubSeqProperties
  <1>4. Len(SubSeq(l, sent[a] + 1, 3)) = 3 - sent[a]
    BY <1>1
  <1>5. \A i \in 1..(3 - sent[a]) : SubSeq(l, sent[a] + 1, 3)[i] = l[sent[a] + i]
    BY <1>1
  <1> QED
    BY <1>2, <1>3, <1>4, <1>5 DEF l

LEMMA PutWrites ==
  ASSUME LogTypes, NEW a \in Appenders, todo[a] # <<>>, NEW k \in 1..(3 - sent[a]),
         Put(SubSeq(Rest(a), 1, k))
  PROVE  Wrote(a, k)
  <1> DEFINE r == Rest(a)
             s == SubSeq(r, 1, k)
  <1>1. /\ r \in Seq(Symbols) /\ Len(r) = 3 - sent[a] /\ sent[a] \in 0..2
        /\ \A i \in 1..(3 - sent[a]) : r[i] = Line(Head(todo[a]))[sent[a] + i]
    BY RestSymbols, FirstToDo
  <1> HIDE DEF r
  <1>2. /\ s \in Seq(Symbols) /\ Len(s) = k /\ \A i \in 1..k : s[i] = r[i]
    BY <1>1
  <1>3. log \in Seq(Symbols) /\ log' = log \o s
    BY DEF LogTypes, Put, r
  <1> HIDE DEF s
  <1>4. /\ log' \in Seq(Symbols) /\ Len(log') = Len(log) + k
        /\ \A i \in 1..Len(log) : log'[i] = log[i]
        /\ \A i \in 1..k : log'[Len(log) + i] = s[i]
    <2>1. /\ log \o s \in Seq(Symbols) /\ Len(log \o s) = Len(log) + Len(s)
          /\ \A i \in 1..Len(log) + Len(s) :
               (log \o s)[i] = IF i <= Len(log) THEN log[i] ELSE s[i - Len(log)]
      BY <1>2, <1>3, ConcatProperties
    <2>2. Len(log) \in Nat /\ Len(s) = k /\ k \in Nat
      BY <1>2, <1>3
    <2>3. ASSUME NEW i \in 1..Len(log) PROVE log'[i] = log[i]
      BY <1>3, <2>1, <2>2
    <2>4. ASSUME NEW i \in 1..k PROVE log'[Len(log) + i] = s[i]
      <3>1. Len(log) + i \in 1..Len(log) + Len(s) /\ ~(Len(log) + i <= Len(log))
            /\ (Len(log) + i) - Len(log) = i
        BY <2>2
      <3> QED
        BY <1>3, <2>1, <3>1
    <2> QED
      BY <1>3, <2>1, <2>2, <2>3, <2>4
  <1>5. \A i \in 1..k : i \in 1..(3 - sent[a])
    BY <1>1
  <1> QED
    BY <1>1, <1>2, <1>4, <1>5 DEF Wrote

\* A write, whole or in part, with what else it changes.
LEMMA RestWrites ==
  ASSUME LogTypes, NEW a \in Appenders, WriteRest(a)
  PROVE  /\ todo[a] # <<>> /\ Wrote(a, 3 - sent[a])
         /\ written' = Append(written, Head(todo[a]))
         /\ todo' = [todo EXCEPT ![a] = Tail(@)] /\ sent' = [sent EXCEPT ![a] = 0]
         /\ begun' = begun /\ cuts' = cuts
  <1>1. todo[a] # <<>> /\ Put(Rest(a))
    BY DEF WriteRest
  <1>2. Rest(a) \in Seq(Symbols) /\ Len(Rest(a)) = 3 - sent[a] /\ sent[a] \in 0..2
    BY <1>1, RestSymbols, FirstToDo
  <1>3. Rest(a) = SubSeq(Rest(a), 1, 3 - sent[a])
    BY <1>2
  <1>4. Wrote(a, 3 - sent[a])
    <2>1. 3 - sent[a] \in 1..(3 - sent[a])
      BY <1>2
    <2>2. Put(SubSeq(Rest(a), 1, 3 - sent[a]))
      BY <1>1, <1>3, Zenon
    <2> QED
      BY <1>1, <2>1, <2>2, PutWrites
  <1> QED
    BY <1>1, <1>4 DEF WriteRest

LEMMA PartWrites ==
  ASSUME LogTypes, NEW a \in Appenders, WritePart(a)
  PROVE  /\ todo[a] # <<>>
         /\ \E k \in 1..(2 - sent[a]) :
              /\ Wrote(a, k) /\ sent' = [sent EXCEPT ![a] = @ + k]
              /\ cuts' = cuts \cup {<<Head(todo[a]), sent[a] + k>>}
         /\ todo' = todo /\ begun' = begun /\ written' = written
  <1>1. PICK k \in 1..Len(Rest(a)) - 1 :
          /\ todo[a] # <<>> /\ Put(SubSeq(Rest(a), 1, k))
          /\ sent' = [sent EXCEPT ![a] = @ + k]
          /\ cuts' = cuts \cup {<<Head(todo[a]), sent[a] + k>>}
    BY DEF WritePart
  <1>2. Len(Rest(a)) = 3 - sent[a] /\ sent[a] \in 0..2
    BY <1>1, RestSymbols, FirstToDo
  <1>3. k \in 1..(2 - sent[a]) /\ k \in 1..(3 - sent[a])
    BY <1>1, <1>2
  <1>4. Wrote(a, k)
    BY <1>1, <1>3, PutWrites
  <1> QED
    BY <1>1, <1>3, <1>4 DEF WritePart

-----------------------------------------------------------------------------
\* Types, and that no event is written twice.

LEMMA Submissions ==
  ASSUME NEW r \in Requests,
         NEW events \in {<<<<r, "submitted">>>>, <<<<r, "submitted">>, <<r, "auto">>>>,
                         <<<<r, "decision">>>>}
  PROVE  /\ events \in Seq(Events) /\ events # <<>>
         /\ \A j, k \in DOMAIN events : events[j] = events[k] => j = k
  <1>1. <<r, "submitted">> \in Events /\ <<r, "auto">> \in Events /\ <<r, "decision">> \in Events
    BY DEF Events
  <1>2. CASE events = <<<<r, "submitted">>>>
    BY <1>1, <1>2
  <1>3. CASE events = <<<<r, "submitted">>, <<r, "auto">>>>
    BY <1>1, <1>3
  <1>4. CASE events = <<<<r, "decision">>>>
    BY <1>1, <1>4
  <1> QED
    BY <1>2, <1>3, <1>4

LEMMA Begins ==
  ASSUME LogTypes, NEW a \in Appenders, Begin(a)
  PROVE  \E events \in Seq(Events) :
           /\ todo[a] = <<>> /\ todo' = [todo EXCEPT ![a] = events]
           /\ \A j, k \in DOMAIN events : events[j] = events[k] => j = k
           /\ \A k \in DOMAIN events : events[k] \notin begun
           /\ begun' = begun \cup {events[k] : k \in DOMAIN events}
           /\ UNCHANGED <<log, sent, written, cuts>>
  <1>1. PICK r \in Requests :
         \E events \in {<<<<r, "submitted">>>>, <<<<r, "submitted">>, <<r, "auto">>>>,
                        <<<<r, "decision">>>>} :
           /\ begun \cap {events[k] : k \in DOMAIN events} = {}
           /\ begun' = begun \cup {events[k] : k \in DOMAIN events}
           /\ todo'  = [todo EXCEPT ![a] = events]
    BY DEF Begin
  <1>2. PICK events \in {<<<<r, "submitted">>>>, <<<<r, "submitted">>, <<r, "auto">>>>,
                        <<<<r, "decision">>>>} :
           /\ begun \cap {events[k] : k \in DOMAIN events} = {}
           /\ begun' = begun \cup {events[k] : k \in DOMAIN events}
           /\ todo'  = [todo EXCEPT ![a] = events]
    BY <1>1
  <1>3. /\ events \in Seq(Events)
        /\ \A j, k \in DOMAIN events : events[j] = events[k] => j = k
    BY <1>2, Submissions
  <1>4. todo[a] = <<>> /\ UNCHANGED <<log, sent, written, cuts>>
    BY DEF Begin
  <1>5. \A k \in DOMAIN events : events[k] \notin begun
    BY <1>2
  <1> QED
    BY <1>2, <1>3, <1>4, <1>5

LEMMA GivesUp ==
  ASSUME LogTypes, NEW a \in Appenders, GiveUp(a)
  PROVE  /\ todo' = [todo EXCEPT ![a] = <<>>] /\ sent' = [sent EXCEPT ![a] = 0]
         /\ UNCHANGED <<log, begun, written, cuts>>
  BY DEF GiveUp

LEMMA InitTypesOnce == LogInit => LogTypes /\ Once
  <1> SUFFICES ASSUME LogInit PROVE LogTypes /\ Once
    OBVIOUS
  <1>1. IsFiniteSet({})
    BY FS_EmptySet
  <1> QED
    BY <1>1 DEF LogInit, LogTypes, Once, Written

LEMMA NextTypes ==
  ASSUME LogTypes, [LogNext]_logVars
  PROVE  LogTypes'
  <1>1. ASSUME NEW a \in Appenders, Begin(a) PROVE LogTypes'
    <2>1. PICK events \in Seq(Events) :
           /\ todo[a] = <<>> /\ todo' = [todo EXCEPT ![a] = events]
           /\ begun' = begun \cup {events[k] : k \in DOMAIN events}
           /\ UNCHANGED <<log, sent, written, cuts>>
      BY <1>1, Begins
    <2>2. \A k \in DOMAIN events : events[k] \in Events
      OBVIOUS
    <2>3. begun' \subseteq Events
      BY <2>1, <2>2 DEF LogTypes
    <2>4. todo' \in [Appenders -> Seq(Events)]
      BY <2>1 DEF LogTypes
    <2>5. \A b \in Appenders : sent'[b] > 0 => todo'[b] # <<>>
      BY <2>1 DEF LogTypes
    <2> QED
      BY <2>1, <2>3, <2>4, <2>5 DEF LogTypes
  <1>2. ASSUME NEW a \in Appenders, WriteRest(a) PROVE LogTypes'
    <2>1. /\ todo[a] # <<>> /\ log' \in Seq(Symbols)
          /\ written' = Append(written, Head(todo[a]))
          /\ todo' = [todo EXCEPT ![a] = Tail(@)] /\ sent' = [sent EXCEPT ![a] = 0]
          /\ begun' = begun /\ cuts' = cuts
      BY <1>2, RestWrites DEF Wrote
    <2>2. Head(todo[a]) \in Events /\ Tail(todo[a]) \in Seq(Events)
      BY <2>1, FirstToDo
    <2>3. written' \in Seq(Events)
      BY <2>1, <2>2 DEF LogTypes
    <2>4. /\ todo' \in [Appenders -> Seq(Events)] /\ sent' \in [Appenders -> 0..2]
          /\ \A b \in Appenders : sent'[b] > 0 => todo'[b] # <<>>
      BY <2>1, <2>2 DEF LogTypes
    <2> QED
      BY <2>1, <2>3, <2>4 DEF LogTypes
  <1>3. ASSUME NEW a \in Appenders, WritePart(a) PROVE LogTypes'
    <2>1. PICK k \in 1..(2 - sent[a]) :
            /\ todo[a] # <<>> /\ log' \in Seq(Symbols)
            /\ sent' = [sent EXCEPT ![a] = @ + k]
            /\ cuts' = cuts \cup {<<Head(todo[a]), sent[a] + k>>}
            /\ todo' = todo /\ begun' = begun /\ written' = written
      BY <1>3, PartWrites DEF Wrote
    <2>2. Head(todo[a]) \in Events /\ sent[a] \in 0..2
      BY <2>1, FirstToDo
    <2>3. sent[a] + k \in {1, 2} /\ sent[a] + k \in 0..2
      BY <2>2
    <2>4. cuts' \subseteq Events \X {1, 2}
      BY <2>1, <2>2, <2>3 DEF LogTypes
    <2>5. IsFiniteSet(cuts')
      BY <2>1, FS_AddElement DEF LogTypes
    <2>6. /\ sent' \in [Appenders -> 0..2]
          /\ \A b \in Appenders : sent'[b] > 0 => todo'[b] # <<>>
      BY <2>1, <2>3 DEF LogTypes
    <2> QED
      BY <2>1, <2>4, <2>5, <2>6 DEF LogTypes
  <1>4. ASSUME NEW a \in Appenders, GiveUp(a) PROVE LogTypes'
    <2>1. /\ todo' = [todo EXCEPT ![a] = <<>>] /\ sent' = [sent EXCEPT ![a] = 0]
          /\ UNCHANGED <<log, begun, written, cuts>>
      BY <1>4, GivesUp
    <2>2. todo' \in [Appenders -> Seq(Events)] /\ sent' \in [Appenders -> 0..2]
      BY <2>1 DEF LogTypes
    <2>3. \A b \in Appenders : sent'[b] > 0 => todo'[b] # <<>>
      BY <2>1 DEF LogTypes
    <2> QED
      BY <2>1, <2>2, <2>3 DEF LogTypes
  <1>5. CASE UNCHANGED logVars
    BY <1>5 DEF logVars, LogTypes
  <1> QED
    BY <1>1, <1>2, <1>3, <1>4, <1>5 DEF LogNext

LEMMA WrittenGrows ==
  ASSUME LogTypes, NEW e \in Events, written' = Append(written, e)
  PROVE  /\ Len(written) \in Nat /\ Len(written') = Len(written) + 1
         /\ DOMAIN written' = 1..(Len(written) + 1) /\ DOMAIN written = 1..Len(written)
         /\ \A k \in 1..Len(written) : written'[k] = written[k]
         /\ written'[Len(written) + 1] = e
         /\ Written' = Written \cup {e}
  <1>1. /\ DOMAIN written' = 1..(Len(written) + 1) /\ DOMAIN written = 1..Len(written)
        /\ Len(written) \in Nat /\ Len(written') = Len(written) + 1
        /\ \A k \in 1..Len(written) : written'[k] = written[k]
        /\ written'[Len(written) + 1] = e
    BY DEF LogTypes
  <1>2. Written' = {written'[k] : k \in DOMAIN written'}
    BY DEF Written
  <1>3. ASSUME NEW x \in Written' PROVE x \in Written \cup {e}
    <2>1. PICK k \in 1..(Len(written) + 1) : x = written'[k]
      BY <1>1, <1>2
    <2>2. k \in 1..Len(written) \/ k = Len(written) + 1
      BY <1>1
    <2> QED
      BY <1>1, <2>1, <2>2 DEF Written
  <1>4. ASSUME NEW x \in Written PROVE x \in Written'
    <2>1. PICK k \in 1..Len(written) : x = written[k]
      BY <1>1 DEF Written
    <2>2. k \in 1..(Len(written) + 1) /\ x = written'[k]
      BY <1>1, <2>1
    <2> QED
      BY <1>1, <1>2, <2>2
  <1>5. e \in Written'
    BY <1>1, <1>2
  <1> QED
    BY <1>1, <1>3, <1>4, <1>5

LEMMA OnlyOnce ==
  ASSUME Once, NEW a \in Appenders, NEW b \in Appenders,
         NEW j \in DOMAIN todo[a], NEW k \in DOMAIN todo[b], todo[a][j] = todo[b][k]
  PROVE  a = b /\ j = k
  BY DEF Once

LEMMA Positions ==
  ASSUME NEW f \in [Appenders -> Seq(Events)]
  PROVE  \A a \in Appenders : \A k \in DOMAIN f[a] : k \in Nat \ {0}
  <1> SUFFICES ASSUME NEW a \in Appenders, NEW k \in DOMAIN f[a] PROVE k \in Nat \ {0}
    OBVIOUS
  <1>1. f[a] \in Seq(Events)
    OBVIOUS
  <1> QED
    BY <1>1

LEMMA NextOnce ==
  ASSUME LogTypes, Once, [LogNext]_logVars
  PROVE  Once'
  <1>1. ASSUME NEW a \in Appenders, Begin(a) PROVE Once'
    <2>1. PICK events \in Seq(Events) :
           /\ todo[a] = <<>> /\ todo' = [todo EXCEPT ![a] = events]
           /\ \A j, k \in DOMAIN events : events[j] = events[k] => j = k
           /\ \A k \in DOMAIN events : events[k] \notin begun
           /\ begun' = begun \cup {events[k] : k \in DOMAIN events}
           /\ written' = written
      BY <1>1, Begins
    <2>2. todo'[a] = events /\ \A b \in Appenders : b # a => todo'[b] = todo[b]
      BY <2>1 DEF LogTypes
    <2>3. Written' = Written
      BY <2>1 DEF Written
    <2>4. \A b \in Appenders : \A k \in DOMAIN todo'[b] : todo'[b][k] \in begun' \ Written
      BY <2>1, <2>2 DEF Once
    <2>5. ASSUME NEW b \in Appenders, NEW c \in Appenders,
                 NEW j \in DOMAIN todo'[b], NEW k \in DOMAIN todo'[c], todo'[b][j] = todo'[c][k]
          PROVE  b = c /\ j = k
      <3>1. CASE b = a /\ c = a
        BY <2>1, <2>2, <2>5, <3>1
      <3>2. CASE b # a /\ c # a
        BY <2>2, <2>5, <3>2 DEF Once
      <3>3. CASE b = a /\ c # a
        BY <2>1, <2>2, <2>5, <3>3 DEF Once
      <3>4. CASE b # a /\ c = a
        BY <2>1, <2>2, <2>5, <3>4 DEF Once
      <3> QED
        BY <3>1, <3>2, <3>3, <3>4
    <2>6. Written \subseteq begun' /\ \A j, k \in DOMAIN written : written[j] = written[k] => j = k
      BY <2>1 DEF Once
    <2> QED
      BY <2>1, <2>3, <2>4, <2>5, <2>6 DEF Once
  <1>2. ASSUME NEW a \in Appenders, WriteRest(a) PROVE Once'
    <2>0. \A b \in Appenders : \A k \in DOMAIN todo'[b] : k \in Nat \ {0}
      BY NextTypes, Positions DEF LogTypes
    <2>1. /\ todo[a] # <<>>
          /\ written' = Append(written, Head(todo[a]))
          /\ todo' = [todo EXCEPT ![a] = Tail(@)] /\ begun' = begun
      BY <1>2, RestWrites
    <2>2. PICK e : e = Head(todo[a])
      OBVIOUS
    <2>3. /\ e \in Events /\ e = todo[a][1] /\ 1 \in DOMAIN todo[a]
          /\ \A k \in DOMAIN Tail(todo[a]) :
               k + 1 \in DOMAIN todo[a] /\ Tail(todo[a])[k] = todo[a][k + 1]
      BY <2>1, <2>2, FirstToDo
    <2>4. /\ todo'[a] = Tail(todo[a]) /\ \A b \in Appenders : b # a => todo'[b] = todo[b]
          /\ todo[a] \in Seq(Events) /\ Tail(todo[a]) \in Seq(Events)
      BY <2>1, FirstToDo DEF LogTypes
    <2>5. /\ DOMAIN written' = 1..(Len(written) + 1) /\ DOMAIN written = 1..Len(written)
          /\ Len(written) \in Nat
          /\ \A k \in 1..Len(written) : written'[k] = written[k]
          /\ written'[Len(written) + 1] = e
          /\ Written' = Written \cup {e}
      BY <2>1, <2>2, <2>3, WrittenGrows
    <2>7. e \in begun /\ e \notin Written
      BY <2>3 DEF Once
    <2>8. ASSUME NEW b \in Appenders, NEW k \in DOMAIN todo'[b]
          PROVE  \E j \in DOMAIN todo[b] :
                   /\ todo'[b][k] = todo[b][j] /\ (b = a => j = k + 1) /\ (b # a => j = k)
      BY <2>3, <2>4
    <2>9. ASSUME NEW b \in Appenders, NEW k \in DOMAIN todo'[b]
          PROVE  todo'[b][k] \in begun \ (Written \cup {e})
      <3>1. PICK j \in DOMAIN todo[b] :
              todo'[b][k] = todo[b][j] /\ (b = a => j = k + 1)
        BY <2>8
      <3>2. todo[b][j] \in begun \ Written
        BY DEF Once
      <3>3. CASE b = a
        <4>1. j # 1
          <5>1. k \in Nat \ {0}
            BY <2>0
          <5> QED
            BY <3>1, <3>3, <5>1
        <4>2. todo[b][j] # e
          BY <2>3, <3>3, <4>1 DEF Once
        <4> QED
          BY <3>1, <3>2, <4>2
      <3>4. CASE b # a
        BY <2>3, <3>1, <3>2, <3>4 DEF Once
      <3> QED
        BY <3>3, <3>4
    <2>10. ASSUME NEW b \in Appenders, NEW c \in Appenders,
                 NEW j \in DOMAIN todo'[b], NEW k \in DOMAIN todo'[c], todo'[b][j] = todo'[c][k]
          PROVE  b = c /\ j = k
      <3>1. PICK i \in DOMAIN todo[b] :
              todo'[b][j] = todo[b][i] /\ (b = a => i = j + 1) /\ (b # a => i = j)
        BY <2>8
      <3>2. PICK l \in DOMAIN todo[c] :
              todo'[c][k] = todo[c][l] /\ (c = a => l = k + 1) /\ (c # a => l = k)
        BY <2>8
      <3>3. b = c /\ i = l
        <4>1. todo[b][i] = todo[c][l]
          BY <2>10, <3>1, <3>2
        <4> QED
          BY <4>1, OnlyOnce
      <3>4. CASE b = a
        <4>1. j \in Nat /\ k \in Nat
          BY <2>0
        <4> QED
          BY <3>1, <3>2, <3>3, <3>4, <4>1
      <3> QED
        BY <3>1, <3>2, <3>3, <3>4
    <2>11. \A j, k \in DOMAIN written' : written'[j] = written'[k] => j = k
      <3>1. \A k \in 1..Len(written) : written[k] \in Written
        BY <2>5 DEF Written
      <3> QED
        BY <2>5, <2>7, <3>1 DEF Once
    <2> QED
      BY <2>1, <2>5, <2>7, <2>9, <2>10, <2>11 DEF Once
  <1>3. ASSUME NEW a \in Appenders, WritePart(a) PROVE Once'
    BY <1>3, PartWrites DEF Once, Written
  <1>4. ASSUME NEW a \in Appenders, GiveUp(a) PROVE Once'
    <2>1. /\ todo' = [todo EXCEPT ![a] = <<>>]
          /\ begun' = begun /\ written' = written
      BY <1>4, GivesUp
    <2>2. todo'[a] = <<>> /\ \A b \in Appenders : b # a => todo'[b] = todo[b]
      BY <2>1 DEF LogTypes
    <2> QED
      BY <2>1, <2>2 DEF Once, Written
  <1>5. CASE UNCHANGED logVars
    BY <1>5 DEF logVars, Once, Written
  <1> QED
    BY <1>1, <1>2, <1>3, <1>4, <1>5 DEF LogNext

-----------------------------------------------------------------------------
\* Whole lines and one open end, or a line that is broken for good.

LEMMA LogGrows ==
  ASSUME LogTypes, NEW a, NEW k \in Nat, Wrote(a, k)
  PROVE  /\ Len(log) \in Nat /\ Len(log') = Len(log) + k
         /\ DOMAIN log = 1..Len(log) /\ DOMAIN log' = 1..(Len(log) + k)
         /\ \A i \in DOMAIN log : i \in DOMAIN log' /\ log'[i] = log[i]
  <1>1. log \in Seq(Symbols) /\ log' \in Seq(Symbols) /\ Len(log') = Len(log) + k
    BY DEF LogTypes, Wrote
  <1>2. Len(log) \in Nat /\ DOMAIN log = 1..Len(log) /\ DOMAIN log' = 1..(Len(log) + k)
    BY <1>1
  <1> QED
    BY <1>1, <1>2 DEF Wrote

LEMMA RuinedStays ==
  ASSUME Ruined, cuts \subseteq cuts',
         \A i \in DOMAIN log : i \in DOMAIN log' /\ log'[i] = log[i]
  PROVE  Ruined'
  <1>1. PICK k \in DOMAIN log, e \in Events : k + 1 \in DOMAIN log /\ BrokenAt(k, e)
    BY DEF Ruined
  <1>2. k \in DOMAIN log' /\ k + 1 \in DOMAIN log' /\ BrokenAt(k, e)'
    BY <1>1 DEF BrokenAt
  <1> QED
    BY <1>2 DEF Ruined

\* Another call's line after an unfinished one.
LEMMA LineBreaks ==
  ASSUME LogTypes, NEW n \in {1, 2}, NEW e \in Events, Open(n, e),
         NEW a \in Appenders, todo[a] # <<>>, sent[a] = 0,
         NEW k \in Nat \ {0}, Wrote(a, k), cuts \subseteq cuts'
  PROVE  Ruined'
  <1>0. PICK p, N : p = Len(log) /\ N = Len(written)
    OBVIOUS
  <1>1. N \in Nat /\ p = 3 * N + n
    BY <1>0 DEF LogTypes, Open
  <1>2. /\ p \in Nat /\ DOMAIN log = 1..p /\ DOMAIN log' = 1..(p + k)
        /\ \A i \in DOMAIN log : log'[i] = log[i]
    BY <1>0, LogGrows
  <1>3. p \in DOMAIN log /\ p \in DOMAIN log' /\ p + 1 \in DOMAIN log'
    BY <1>1, <1>2
  <1>4. log'[p + 1] = <<Head(todo[a]), "head">>
    <2>1. log'[p + 1] = Line(Head(todo[a]))[sent[a] + 1]
      <3>1. 1 \in 1..k
        OBVIOUS
      <3> QED
        BY <1>0, <3>1 DEF Wrote
    <2> QED
      BY <2>1, FirstToDo, LineSymbols
  <1>5. log'[p] = IF n = 1 THEN <<e, "head">> ELSE <<e, "tail">>
    <2>1. CASE n = 1
      BY <1>0, <1>1, <1>2, <1>3, <2>1 DEF Open
    <2>2. CASE n = 2
      BY <1>0, <1>1, <1>2, <1>3, <2>2 DEF Open
    <2> QED
      BY <2>1, <2>2
  <1>6. <<Head(todo[a]), "head">> # <<e, "tail">> /\ <<Head(todo[a]), "head">> # Newline
    BY SymbolsDiffer
  <1>7. BrokenAt(p, e)'
    BY <1>4, <1>5, <1>6 DEF BrokenAt
  <1>8. cuts' # {}
    BY DEF Open
  <1> QED
    BY <1>3, <1>7, <1>8 DEF Ruined

\* The line under way, as far as it goes: n symbols before the write, k more after it.
LEMMA LineGoesOn ==
  ASSUME LogTypes, NEW a \in Appenders, todo[a] # <<>>, NEW N \in Nat,
         Len(log) = 3 * N + sent[a],
         sent[a] >= 1 => log[3 * N + 1] = <<Head(todo[a]), "head">>,
         sent[a] = 2 => log[3 * N + 2] = <<Head(todo[a]), "tail">>,
         NEW k \in 1..(3 - sent[a]), Wrote(a, k)
  PROVE  /\ Len(log') = 3 * N + (sent[a] + k)
         /\ log'[3 * N + 1] = <<Head(todo[a]), "head">>
         /\ sent[a] + k >= 2 => log'[3 * N + 2] = <<Head(todo[a]), "tail">>
         /\ sent[a] + k = 3 => log'[3 * N + 3] = Newline
  <1>0. PICK n \in 0..2, e \in Events : n = sent[a] /\ e = Head(todo[a])
    BY FirstToDo
  <1> SUFFICES /\ Len(log') = 3 * N + (n + k)
               /\ log'[3 * N + 1] = <<e, "head">>
               /\ n + k >= 2 => log'[3 * N + 2] = <<e, "tail">>
               /\ n + k = 3 => log'[3 * N + 3] = Newline
    BY <1>0
  <1>a. /\ Len(log) = 3 * N + n
        /\ n >= 1 => log[3 * N + 1] = <<e, "head">>
        /\ n = 2 => log[3 * N + 2] = <<e, "tail">>
        /\ k \in 1..(3 - n)
    BY <1>0
  <1>1. /\ Len(log') = Len(log) + k
        /\ \A i \in 1..Len(log) : log'[i] = log[i]
        /\ \A i \in 1..k : log'[3 * N + n + i] = Line(e)[n + i]
    BY <1>0, <1>a DEF Wrote
  <1>2. Line(e)[1] = <<e, "head">> /\ Line(e)[2] = <<e, "tail">> /\ Line(e)[3] = Newline
    BY LineSymbols
  <1>3. ASSUME NEW j \in n + 1..n + k PROVE log'[3 * N + j] = Line(e)[j]
    <2>1. PICK i \in 1..k : i = j - n
      BY <1>3, <1>a
    <2>2. 3 * N + n + i = 3 * N + j /\ n + i = j
      BY <2>1
    <2> QED
      BY <1>1, <2>2
  <1>4. ASSUME NEW j \in 1..n PROVE log'[3 * N + j] = log[3 * N + j]
    <2>1. 3 * N + j \in 1..Len(log)
      BY <1>4, <1>a
    <2> QED
      BY <1>1, <2>1
  <1>5. log'[3 * N + 1] = <<e, "head">>
    <2>1. CASE n = 0
      <3>1. 1 \in n + 1..n + k
        BY <1>a, <2>1
      <3> QED
        BY <1>2, <1>3, <3>1
    <2>2. CASE n >= 1
      <3>1. 1 \in 1..n
        BY <2>2
      <3> QED
        BY <1>4, <1>a, <2>2, <3>1
    <2> QED
      BY <2>1, <2>2
  <1>6. ASSUME n + k >= 2 PROVE log'[3 * N + 2] = <<e, "tail">>
    <2>1. CASE n <= 1
      <3>1. 2 \in n + 1..n + k
        BY <1>6, <1>a, <2>1
      <3> QED
        BY <1>2, <1>3, <3>1
    <2>2. CASE n = 2
      <3>1. 2 \in 1..n
        BY <2>2
      <3> QED
        BY <1>4, <1>a, <2>2, <3>1
    <2> QED
      BY <2>1, <2>2
  <1>7. ASSUME n + k = 3 PROVE log'[3 * N + 3] = Newline
    <2>1. 3 \in n + 1..n + k
      BY <1>7, <1>a
    <2> QED
      BY <1>2, <1>3, <2>1
  <1>8. Len(log') = 3 * N + (n + k)
    BY <1>1, <1>a
  <1> QED
    BY <1>5, <1>6, <1>7, <1>8

\* The call that writes to a clean file begins a line, goes on with its own, or breaks one.
LEMMA CleanWriter ==
  ASSUME LogTypes, Clean, NEW a \in Appenders, todo[a] # <<>>,
         NEW k \in 1..(3 - sent[a]), Wrote(a, k), cuts \subseteq cuts'
  PROVE  \/ Ruined'
         \/ /\ \A b \in Appenders : sent[b] # 0 => b = a
            /\ Len(written) \in Nat /\ Len(log) >= 3 * Len(written)
            /\ Len(log') = 3 * Len(written) + (sent[a] + k)
            /\ log'[3 * Len(written) + 1] = <<Head(todo[a]), "head">>
            /\ sent[a] + k >= 2 => log'[3 * Len(written) + 2] = <<Head(todo[a]), "tail">>
            /\ sent[a] + k = 3 => log'[3 * Len(written) + 3] = Newline
  <1>1. Len(written) \in Nat /\ sent[a] \in 0..2
    BY FirstToDo DEF LogTypes
  <1>2. CASE Closed
    <2>1. sent[a] = 0 /\ Len(log) = 3 * Len(written) + 0 /\ \A b \in Appenders : sent[b] # 0 => b = a
      BY <1>1, <1>2 DEF Closed
    <2>2. /\ Len(log) = 3 * Len(written) + sent[a] /\ Len(log) >= 3 * Len(written)
          /\ ~(sent[a] >= 1) /\ sent[a] # 2
      BY <1>1, <2>1
    <2> QED
      BY <1>1, <2>1, <2>2, LineGoesOn
  <1>3. ASSUME NEW n \in {1, 2}, NEW e \in Events, Open(n, e), sent[a] # 0
        PROVE  /\ \A b \in Appenders : sent[b] # 0 => b = a
               /\ Len(log) = 3 * Len(written) + sent[a]
               /\ log[3 * Len(written) + 1] = <<Head(todo[a]), "head">>
               /\ sent[a] = 2 => log[3 * Len(written) + 2] = <<Head(todo[a]), "tail">>
    BY <1>3 DEF Open
  <1>4. ASSUME NEW n \in {1, 2}, NEW e \in Events, Open(n, e), sent[a] = 0
        PROVE  Ruined'
    <2>1. k \in Nat \ {0}
      BY <1>1
    <2> QED
      BY <1>4, <2>1, LineBreaks
  <1>5. CASE sent[a] # 0 /\ ~Closed
    <2>1. PICK n \in {1, 2}, e \in Events : Open(n, e)
      BY <1>5 DEF Clean
    <2>2. /\ \A b \in Appenders : sent[b] # 0 => b = a
          /\ Len(log) = 3 * Len(written) + sent[a]
          /\ log[3 * Len(written) + 1] = <<Head(todo[a]), "head">>
          /\ sent[a] = 2 => log[3 * Len(written) + 2] = <<Head(todo[a]), "tail">>
      BY <1>3, <1>5, <2>1
    <2>3. Len(log) >= 3 * Len(written)
      BY <1>1, <2>2
    <2>4. /\ Len(log') = 3 * Len(written) + (sent[a] + k)
          /\ log'[3 * Len(written) + 1] = <<Head(todo[a]), "head">>
          /\ sent[a] + k >= 2 => log'[3 * Len(written) + 2] = <<Head(todo[a]), "tail">>
          /\ sent[a] + k = 3 => log'[3 * Len(written) + 3] = Newline
      BY <1>1, <2>2, LineGoesOn
    <2> QED
      BY <1>1, <2>2, <2>3, <2>4
  <1> QED
    BY <1>2, <1>4, <1>5 DEF Clean

LEMMA LinesStay ==
  ASSUME WholeLines, NEW N \in Nat, DOMAIN written = 1..N, NEW l \in Nat, l >= 3 * N,
         \A i \in 1..l : log'[i] = log[i]
  PROVE  \A q \in 1..N : /\ log'[3 * q - 2] = <<written[q], "head">>
                         /\ log'[3 * q - 1] = <<written[q], "tail">>
                         /\ log'[3 * q] = Newline
  <1> SUFFICES ASSUME NEW q \in 1..N
               PROVE  /\ log'[3 * q - 2] = <<written[q], "head">>
                      /\ log'[3 * q - 1] = <<written[q], "tail">>
                      /\ log'[3 * q] = Newline
    OBVIOUS
  <1>1. 3 * q - 2 \in 1..l /\ 3 * q - 1 \in 1..l /\ 3 * q \in 1..l
    OBVIOUS
  <1> QED
    BY <1>1 DEF WholeLines

LEMMA NextClean ==
  ASSUME LogTypes, Once, Clean \/ Ruined, [LogNext]_logVars
  PROVE  (Clean \/ Ruined)'
  <1>1. ASSUME NEW a \in Appenders, WriteRest(a) PROVE (Clean \/ Ruined)'
    <2>1. /\ todo[a] # <<>> /\ Wrote(a, 3 - sent[a])
          /\ written' = Append(written, Head(todo[a]))
          /\ sent' = [sent EXCEPT ![a] = 0] /\ cuts' = cuts
      BY <1>1, RestWrites
    <2>2. sent[a] \in 0..2 /\ 3 - sent[a] \in 1..(3 - sent[a]) /\ 3 - sent[a] \in Nat
      BY <2>1, FirstToDo
    <2>3. /\ Len(log) \in Nat /\ \A i \in 1..Len(log) : log'[i] = log[i]
          /\ \A i \in DOMAIN log : i \in DOMAIN log' /\ log'[i] = log[i]
      BY <2>1, <2>2, LogGrows
    <2>4. CASE Ruined
      BY <2>1, <2>3, <2>4, RuinedStays
    <2>5. CASE Clean /\ ~Ruined'
      <3>1. PICK N : N = Len(written)
        OBVIOUS
      <3>2. /\ \A b \in Appenders : sent[b] # 0 => b = a
            /\ N \in Nat /\ Len(log) >= 3 * N
            /\ Len(log') = 3 * N + (sent[a] + (3 - sent[a]))
            /\ log'[3 * N + 1] = <<Head(todo[a]), "head">>
            /\ sent[a] + (3 - sent[a]) >= 2 => log'[3 * N + 2] = <<Head(todo[a]), "tail">>
            /\ sent[a] + (3 - sent[a]) = 3 => log'[3 * N + 3] = Newline
        BY <2>1, <2>2, <2>5, <3>1, CleanWriter
      <3>3. sent[a] + (3 - sent[a]) = 3
        BY <2>2
      <3>4. /\ Len(written') = N + 1 /\ DOMAIN written' = 1..(N + 1) /\ DOMAIN written = 1..N
            /\ \A q \in 1..N : written'[q] = written[q]
            /\ written'[N + 1] = Head(todo[a])
        BY <2>1, <3>1, FirstToDo, WrittenGrows
      <3>5. \A q \in 1..N : /\ log'[3 * q - 2] = <<written[q], "head">>
                            /\ log'[3 * q - 1] = <<written[q], "tail">>
                            /\ log'[3 * q] = Newline
        BY <2>3, <2>5, <3>2, <3>4, LinesStay DEF Clean
      <3>6. /\ log'[3 * (N + 1) - 2] = <<Head(todo[a]), "head">>
            /\ log'[3 * (N + 1) - 1] = <<Head(todo[a]), "tail">>
            /\ log'[3 * (N + 1)] = Newline
        <4>1. 3 * (N + 1) - 2 = 3 * N + 1 /\ 3 * (N + 1) - 1 = 3 * N + 2 /\ 3 * (N + 1) = 3 * N + 3
          BY <3>2
        <4> QED
          BY <3>2, <3>3, <4>1
      <3>7. WholeLines'
        <4>1. ASSUME NEW q \in 1..(N + 1)
              PROVE  /\ log'[3 * q - 2] = <<written'[q], "head">>
                     /\ log'[3 * q - 1] = <<written'[q], "tail">>
                     /\ log'[3 * q] = Newline
          <5>1. CASE q \in 1..N
            BY <3>4, <3>5, <5>1
          <5>2. CASE q = N + 1
            BY <3>4, <3>6, <5>2
          <5> QED
            BY <3>2, <5>1, <5>2
        <4> QED
          BY <3>4, <4>1 DEF WholeLines
      <3>8. Closed'
        <4>1. Len(log') = 3 * (N + 1)
          BY <3>2, <3>3
        <4>2. \A b \in Appenders : sent'[b] = 0
          BY <2>1, <3>2 DEF LogTypes
        <4> QED
          BY <3>4, <4>1, <4>2 DEF Closed
      <3> QED
        BY <3>7, <3>8 DEF Clean
    <2> QED
      BY <2>4, <2>5
  <1>2. ASSUME NEW a \in Appenders, WritePart(a) PROVE (Clean \/ Ruined)'
    <2>1. PICK k \in 1..(2 - sent[a]) :
            /\ todo[a] # <<>> /\ Wrote(a, k) /\ sent' = [sent EXCEPT ![a] = @ + k]
            /\ cuts' = cuts \cup {<<Head(todo[a]), sent[a] + k>>}
            /\ todo' = todo /\ written' = written
      BY <1>2, PartWrites
    <2>2. sent[a] \in 0..2 /\ k \in 1..(3 - sent[a]) /\ k \in Nat /\ sent[a] + k \in {1, 2}
      <3>1. sent[a] \in 0..2
        BY <2>1, FirstToDo
      <3> QED
        BY <3>1
    <2>3. /\ Len(log) \in Nat /\ \A i \in 1..Len(log) : log'[i] = log[i]
          /\ \A i \in DOMAIN log : i \in DOMAIN log' /\ log'[i] = log[i]
      BY <2>1, <2>2, LogGrows
    <2>4. CASE Ruined
      BY <2>1, <2>3, <2>4, RuinedStays
    <2>5. CASE Clean /\ ~Ruined'
      <3>1. PICK N : N = Len(written)
        OBVIOUS
      <3>2. /\ \A b \in Appenders : sent[b] # 0 => b = a
            /\ N \in Nat /\ Len(log) >= 3 * N
            /\ Len(log') = 3 * N + (sent[a] + k)
            /\ log'[3 * N + 1] = <<Head(todo[a]), "head">>
            /\ sent[a] + k >= 2 => log'[3 * N + 2] = <<Head(todo[a]), "tail">>
        BY <2>1, <2>2, <2>5, <3>1, CleanWriter
      <3>3. DOMAIN written = 1..N
        BY <3>1 DEF LogTypes
      <3>4. \A q \in 1..N : /\ log'[3 * q - 2] = <<written[q], "head">>
                            /\ log'[3 * q - 1] = <<written[q], "tail">>
                            /\ log'[3 * q] = Newline
        BY <2>3, <2>5, <3>2, <3>3, LinesStay DEF Clean
      <3>5. WholeLines'
        BY <2>1, <3>3, <3>4 DEF WholeLines
      <3>6. PICK e \in Events, n \in {1, 2} : e = Head(todo[a]) /\ n = sent[a] + k
        BY <2>1, <2>2, FirstToDo
      <3>7. e \notin Written'
        <4>1. e \notin Written
          BY <2>1, <3>6, FirstToDo DEF Once
        <4> QED
          BY <2>1, <4>1 DEF Written
      <3>8. cuts' # {}
        BY <2>1
      <3>9. \A b \in Appenders : sent'[b] # 0 => b = a
        BY <2>1, <3>2 DEF LogTypes
      <3>10. sent'[a] = n /\ Head(todo'[a]) = e
        BY <2>1, <3>6 DEF LogTypes
      <3>11. /\ Len(log') = 3 * N + n /\ log'[3 * N + 1] = <<e, "head">>
             /\ n = 2 => log'[3 * N + 2] = <<e, "tail">>
        BY <3>2, <3>6
      <3>12. Len(written') = N
        BY <2>1, <3>1
      <3>13. Open(n, e)'
        BY <3>7, <3>8, <3>9, <3>10, <3>11, <3>12 DEF Open
      <3> QED
        BY <3>5, <3>13 DEF Clean
    <2> QED
      BY <2>4, <2>5
  <1>3. ASSUME NEW a \in Appenders, Begin(a) PROVE (Clean \/ Ruined)'
    <2>1. /\ todo[a] = <<>> /\ UNCHANGED <<log, sent, written, cuts>>
          /\ \A b \in Appenders : b # a => todo'[b] = todo[b]
      BY <1>3, Begins DEF LogTypes
    <2>2. sent[a] = 0
      <3>1. sent[a] \in 0..2
        BY DEF LogTypes
      <3>2. ~(sent[a] > 0)
        BY <2>1 DEF LogTypes
      <3> QED
        BY <3>1, <3>2
    <2>3. CASE Ruined
      BY <2>1, <2>3, RuinedStays
    <2>4. CASE Clean
      <3>1. WholeLines' /\ (Closed => Closed')
        BY <2>1, <2>4 DEF Clean, WholeLines, Closed
      <3>2. ASSUME NEW n \in {1, 2}, NEW e \in Events, Open(n, e) PROVE Open(n, e)'
        <4>1. \A b \in Appenders : sent'[b] # 0 => sent'[b] = n /\ Head(todo'[b]) = e
          BY <2>1, <2>2, <3>2 DEF Open
        <4> QED
          BY <2>1, <3>2, <4>1 DEF Open, Written
      <3> QED
        BY <2>4, <3>1, <3>2 DEF Clean
    <2> QED
      BY <2>3, <2>4
  <1>4. ASSUME NEW a \in Appenders, GiveUp(a) PROVE (Clean \/ Ruined)'
    <2>1. /\ todo' = [todo EXCEPT ![a] = <<>>] /\ sent' = [sent EXCEPT ![a] = 0]
          /\ UNCHANGED <<log, begun, written, cuts>>
      BY <1>4, GivesUp
    <2>2. /\ sent'[a] = 0
          /\ \A b \in Appenders : b # a => todo'[b] = todo[b] /\ sent'[b] = sent[b]
      BY <2>1 DEF LogTypes
    <2>3. CASE Ruined
      BY <2>1, <2>3, RuinedStays
    <2>4. CASE Clean
      <3>1. WholeLines' /\ (Closed => Closed')
        BY <2>1, <2>2, <2>4 DEF Clean, WholeLines, Closed
      <3>2. ASSUME NEW n \in {1, 2}, NEW e \in Events, Open(n, e) PROVE Open(n, e)'
        <4>1. /\ \A b \in Appenders : sent'[b] # 0 => sent'[b] = n /\ Head(todo'[b]) = e
              /\ \A b, c \in Appenders : sent'[b] # 0 /\ sent'[c] # 0 => b = c
          BY <2>2, <3>2 DEF Open
        <4> QED
          BY <2>1, <3>2, <4>1 DEF Open, Written
      <3> QED
        BY <2>4, <3>1, <3>2 DEF Clean
    <2> QED
      BY <2>3, <2>4
  <1>5. CASE UNCHANGED logVars
    <2>1. UNCHANGED <<log, todo, sent, written, cuts>>
      BY <1>5 DEF logVars
    <2>2. CASE Ruined
      BY <2>1, <2>2, RuinedStays
    <2>3. CASE Clean
      BY <2>1, <2>3 DEF Clean, WholeLines, Closed, Open, Written
    <2> QED
      BY <2>2, <2>3
  <1> QED
    BY <1>1, <1>2, <1>3, <1>4, <1>5 DEF LogNext

-----------------------------------------------------------------------------
\* What Events makes of the file.

Neighbours(i, j) ==
  i < j /\ \A b \in Breaks(log) : b <= i \/ j <= b

LEMMA LinesAre ==
  \A line : line \in Lines(log) <=>
    \E i, j \in Breaks(log) : Neighbours(i, j) /\ line = SubSeq(log, i + 1, j - 1)
  <1> DEFINE Ends == {p \in Breaks(log) \X Breaks(log) :
                       p[1] < p[2] /\ \A k \in Breaks(log) : k <= p[1] \/ p[2] <= k}
  <1>1. \A line : line \in Lines(log) <=>
                    \E p \in Ends : line = SubSeq(log, p[1] + 1, p[2] - 1)
    BY DEF Lines
  <1>2. \A i, j \in Breaks(log) : Neighbours(i, j) <=> <<i, j>> \in Ends
    BY DEF Neighbours
  <1>3. \A p \in Ends : p[1] \in Breaks(log) /\ p[2] \in Breaks(log) /\ p = <<p[1], p[2]>>
    OBVIOUS
  <1>4. \A i, j : <<i, j>>[1] = i /\ <<i, j>>[2] = j
    OBVIOUS
  <1> HIDE DEF Ends
  <1>5. ASSUME NEW line, line \in Lines(log)
        PROVE  \E i, j \in Breaks(log) : Neighbours(i, j) /\ line = SubSeq(log, i + 1, j - 1)
    BY <1>1, <1>2, <1>3, <1>5
  <1>6. ASSUME NEW i \in Breaks(log), NEW j \in Breaks(log), Neighbours(i, j)
        PROVE  SubSeq(log, i + 1, j - 1) \in Lines(log)
    BY <1>1, <1>2, <1>4, <1>6
  <1> QED
    BY <1>5, <1>6

LEMMA BreaksAre ==
  ASSUME LogTypes
  PROVE  /\ Len(log) \in Nat /\ Breaks(log) \subseteq 0..(Len(log) + 1)
         /\ 0 \in Breaks(log) /\ Len(log) + 1 \in Breaks(log)
         /\ \A i \in 1..Len(log) : i \in Breaks(log) <=> log[i] = Newline
  <1>1. Len(log) \in Nat /\ DOMAIN log = 1..Len(log)
    BY DEF LogTypes
  <1> QED
    BY <1>1 DEF Breaks

\* The symbols between two breaks.
LEMMA Between ==
  ASSUME LogTypes, NEW i \in Breaks(log), NEW j \in Breaks(log), i < j
  PROVE  /\ Len(SubSeq(log, i + 1, j - 1)) = j - i - 1
         /\ \A m \in 1..(j - i - 1) : SubSeq(log, i + 1, j - 1)[m] = log[i + m]
  <1>1. i \in 0..Len(log) /\ j \in 1..(Len(log) + 1) /\ Len(log) \in Nat
    BY BreaksAre
  <1>2. \A m \in i + 1..j - 1 : log[m] \in Symbols
    BY <1>1 DEF LogTypes
  <1>3. /\ Len(SubSeq(log, i + 1, j - 1)) = IF i + 1 <= j - 1 THEN (j - 1) - (i + 1) + 1 ELSE 0
        /\ \A m \in 1..(j - 1) - (i + 1) + 1 : SubSeq(log, i + 1, j - 1)[m] = log[(i + 1) + m - 1]
    BY <1>1, <1>2, SubSeqProperties
  <1>4. Len(SubSeq(log, i + 1, j - 1)) = j - i - 1
    BY <1>1, <1>3
  <1>5. ASSUME NEW m \in 1..(j - i - 1) PROVE SubSeq(log, i + 1, j - 1)[m] = log[i + m]
    <2>1. m \in 1..(j - 1) - (i + 1) + 1 /\ (i + 1) + m - 1 = i + m
      BY <1>1
    <2> QED
      BY <1>3, <2>1
  <1> QED
    BY <1>4, <1>5

LEMMA PairSymbols ==
  ASSUME NEW x, NEW y
  PROVE  Len(<<x, y>>) = 2 /\ <<x, y>>[1] = x /\ <<x, y>>[2] = y
  OBVIOUS

\* A line that broke off is never read again.
LEMMA RuinedUnreadable ==
  ASSUME LogTypes, Ruined
  PROVE  ~Readable
  <1> SUFFICES ASSUME Readable PROVE FALSE
    OBVIOUS
  <1>1. PICK k \in DOMAIN log, e \in Events : k + 1 \in DOMAIN log /\ BrokenAt(k, e)
    BY DEF Ruined
  <1>2. /\ Len(log) \in Nat /\ k \in 1..Len(log) /\ k + 1 \in 1..Len(log)
        /\ log[k] # Newline /\ k \notin Breaks(log)
    <2>1. Len(log) \in Nat /\ DOMAIN log = 1..Len(log)
      BY DEF LogTypes
    <2>2. log[k] # Newline
      BY <1>1, SymbolsDiffer DEF BrokenAt
    <2> QED
      BY <1>1, <2>1, <2>2, BreaksAre
  <1>3. PICK i \in Breaks(log) : i < k /\ \A b \in Breaks(log) : b < k => b <= i
    <2> DEFINE S == {b \in Breaks(log) : b < k}
    <2>1. S \in SUBSET (0..Len(log)) /\ S # {}
      BY <1>2, BreaksAre
    <2> HIDE DEF S
    <2>2. PICK i \in S : \A b \in S : b <= i
      BY <1>2, <2>1, Greatest
    <2> QED
      BY <2>2 DEF S
  <1>4. PICK j \in Breaks(log) : k < j /\ \A b \in Breaks(log) : k < b => j <= b
    <2> DEFINE S == {b \in Breaks(log) : k < b}
    <2>1. S \in SUBSET Nat /\ S # {}
      BY <1>2, BreaksAre
    <2> HIDE DEF S
    <2>2. PICK j \in S : \A b \in S : j <= b
      BY <2>1, Least
    <2> QED
      BY <2>2 DEF S
  <1>5. i \in Nat /\ j \in Nat /\ i < j /\ Breaks(log) \subseteq Nat
    BY <1>2, <1>3, <1>4, BreaksAre
  <1>6. Neighbours(i, j)
    BY <1>2, <1>3, <1>4, <1>5 DEF Neighbours
  <1> DEFINE line == SubSeq(log, i + 1, j - 1)
  <1>7. /\ Len(line) = j - i - 1 /\ \A m \in 1..(j - i - 1) : line[m] = log[i + m]
        /\ line = <<>> \/ WholeEvent(line)
    <2>1. line \in Lines(log)
      BY <1>6, LinesAre
    <2> QED
      BY <1>5, <2>1, Between DEF Readable
  <1> HIDE DEF line
  <1>8. PICK f \in Events : line = <<<<f, "head">>, <<f, "tail">>>>
    <2>1. Len(line) >= 1
      BY <1>3, <1>4, <1>5, <1>7, <1>2
    <2>2. Len(<<>>) = 0
      OBVIOUS
    <2> QED
      BY <1>7, <2>1, <2>2 DEF WholeEvent
  <1>9. j = i + 3 /\ log[i + 1] = <<f, "head">> /\ log[i + 2] = <<f, "tail">>
    <2>1. Len(line) = 2 /\ line[1] = <<f, "head">> /\ line[2] = <<f, "tail">>
      BY <1>8, PairSymbols
    <2>2. j = i + 3
      <3>1. j - i - 1 = 2
        BY <1>7, <2>1
      <3> QED
        BY <1>5, <3>1
    <2>3. 1 \in 1..(j - i - 1) /\ 2 \in 1..(j - i - 1)
      BY <1>5, <2>2
    <2> QED
      BY <1>7, <2>1, <2>2, <2>3
  <1>10. k = i + 1 \/ k = i + 2
    BY <1>2, <1>3, <1>4, <1>5, <1>9
  <1>11. CASE k = i + 1
    <2>1. log[k] = <<f, "head">> /\ log[k + 1] = <<f, "tail">>
      <3>1. k + 1 = i + 2
        BY <1>5, <1>11
      <3> QED
        BY <1>9, <1>11, <3>1
    <2> QED
      BY <1>1, <2>1, SymbolsDiffer DEF BrokenAt
  <1>12. CASE k = i + 2
    <2>1. log[k] = <<f, "tail">>
      BY <1>9, <1>12
    <2>2. k + 1 = j
      BY <1>5, <1>9, <1>12
    <2>3. log[k + 1] = Newline
      BY <1>2, <2>2, BreaksAre
    <2> QED
      BY <1>1, <2>1, <2>3, SymbolsDiffer DEF BrokenAt
  <1> QED
    BY <1>10, <1>11, <1>12

LEMMA Thirds ==
  ASSUME NEW N \in Nat, NEW i \in 1..(3 * N)
  PROVE  \E q \in 1..N : i = 3 * q - 2 \/ i = 3 * q - 1 \/ i = 3 * q
  <1> DEFINE q == (i + 2) \div 3
  <1>1. q \in 1..N /\ (i = 3 * q - 2 \/ i = 3 * q - 1 \/ i = 3 * q)
    OBVIOUS
  <1> HIDE DEF q
  <1> QED
    BY <1>1

\* With no write cut short, every line is read.
LEMMA ClosedReadable ==
  ASSUME LogTypes, WholeLines, Closed
  PROVE  Readable
  <1> SUFFICES ASSUME NEW line \in Lines(log) PROVE line = <<>> \/ WholeEvent(line)
    BY DEF Readable
  <1>1. PICK i \in Breaks(log), j \in Breaks(log) :
          Neighbours(i, j) /\ line = SubSeq(log, i + 1, j - 1)
    BY LinesAre
  <1>2. PICK N \in Nat : N = Len(written) /\ Len(log) = 3 * N /\ DOMAIN written = 1..N
    BY DEF LogTypes, Closed
  <1>3. \A q \in 1..N : /\ log[3 * q - 2] = <<written[q], "head">>
                        /\ log[3 * q - 1] = <<written[q], "tail">>
                        /\ log[3 * q] = Newline
    BY <1>2 DEF WholeLines
  <1>4. ASSUME NEW b \in Breaks(log) PROVE b = 3 * N + 1 \/ \E q \in 0..N : b = 3 * q
    <2>1. b \in 0..(3 * N + 1)
      BY <1>2, BreaksAre
    <2>2. CASE b = 0
      <3>1. 0 \in 0..N /\ b = 3 * 0
        BY <2>2
      <3> QED
        BY <3>1
    <2>3. CASE b \in 1..(3 * N)
      <3>1. PICK q \in 1..N : b = 3 * q - 2 \/ b = 3 * q - 1 \/ b = 3 * q
        BY <2>3, Thirds
      <3>2. log[b] = Newline
        BY <1>2, <2>3, BreaksAre
      <3>3. b # 3 * q - 2 /\ b # 3 * q - 1
        BY <1>3, <3>2, SymbolsDiffer
      <3> QED
        BY <3>1, <3>3
    <2> QED
      BY <2>1, <2>2, <2>3
  <1>5. i < j /\ \A b \in Breaks(log) : b <= i \/ j <= b
    BY <1>1 DEF Neighbours
  <1>6. i \in 0..(3 * N + 1) /\ j \in 0..(3 * N + 1)
    BY <1>2, BreaksAre
  <1>7. PICK q \in 0..N : i = 3 * q
    BY <1>4, <1>5, <1>6
  <1>8. CASE q = N
    <2>1. j = i + 1
      BY <1>5, <1>6, <1>7, <1>8
    <2>2. Len(line) = 0
      BY <1>1, <1>5, <1>6, <2>1, Between
    <2>3. line = <<>>
      <3>1. line \in Seq(Symbols)
        <4>1. \A m \in i + 1..j - 1 : log[m] \in Symbols
          BY <1>6, <2>1
        <4> QED
          BY <1>1, <1>6, <4>1, SubSeqProperties
      <3> QED
        BY <2>2, <3>1
    <2> QED
      BY <2>3
  <1>9. CASE q < N
    <2>1. q + 1 \in 1..N
      BY <1>9
    <2>2. /\ 3 * (q + 1) - 2 = i + 1 /\ 3 * (q + 1) - 1 = i + 2 /\ 3 * (q + 1) = i + 3
          /\ i + 3 \in 1..(3 * N) /\ i \in Nat
      BY <1>7, <1>9
    <2>3. /\ log[i + 1] = <<written[q + 1], "head">> /\ log[i + 2] = <<written[q + 1], "tail">>
          /\ log[i + 3] = Newline
      BY <1>3, <2>1, <2>2
    <2>4. i + 3 \in Breaks(log)
      BY <1>2, <2>2, <2>3, BreaksAre
    <2>5. j <= i + 3
      BY <1>5, <2>2, <2>4
    <2>6. j = i + 3
      <3>1. CASE j = 3 * N + 1
        BY <2>2, <2>5, <3>1
      <3>2. ASSUME NEW r \in 0..N, j = 3 * r PROVE j = i + 3
        BY <1>5, <1>7, <2>5, <3>2
      <3> QED
        BY <1>4, <3>1, <3>2
    <2>7. /\ Len(line) = 2 /\ line[1] = log[i + 1] /\ line[2] = log[i + 2]
          /\ line \in Seq(Symbols)
      <3>1. j - i - 1 = 2 /\ 1 \in 1..2 /\ 2 \in 1..2
        BY <2>2, <2>6
      <3>2. Len(line) = 2 /\ line[1] = log[i + 1] /\ line[2] = log[i + 2]
        BY <1>1, <1>5, <3>1, Between
      <3>3. \A m \in i + 1..j - 1 : log[m] \in Symbols
        BY <1>2, <2>2, <2>6 DEF LogTypes
      <3>4. line \in Seq(Symbols)
        BY <1>1, <1>6, <3>3, SubSeqProperties
      <3> QED
        BY <3>2, <3>4
    <2>8. line = <<<<written[q + 1], "head">>, <<written[q + 1], "tail">>>>
      BY <2>3, <2>7
    <2>9. written[q + 1] \in Events
      BY <1>2, <2>1 DEF LogTypes
    <2> QED
      BY <2>8, <2>9 DEF WholeEvent
  <1> QED
    BY <1>7, <1>8, <1>9

\* In a log nothing broke in, the line of a written event is where its turn was.
LEMMA PlaceOfWritten ==
  ASSUME LogTypes, Once, Clean, NEW k \in DOMAIN written
  PROVE  3 * k - 2 \in DOMAIN log /\ PlacesOf(written[k]) = {3 * k - 2}
  <1>1. PICK N \in Nat : N = Len(written) /\ DOMAIN written = 1..N
    BY DEF LogTypes
  <1>2. \A q \in 1..N : /\ log[3 * q - 2] = <<written[q], "head">>
                        /\ log[3 * q - 1] = <<written[q], "tail">>
                        /\ log[3 * q] = Newline
    BY <1>1 DEF Clean, WholeLines
  <1>3. written[k] \in Written /\ k \in 1..N
    BY <1>1 DEF Written
  <1>4. PICK n \in 0..2 :
          /\ Len(log) = 3 * N + n
          /\ n = 0 \/ \E e \in Events : Open(n, e)
    <2>1. CASE Closed
      BY <1>1, <2>1 DEF Closed
    <2>2. ASSUME NEW n \in {1, 2}, NEW e \in Events, Open(n, e)
          PROVE  Len(log) = 3 * N + n
      BY <1>1, <2>2 DEF Open
    <2>3. {1, 2} \subseteq 0..2
      OBVIOUS
    <2>4. CASE \E n \in {1, 2}, e \in Events : Open(n, e)
      <3>1. PICK n \in {1, 2}, e \in Events : Open(n, e)
        BY <2>4
      <3>2. Len(log) = 3 * N + n /\ n \in 0..2
        BY <2>2, <2>3, <3>1
      <3> QED
        BY <3>1, <3>2
    <2> QED
      BY <2>1, <2>4 DEF Clean
  <1>5. DOMAIN log = 1..(3 * N + n)
    BY <1>4 DEF LogTypes
  <1>6. 3 * k - 2 \in DOMAIN log /\ log[3 * k - 2] = <<written[k], "head">>
    BY <1>2, <1>3, <1>5
  <1>7. ASSUME NEW m \in DOMAIN log, log[m] = <<written[k], "head">>
        PROVE  m = 3 * k - 2
    <2>1. CASE m \in 1..(3 * N)
      <3>1. PICK q \in 1..N : m = 3 * q - 2 \/ m = 3 * q - 1 \/ m = 3 * q
        BY <2>1, Thirds
      <3>2. CASE m = 3 * q - 2
        <4>1. written[q] = written[k]
          BY <1>2, <1>7, <3>1, <3>2, SymbolsDiffer
        <4>2. q = k
          BY <1>1, <1>3, <3>1, <4>1 DEF Once
        <4> QED
          BY <3>2, <4>2
      <3>3. CASE m = 3 * q - 1
        <4>1. log[m] = <<written[q], "tail">>
          BY <1>2, <3>1, <3>3
        <4> QED
          BY <1>7, <4>1, SymbolsDiffer
      <3>4. CASE m = 3 * q
        <4>1. log[m] = Newline
          BY <1>2, <3>1, <3>4
        <4> QED
          BY <1>7, <4>1, SymbolsDiffer
      <3> QED
        BY <3>1, <3>2, <3>3, <3>4
    <2>2. CASE m = 3 * N + 1 \/ m = 3 * N + 2
      <3>1. n # 0 /\ (m = 3 * N + 2 => n = 2)
        BY <1>5, <2>2
      <3>2. PICK e \in Events : Open(n, e)
        BY <1>4, <3>1
      <3>3. /\ log[3 * N + 1] = <<e, "head">> /\ e # written[k]
            /\ n = 2 => log[3 * N + 2] = <<e, "tail">>
        BY <1>1, <1>3, <3>2 DEF Open
      <3> QED
        BY <1>7, <2>2, <3>1, <3>3, SymbolsDiffer
    <2> QED
      BY <1>5, <2>1, <2>2
  <1> QED
    BY <1>6, <1>7 DEF PlacesOf

LEMMA CleanKeeps ==
  ASSUME LogTypes, Once, Clean
  PROVE  LogKeepsAll
  <1> SUFFICES ASSUME NEW k \in DOMAIN written
               PROVE  \E i \in DOMAIN log :
                        /\ PlacesOf(written[k]) = {i}
                        /\ \A j \in 1..(k - 1) : \A h \in PlacesOf(written[j]) : h < i
    BY DEF LogKeepsAll
  <1>1. 3 * k - 2 \in DOMAIN log /\ PlacesOf(written[k]) = {3 * k - 2}
    BY PlaceOfWritten
  <1>2. DOMAIN written = 1..Len(written) /\ Len(written) \in Nat
    BY DEF LogTypes
  <1>3. ASSUME NEW j \in 1..(k - 1), NEW h \in PlacesOf(written[j])
        PROVE  h < 3 * k - 2
    <2>1. j \in DOMAIN written /\ j < k
      BY <1>2
    <2>2. h = 3 * j - 2
      BY <2>1, PlaceOfWritten
    <2> QED
      BY <1>2, <2>1, <2>2
  <1> QED
    BY <1>1, <1>3

LEMMA SoundCloses ==
  ASSUME LogTypes, Clean \/ Ruined, cuts = {}
  PROVE  WholeLines /\ Closed
  BY DEF Clean, Open, Ruined

LEMMA FirstClean == LogInit => Clean
  <1> SUFFICES ASSUME LogInit PROVE Clean
    OBVIOUS
  <1>1. written = <<>> /\ log = <<>> /\ \A a \in Appenders : sent[a] = 0
    BY DEF LogInit
  <1>2. DOMAIN written = {} /\ Len(written) = 0 /\ Len(log) = 0
    BY <1>1
  <1> QED
    BY <1>1, <1>2 DEF Clean, WholeLines, Closed

LEMMA LogFits == LogSpec => [](LogTypes /\ Once)
  <1>1. LogTypes /\ Once /\ [LogNext]_logVars => (LogTypes /\ Once)'
    BY NextTypes, NextOnce
  <1> QED
    BY <1>1, InitTypesOnce, PTL DEF LogSpec

LEMMA LogHolds == LogSpec => [](LogTypes /\ Once /\ (Clean \/ Ruined))
  <1>1. LogTypes /\ Once /\ (Clean \/ Ruined) /\ [LogNext]_logVars
          => (LogTypes /\ Once /\ (Clean \/ Ruined))'
    BY NextTypes, NextOnce, NextClean
  <1>2. LogInit => LogTypes /\ Once /\ (Clean \/ Ruined)
    BY InitTypesOnce, FirstClean
  <1> QED
    BY <1>1, <1>2, PTL DEF LogSpec

\* The file, what each call has left to append, and the histories keep their types.
THEOREM LogTypeCorrect == LogSpec => []LogTypeOK
  <1>1. LogTypes => LogTypeOK
    BY DEF LogTypes, LogTypeOK, Symbols
  <1> QED
    BY <1>1, LogFits, PTL

\* Store.Events: whatever failed or died, a log that can be read shows each
\* event that was written to the end, once, in the order they were written.
THEOREM ReadableIsWhole == LogSpec => []LogKeepsAll
  <1>1. LogTypes /\ Once /\ (Clean \/ Ruined) => LogKeepsAll
    <2> SUFFICES ASSUME LogTypes, Once, Clean \/ Ruined PROVE LogKeepsAll
      OBVIOUS
    <2>1. CASE Clean
      BY <2>1, CleanKeeps
    <2>2. CASE Ruined
      BY <2>2, RuinedUnreadable DEF LogKeepsAll
    <2> QED
      BY <2>1, <2>2
  <1> QED
    BY <1>1, LogHolds, PTL

\* Store.Append: without a write that stops half-way, no interleaving of
\* appends, failures and deaths leaves a log that Store.Events refuses.
THEOREM SoundDiskReadable == LogSpec => []OnlyCutsSpoilLog
  <1>1. LogTypes /\ Once /\ (Clean \/ Ruined) => OnlyCutsSpoilLog
    BY SoundCloses, ClosedReadable DEF OnlyCutsSpoilLog
  <1> QED
    BY <1>1, LogHolds, PTL

-----------------------------------------------------------------------------
\* How far a write that stops half-way does harm.

LEMMA NewSymbols ==
  ASSUME LogTypes, NEW a \in Appenders, todo[a] # <<>>,
         NEW k \in 1..(3 - sent[a]), Wrote(a, k), NEW m \in DOMAIN log'
  PROVE  \/ m \in DOMAIN log /\ log'[m] = log[m]
         \/ \E i \in 1..k :
              /\ m = Len(log) + i
              /\ \/ sent[a] + i = 1 /\ log'[m] = <<Head(todo[a]), "head">>
                 \/ sent[a] + i = 2 /\ log'[m] = <<Head(todo[a]), "tail">>
                 \/ sent[a] + i = 3 /\ log'[m] = Newline
  <1>1. PICK p, s, e : p = Len(log) /\ s = sent[a] /\ e = Head(todo[a])
    OBVIOUS
  <1>2. s \in 0..2 /\ e \in Events /\ k \in 1..(3 - s)
    BY <1>1, FirstToDo
  <1>3. p \in Nat /\ DOMAIN log = 1..p /\ DOMAIN log' = 1..(p + k)
        /\ \A i \in DOMAIN log : log'[i] = log[i]
    BY <1>1, <1>2, LogGrows
  <1>4. CASE m \in 1..p
    BY <1>3, <1>4
  <1>5. CASE m \in p + 1..p + k
    <2>1. PICK i \in 1..k : m = p + i
      <3>1. m - p \in 1..k /\ m = p + (m - p)
        BY <1>3, <1>5
      <3> QED
        BY <3>1
    <2>2. log'[m] = Line(e)[s + i]
      BY <1>1, <2>1 DEF Wrote
    <2>3. s + i = 1 \/ s + i = 2 \/ s + i = 3
      BY <1>2
    <2>4. \/ s + i = 1 /\ log'[m] = <<e, "head">>
          \/ s + i = 2 /\ log'[m] = <<e, "tail">>
          \/ s + i = 3 /\ log'[m] = Newline
      BY <1>2, <2>2, <2>3, LineSymbols
    <2> QED
      BY <1>1, <2>1, <2>4
  <1> QED
    BY <1>2, <1>3, <1>4, <1>5

\* A symbol in the file of the event whose turn it is was put there in this turn.
LEMMA TurnSymbols ==
  ASSUME LogTypes, InTurn, NEW a \in Appenders, todo[a] # <<>>, NEW i \in DOMAIN log
  PROVE  /\ log[i] = <<Head(todo[a]), "head">> => sent[a] > 0
         /\ log[i] = <<Head(todo[a]), "tail">> => sent[a] = 2
  <1>1. /\ Head(todo[a]) \in Events /\ Head(todo[a]) = todo[a][1] /\ 1 \in DOMAIN todo[a]
        /\ sent[a] \in 0..2
    BY FirstToDo
  <1> QED
    BY <1>1 DEF InTurn

LEMMA WriteSingle ==
  ASSUME LogTypes, Single, InTurn, NEW a \in Appenders, todo[a] # <<>>,
         NEW k \in 1..(3 - sent[a]), Wrote(a, k)
  PROVE  Single'
  <1> SUFFICES ASSUME NEW i \in DOMAIN log', NEW j \in DOMAIN log',
                      log'[i] = log'[j], log'[i] # Newline
               PROVE  i = j
    BY DEF Single
  <1>0. PICK p, s, e : p = Len(log) /\ s = sent[a] /\ e = Head(todo[a])
    OBVIOUS
  <1>1. s \in 0..2 /\ p \in Nat
    BY <1>0, FirstToDo DEF LogTypes
  <1> DEFINE Old(m) == m \in DOMAIN log /\ log'[m] = log[m]
             New(m) == \E n \in 1..k :
                         /\ m = p + n
                         /\ \/ s + n = 1 /\ log'[m] = <<e, "head">>
                            \/ s + n = 2 /\ log'[m] = <<e, "tail">>
                            \/ s + n = 3 /\ log'[m] = Newline
  <1>2. \A m \in DOMAIN log' : Old(m) \/ New(m)
    BY <1>0, NewSymbols
  <1>3. ASSUME NEW m, NEW n, Old(m), New(n), log'[m] = log'[n], log'[m] # Newline
        PROVE  FALSE
    <2>1. PICK q \in 1..k : \/ s + q = 1 /\ log'[n] = <<e, "head">>
                            \/ s + q = 2 /\ log'[n] = <<e, "tail">>
      BY <1>3
    <2>2. CASE s + q = 1 /\ log'[n] = <<e, "head">>
      <3>1. s > 0
        BY <1>0, <1>3, <2>2, TurnSymbols
      <3> QED
        BY <1>1, <2>2, <3>1
    <2>3. CASE s + q = 2 /\ log'[n] = <<e, "tail">>
      <3>1. s = 2
        BY <1>0, <1>3, <2>3, TurnSymbols
      <3> QED
        BY <1>1, <2>3, <3>1
    <2> QED
      BY <2>1, <2>2, <2>3
  <1>4. CASE Old(i) /\ Old(j)
    BY <1>4 DEF Single
  <1>5. CASE New(i) /\ New(j)
    <2>1. PICK m \in 1..k : /\ i = p + m
                            /\ \/ s + m = 1 /\ log'[i] = <<e, "head">>
                               \/ s + m = 2 /\ log'[i] = <<e, "tail">>
      BY <1>5
    <2>2. PICK n \in 1..k : /\ j = p + n
                            /\ \/ s + n = 1 /\ log'[j] = <<e, "head">>
                               \/ s + n = 2 /\ log'[j] = <<e, "tail">>
      BY <1>5
    <2>3. s + m = s + n
      BY <2>1, <2>2, SymbolsDiffer
    <2>4. m = n
      BY <1>1, <2>3
    <2> QED
      BY <2>1, <2>2, <2>4
  <1> HIDE DEF Old, New
  <1> QED
    BY <1>2, <1>3, <1>4, <1>5

LEMMA NextSingle ==
  ASSUME LogTypes, Single, InTurn, [LogNext]_logVars
  PROVE  Single'
  <1>1. ASSUME NEW a \in Appenders, WriteRest(a) PROVE Single'
    <2>1. todo[a] # <<>> /\ Wrote(a, 3 - sent[a])
      BY <1>1, RestWrites
    <2>2. 3 - sent[a] \in 1..(3 - sent[a])
      BY <2>1, FirstToDo
    <2> QED
      BY <2>1, <2>2, WriteSingle
  <1>2. ASSUME NEW a \in Appenders, WritePart(a) PROVE Single'
    <2>1. todo[a] # <<>> /\ \E k \in 1..(2 - sent[a]) : Wrote(a, k)
      BY <1>2, PartWrites
    <2>2. PICK k \in 1..(2 - sent[a]) : Wrote(a, k)
      BY <2>1
    <2>3. k \in 1..(3 - sent[a])
      BY <2>1, FirstToDo
    <2> QED
      BY <2>1, <2>2, <2>3, WriteSingle
  <1>3. CASE UNCHANGED log
    BY <1>3 DEF Single
  <1>4. ASSUME NEW a \in Appenders, Begin(a) \/ GiveUp(a) PROVE UNCHANGED log
    BY <1>4 DEF Begin, GiveUp
  <1> QED
    BY <1>1, <1>2, <1>3, <1>4 DEF LogNext, logVars

LEMMA RestTurn ==
  ASSUME LogTypes, Once, InTurn, NEW a \in Appenders, WriteRest(a),
         NEW m \in DOMAIN log', NEW f \in Events,
         log'[m] \in {<<f, "head">>, <<f, "tail">>},
         NEW b \in Appenders, NEW k \in DOMAIN todo'[b], todo'[b][k] = f
  PROVE  k = 1 /\ sent'[b] > 0 /\ (log'[m] = <<f, "tail">> => sent'[b] = 2)
  <1>1. /\ todo[a] # <<>> /\ Wrote(a, 3 - sent[a])
        /\ todo' = [todo EXCEPT ![a] = Tail(@)] /\ sent' = [sent EXCEPT ![a] = 0]
    BY RestWrites
  <1>2. /\ sent[a] \in 0..2 /\ Head(todo[a]) = todo[a][1] /\ 1 \in DOMAIN todo[a]
        /\ \A q \in DOMAIN Tail(todo[a]) :
             q + 1 \in DOMAIN todo[a] /\ Tail(todo[a])[q] = todo[a][q + 1]
    BY <1>1, FirstToDo
  <1>3. 3 - sent[a] \in 1..(3 - sent[a])
    BY <1>2
  <1>4. \/ m \in DOMAIN log /\ log'[m] = log[m]
        \/ f = todo[a][1]
    BY <1>1, <1>2, <1>3, NewSymbols, SymbolsDiffer
  <1>5. /\ todo'[a] = Tail(todo[a])
        /\ \A c \in Appenders : c # a => todo'[c] = todo[c] /\ sent'[c] = sent[c]
    BY <1>1 DEF LogTypes
  <1>6. CASE b = a
    <2>1. k + 1 \in DOMAIN todo[a] /\ todo[a][k + 1] = f /\ k + 1 # 1
      <3>1. k \in DOMAIN Tail(todo[a])
        BY <1>5, <1>6
      <3>2. Tail(todo[a]) \in Seq(Events)
        BY <1>1, FirstToDo
      <3>3. k \in Nat \ {0}
        BY <3>1, <3>2
      <3>4. k + 1 \in DOMAIN todo[a] /\ Tail(todo[a])[k] = todo[a][k + 1]
        BY <1>2, <3>1
      <3>5. todo'[b][k] = Tail(todo[a])[k]
        BY <1>5, <1>6
      <3>6. todo[a][k + 1] = f
        BY <3>4, <3>5
      <3>7. k + 1 # 1
        BY <3>3
      <3> QED
        BY <3>4, <3>6, <3>7
    <2>2. f # todo[a][1]
      BY <1>2, <2>1, OnlyOnce
    <2>3. m \in DOMAIN log /\ log[m] \in {<<f, "head">>, <<f, "tail">>}
      BY <1>4, <2>2
    <2> QED
      BY <2>1, <2>3 DEF InTurn
  <1>7. CASE b # a
    <2>1. k \in DOMAIN todo[b] /\ todo[b][k] = f /\ sent'[b] = sent[b]
      BY <1>5, <1>7
    <2>2. f # todo[a][1]
      BY <1>2, <1>7, <2>1, OnlyOnce
    <2>3. m \in DOMAIN log /\ log'[m] = log[m]
      BY <1>4, <2>2
    <2> QED
      BY <2>1, <2>3 DEF InTurn
  <1> QED
    BY <1>6, <1>7

LEMMA PartTurn ==
  ASSUME LogTypes, Once, InTurn, NEW a \in Appenders, WritePart(a),
         NEW m \in DOMAIN log', NEW f \in Events,
         log'[m] \in {<<f, "head">>, <<f, "tail">>},
         NEW b \in Appenders, NEW q \in DOMAIN todo'[b], todo'[b][q] = f
  PROVE  q = 1 /\ sent'[b] > 0 /\ (log'[m] = <<f, "tail">> => sent'[b] = 2)
  <1>1. PICK k \in 1..(2 - sent[a]) :
          todo[a] # <<>> /\ Wrote(a, k) /\ sent' = [sent EXCEPT ![a] = @ + k] /\ todo' = todo
    BY PartWrites
  <1>2. sent[a] \in 0..2 /\ Head(todo[a]) = todo[a][1] /\ 1 \in DOMAIN todo[a]
    BY <1>1, FirstToDo
  <1>3. k \in 1..(3 - sent[a]) /\ sent[a] < 2
    BY <1>2
  <1>4. /\ sent'[a] = sent[a] + k
        /\ \A c \in Appenders : c # a => sent'[c] = sent[c]
    BY <1>1 DEF LogTypes
  <1>5. CASE m \in DOMAIN log /\ log'[m] = log[m]
    <2>1. q = 1 /\ sent[b] > 0 /\ (log[m] = <<f, "tail">> => sent[b] = 2)
      BY <1>1, <1>5 DEF InTurn
    <2>2. CASE b = a
      BY <1>2, <1>3, <1>4, <1>5, <2>1, <2>2
    <2>3. CASE b # a
      BY <1>4, <1>5, <2>1, <2>3
    <2> QED
      BY <2>2, <2>3
  <1>6. ASSUME NEW i \in 1..k,
               \/ sent[a] + i = 1 /\ log'[m] = <<Head(todo[a]), "head">>
               \/ sent[a] + i = 2 /\ log'[m] = <<Head(todo[a]), "tail">>
        PROVE  q = 1 /\ sent'[b] > 0 /\ (log'[m] = <<f, "tail">> => sent'[b] = 2)
    <2>1. f = todo[a][1]
      BY <1>2, <1>6, SymbolsDiffer
    <2>2. b = a /\ q = 1
      BY <1>1, <1>2, <2>1, OnlyOnce
    <2>3. log'[m] = <<f, "tail">> => sent[a] + i = 2
      BY <1>6, SymbolsDiffer
    <2>4. (sent[a] + i = 2 => sent[a] + k = 2) /\ sent[a] + k > 0
      BY <1>2, <1>3
    <2> QED
      BY <1>4, <2>2, <2>3, <2>4
  <1>7. \/ m \in DOMAIN log /\ log'[m] = log[m]
        \/ \E i \in 1..k :
             \/ sent[a] + i = 1 /\ log'[m] = <<Head(todo[a]), "head">>
             \/ sent[a] + i = 2 /\ log'[m] = <<Head(todo[a]), "tail">>
    BY <1>1, <1>3, NewSymbols, SymbolsDiffer
  <1> QED
    BY <1>5, <1>6, <1>7

LEMMA NextTurn ==
  ASSUME LogTypes, Once, InTurn, [LogNext]_logVars
  PROVE  InTurn'
  <1> SUFFICES ASSUME NEW m \in DOMAIN log', NEW f \in Events,
                      log'[m] \in {<<f, "head">>, <<f, "tail">>}
               PROVE  /\ f \in begun'
                      /\ \A b \in Appenders : \A k \in DOMAIN todo'[b] :
                           todo'[b][k] = f =>
                             /\ k = 1 /\ sent'[b] > 0
                             /\ log'[m] = <<f, "tail">> => sent'[b] = 2
    BY DEF InTurn
  <1>1. ASSUME NEW a \in Appenders, todo[a] # <<>>,
               NEW k \in 1..(3 - sent[a]), Wrote(a, k)
        PROVE  f \in begun
    <2>1. (m \in DOMAIN log /\ log'[m] = log[m]) \/ f = Head(todo[a])
      BY <1>1, NewSymbols, SymbolsDiffer
    <2>2. Head(todo[a]) \in begun
      BY <1>1, FirstToDo DEF Once
    <2> QED
      BY <2>1, <2>2 DEF InTurn
  <1>2. ASSUME NEW a \in Appenders, WriteRest(a) PROVE f \in begun'
    <2>1. todo[a] # <<>> /\ Wrote(a, 3 - sent[a]) /\ begun' = begun
      BY <1>2, RestWrites
    <2>2. 3 - sent[a] \in 1..(3 - sent[a])
      BY <2>1, FirstToDo
    <2> QED
      BY <1>1, <2>1, <2>2
  <1>3. ASSUME NEW a \in Appenders, WritePart(a) PROVE f \in begun'
    <2>1. /\ todo[a] # <<>> /\ begun' = begun
          /\ \E k \in 1..(2 - sent[a]) : Wrote(a, k)
      BY <1>3, PartWrites
    <2>2. PICK k \in 1..(2 - sent[a]) : Wrote(a, k)
      BY <2>1
    <2>3. k \in 1..(3 - sent[a])
      BY <2>1, FirstToDo
    <2> QED
      BY <1>1, <2>1, <2>2, <2>3
  <1>4. ASSUME NEW a \in Appenders, Begin(a)
        PROVE  /\ f \in begun'
               /\ \A b \in Appenders : \A k \in DOMAIN todo'[b] :
                    todo'[b][k] = f =>
                      /\ k = 1 /\ sent'[b] > 0
                      /\ log'[m] = <<f, "tail">> => sent'[b] = 2
    <2>1. PICK events \in Seq(Events) :
            /\ todo' = [todo EXCEPT ![a] = events]
            /\ \A k \in DOMAIN events : events[k] \notin begun
            /\ begun' = begun \cup {events[k] : k \in DOMAIN events}
            /\ UNCHANGED <<log, sent>>
      BY <1>4, Begins
    <2>2. f \in begun
      BY <2>1 DEF InTurn
    <2>3. ASSUME NEW b \in Appenders, NEW k \in DOMAIN todo'[b], todo'[b][k] = f
          PROVE  b # a /\ todo'[b] = todo[b]
      BY <2>1, <2>2, <2>3 DEF LogTypes
    <2> QED
      BY <2>1, <2>2, <2>3 DEF InTurn
  <1>5. ASSUME NEW a \in Appenders, GiveUp(a)
        PROVE  /\ f \in begun'
               /\ \A b \in Appenders : \A k \in DOMAIN todo'[b] :
                    todo'[b][k] = f =>
                      /\ k = 1 /\ sent'[b] > 0
                      /\ log'[m] = <<f, "tail">> => sent'[b] = 2
    <2>1. /\ todo' = [todo EXCEPT ![a] = <<>>] /\ sent' = [sent EXCEPT ![a] = 0]
          /\ UNCHANGED <<log, begun>>
      BY <1>5, GivesUp
    <2>2. ASSUME NEW b \in Appenders, NEW k \in DOMAIN todo'[b]
          PROVE  b # a /\ todo'[b] = todo[b] /\ sent'[b] = sent[b]
      BY <2>1, <2>2 DEF LogTypes
    <2> QED
      BY <2>1, <2>2 DEF InTurn
  <1>6. CASE UNCHANGED logVars
    BY <1>6 DEF InTurn, logVars
  <1>7. \/ \E a \in Appenders : Begin(a) \/ WriteRest(a) \/ WritePart(a) \/ GiveUp(a)
        \/ UNCHANGED logVars
    BY DEF LogNext
  <1>8. ASSUME NEW a \in Appenders, WriteRest(a),
               NEW b \in Appenders, NEW k \in DOMAIN todo'[b], todo'[b][k] = f
        PROVE  k = 1 /\ sent'[b] > 0 /\ (log'[m] = <<f, "tail">> => sent'[b] = 2)
    BY <1>8, RestTurn
  <1>9. ASSUME NEW a \in Appenders, WritePart(a),
               NEW b \in Appenders, NEW k \in DOMAIN todo'[b], todo'[b][k] = f
        PROVE  k = 1 /\ sent'[b] > 0 /\ (log'[m] = <<f, "tail">> => sent'[b] = 2)
    BY <1>9, PartTurn
  <1> QED
    BY <1>2, <1>3, <1>4, <1>5, <1>6, <1>7, <1>8, <1>9

LEMMA LinesPersist ==
  ASSUME LogTypes, NEW a, NEW k \in Nat, Wrote(a, k), cuts \subseteq cuts'
  PROVE  /\ \A i : (i = 0 \/ i \in DOMAIN log) /\ BeginsAfter(i) => BeginsAfter(i)'
         /\ \A e : (\E i \in DOMAIN log : LineAt(i, e) /\ BeginsAfter(i - 1))
                     => \E i \in DOMAIN log' : LineAt(i, e)' /\ BeginsAfter(i - 1)'
  <1>1. /\ Len(log) \in Nat /\ Len(log') = Len(log) + k
        /\ DOMAIN log = 1..Len(log) /\ DOMAIN log' = 1..(Len(log) + k)
        /\ \A i \in DOMAIN log : i \in DOMAIN log' /\ log'[i] = log[i]
    BY LogGrows
  <1>2. ASSUME NEW i, i = 0 \/ i \in DOMAIN log, BeginsAfter(i) PROVE BeginsAfter(i)'
    <2>1. i = 0 \/ log'[i] = log[i]
      BY <1>1, <1>2
    <2> QED
      BY <1>2, <2>1 DEF BeginsAfter
  <1>3. ASSUME NEW e, NEW i \in DOMAIN log, LineAt(i, e), BeginsAfter(i - 1)
        PROVE  i \in DOMAIN log' /\ LineAt(i, e)' /\ BeginsAfter(i - 1)'
    <2>1. /\ i \in 1..Len(log) - 2
          /\ log[i] = <<e, "head">> /\ log[i + 1] = <<e, "tail">> /\ log[i + 2] = Newline
      BY <1>3 DEF LineAt
    <2>2. /\ i \in DOMAIN log /\ i + 1 \in DOMAIN log /\ i + 2 \in DOMAIN log
          /\ i \in 1..Len(log') - 2 /\ (i - 1 = 0 \/ i - 1 \in DOMAIN log)
      BY <1>1, <2>1
    <2>3. BeginsAfter(i - 1)'
      BY <1>2, <1>3, <2>2
    <2>4. log'[i] = log[i] /\ log'[i + 1] = log[i + 1] /\ log'[i + 2] = log[i + 2]
      BY <1>1, <2>2
    <2>5. LineAt(i, e)'
      BY <2>1, <2>2, <2>4 DEF LineAt
    <2> QED
      BY <1>1, <2>3, <2>5
  <1> QED
    BY <1>2, <1>3

LEMMA RestFragments ==
  ASSUME LogTypes, Once, Fragments, NEW a \in Appenders, WriteRest(a)
  PROVE  Fragments'
  <1>1. /\ todo[a] # <<>> /\ Wrote(a, 3 - sent[a])
        /\ written' = Append(written, Head(todo[a]))
        /\ todo' = [todo EXCEPT ![a] = Tail(@)] /\ sent' = [sent EXCEPT ![a] = 0]
        /\ cuts' = cuts
    BY RestWrites
  <1>2. PICK p, s, e : p = Len(log) /\ s = sent[a] /\ e = Head(todo[a])
    OBVIOUS
  <1>3. s \in 0..2 /\ e \in Events /\ 3 - s \in Nat
    BY <1>1, <1>2, FirstToDo
  <1>4. p \in Nat /\ Len(log') = p + (3 - s) /\ DOMAIN log' = 1..(p + (3 - s)) /\ DOMAIN log = 1..p
    BY <1>1, <1>2, <1>3, LogGrows
  <1>5. \A i \in 1..(3 - s) : log'[p + i] = Line(e)[s + i]
    BY <1>1, <1>2 DEF Wrote
  <1>6. BeginsAfter(Len(log))'
    <2>1. 3 - s \in 1..(3 - s) /\ s + (3 - s) = 3
      BY <1>3
    <2>2. log'[Len(log')] = Newline
      BY <1>3, <1>4, <1>5, <2>1, LineSymbols
    <2> QED
      BY <2>2 DEF BeginsAfter
  <1>7. ASSUME NEW b \in Appenders, sent'[b] > 0 PROVE <<Head(todo'[b]), sent'[b]>> \in cuts'
    <2>1. sent'[a] = 0 /\ \A c \in Appenders : c # a => todo'[c] = todo[c] /\ sent'[c] = sent[c]
      BY <1>1 DEF LogTypes
    <2>2. b # a
      BY <1>7, <2>1
    <2> QED
      BY <1>1, <1>7, <2>1, <2>2 DEF Fragments
  <1>8. ASSUME NEW f \in Written' \ CutEvents'
        PROVE  \E i \in DOMAIN log' : LineAt(i, f)' /\ BeginsAfter(i - 1)'
    <2>1. f \notin CutEvents /\ (f \in Written \/ f = e)
      BY <1>1, <1>2, <1>3, <1>8, WrittenGrows DEF CutEvents
    <2>2. CASE f \in Written
      <3>1. \E i \in DOMAIN log : LineAt(i, f) /\ BeginsAfter(i - 1)
        BY <2>1, <2>2 DEF Fragments
      <3> QED
        BY <1>1, <1>2, <1>3, <3>1, LinesPersist
    <2>3. CASE f = e
      <3>1. s = 0
        <4>1. ASSUME s > 0 PROVE FALSE
          <5>1. <<e, s>> \in cuts
            BY <1>2, <4>1 DEF Fragments
          <5>2. <<e, s>>[1] = e
            OBVIOUS
          <5> QED
            BY <2>1, <2>3, <5>1, <5>2 DEF CutEvents
        <4> QED
          BY <1>3, <4>1
      <3>2. /\ log'[p + 1] = <<e, "head">> /\ log'[p + 2] = <<e, "tail">>
            /\ log'[p + 3] = Newline
        <4>1. /\ log'[p + 1] = Line(e)[1] /\ log'[p + 2] = Line(e)[2]
              /\ log'[p + 3] = Line(e)[3]
          BY <1>5, <3>1
        <4> QED
          BY <1>3, <4>1, LineSymbols
      <3>3. p + 1 \in 1..Len(log') - 2 /\ p + 1 \in DOMAIN log' /\ (p + 1) - 1 = p
        BY <1>4, <3>1
      <3>4. LineAt(p + 1, e)'
        <4>1. (p + 1) + 1 = p + 2 /\ (p + 1) + 2 = p + 3
          BY <1>4
        <4> QED
          BY <3>2, <3>3, <4>1 DEF LineAt
      <3>5. BeginsAfter(p)'
        <4>1. BeginsAfter(p) /\ (p = 0 \/ p \in DOMAIN log)
          BY <1>2, <1>4 DEF Fragments
        <4> QED
          BY <1>1, <1>2, <1>3, <4>1, LinesPersist
      <3> QED
        BY <2>3, <3>3, <3>4, <3>5
    <2> QED
      BY <2>1, <2>2, <2>3
  <1> QED
    BY <1>6, <1>7, <1>8 DEF Fragments

LEMMA PartFragments ==
  ASSUME LogTypes, Fragments, NEW a \in Appenders, WritePart(a)
  PROVE  Fragments'
  <1>1. PICK k \in 1..(2 - sent[a]) :
          /\ todo[a] # <<>> /\ Wrote(a, k) /\ sent' = [sent EXCEPT ![a] = @ + k]
          /\ cuts' = cuts \cup {<<Head(todo[a]), sent[a] + k>>}
          /\ todo' = todo /\ written' = written
    BY PartWrites
  <1>2. PICK p, s, e : p = Len(log) /\ s = sent[a] /\ e = Head(todo[a])
    OBVIOUS
  <1>3. s \in 0..1 /\ e \in Events /\ k \in 1..(2 - s) /\ k \in Nat
    BY <1>1, <1>2, FirstToDo
  <1>4. p \in Nat /\ Len(log') = p + k /\ DOMAIN log = 1..p
    BY <1>1, <1>2, <1>3, LogGrows
  <1>5. log'[p + k] = Line(e)[s + k]
    <2>1. k \in 1..k
      BY <1>3
    <2> QED
      BY <1>1, <1>2, <2>1 DEF Wrote
  <1>6. <<e, s + k>> \in cuts' /\ cuts \subseteq cuts'
    BY <1>1, <1>2
  <1>7. BeginsAfter(Len(log))'
    <2>1. CASE s + k = 1
      <3>1. log'[Len(log')] = <<e, "head">>
        BY <1>3, <1>4, <1>5, <2>1, LineSymbols
      <3> QED
        BY <1>3, <1>6, <2>1, <3>1 DEF BeginsAfter
    <2>2. CASE s + k = 2
      <3>1. log'[Len(log')] = <<e, "tail">>
        BY <1>3, <1>4, <1>5, <2>2, LineSymbols
      <3> QED
        BY <1>3, <1>6, <2>2, <3>1 DEF BeginsAfter
    <2> QED
      BY <1>3, <2>1, <2>2
  <1>8. ASSUME NEW b \in Appenders, sent'[b] > 0 PROVE <<Head(todo'[b]), sent'[b]>> \in cuts'
    <2>1. sent'[a] = s + k /\ \A c \in Appenders : c # a => sent'[c] = sent[c]
      BY <1>1, <1>2 DEF LogTypes
    <2>2. CASE b = a
      BY <1>1, <1>2, <1>6, <2>1, <2>2
    <2>3. CASE b # a
      BY <1>1, <1>6, <1>8, <2>1, <2>3 DEF Fragments
    <2> QED
      BY <2>2, <2>3
  <1>9. ASSUME NEW f \in Written' \ CutEvents'
        PROVE  \E i \in DOMAIN log' : LineAt(i, f)' /\ BeginsAfter(i - 1)'
    <2>1. f \in Written \ CutEvents
      BY <1>1, <1>6, <1>9 DEF CutEvents, Written
    <2>2. \E i \in DOMAIN log : LineAt(i, f) /\ BeginsAfter(i - 1)
      BY <2>1 DEF Fragments
    <2> QED
      BY <1>1, <1>3, <1>6, <2>2, LinesPersist
  <1> QED
    BY <1>7, <1>8, <1>9 DEF Fragments

LEMMA NextFragments ==
  ASSUME LogTypes, Once, Fragments, [LogNext]_logVars
  PROVE  Fragments'
  <1>1. ASSUME UNCHANGED <<log, written, cuts>>,
               \A b \in Appenders : sent'[b] > 0 => sent'[b] = sent[b] /\ todo'[b] = todo[b]
        PROVE  Fragments'
    <2>1. BeginsAfter(Len(log))'
      BY <1>1 DEF Fragments, BeginsAfter
    <2>2. \A b \in Appenders : sent'[b] > 0 => <<Head(todo'[b]), sent'[b]>> \in cuts'
      BY <1>1 DEF Fragments
    <2>3. \A e \in Written' \ CutEvents' : \E i \in DOMAIN log' : LineAt(i, e)' /\ BeginsAfter(i - 1)'
      <3>1. Written' = Written /\ CutEvents' = CutEvents
        BY <1>1 DEF Written, CutEvents
      <3>2. \A i, e : (LineAt(i, e)' <=> LineAt(i, e)) /\ (BeginsAfter(i - 1)' <=> BeginsAfter(i - 1))
        BY <1>1 DEF LineAt, BeginsAfter
      <3> QED
        BY <1>1, <3>1, <3>2 DEF Fragments
    <2> QED
      BY <2>1, <2>2, <2>3 DEF Fragments
  <1>2. ASSUME NEW a \in Appenders, Begin(a) PROVE Fragments'
    <2>1. PICK events \in Seq(Events) :
            /\ todo[a] = <<>> /\ todo' = [todo EXCEPT ![a] = events]
            /\ UNCHANGED <<log, sent, written, cuts>>
      BY <1>2, Begins
    <2>2. ASSUME NEW b \in Appenders, sent'[b] > 0 PROVE todo'[b] = todo[b]
      <3>1. b # a
        BY <2>1, <2>2 DEF LogTypes
      <3> QED
        BY <2>1, <3>1 DEF LogTypes
    <2> QED
      BY <1>1, <2>1, <2>2
  <1>3. ASSUME NEW a \in Appenders, GiveUp(a) PROVE Fragments'
    <2>1. /\ todo' = [todo EXCEPT ![a] = <<>>] /\ sent' = [sent EXCEPT ![a] = 0]
          /\ UNCHANGED <<log, written, cuts>>
      BY <1>3, GivesUp
    <2>2. ASSUME NEW b \in Appenders, sent'[b] > 0
          PROVE  sent'[b] = sent[b] /\ todo'[b] = todo[b]
      BY <2>1, <2>2 DEF LogTypes
    <2> QED
      BY <1>1, <2>1, <2>2
  <1>4. CASE UNCHANGED logVars
    BY <1>1, <1>4 DEF logVars
  <1> QED
    BY <1>2, <1>3, <1>4, RestFragments, PartFragments DEF LogNext

\* An event off its line is one that was cut, or the one its fragment ran into.
LEMMA FewSpoiled ==
  ASSUME LogTypes, Single, Fragments
  PROVE  DamageIsLocal
  <1> DEFINE Off == {e \in Written : ~OnItsLine(e)}
             Hit == Off \ CutEvents
             Stop(c) == <<c[1], IF c[2] = 1 THEN "head" ELSE "tail">>
             Runs(c, e) == \E i \in DOMAIN log :
                             LineAt(i, e) /\ i - 1 \in DOMAIN log /\ log[i - 1] = Stop(c)
             f == [e \in Hit |-> CHOOSE c \in cuts : Runs(c, e)]
  <1>1. IsFiniteSet(cuts) /\ Len(log) \in Nat /\ DOMAIN log = 1..Len(log)
    BY DEF LogTypes
  <1>2. IsFiniteSet(CutEvents)
    <2> DEFINE g == [c \in cuts |-> c[1]]
    <2>1. g \in Surjection(cuts, CutEvents)
      BY DEF Surjection, CutEvents
    <2> HIDE DEF g
    <2> QED
      BY <1>1, <2>1, FS_Surjection
  <1>3. ASSUME NEW e \in Hit PROVE \E c \in cuts : Runs(c, e)
    <2>1. e \in Written \ CutEvents /\ ~OnItsLine(e)
      OBVIOUS
    <2>2. PICK i \in DOMAIN log : LineAt(i, e) /\ BeginsAfter(i - 1)
      BY <2>1 DEF Fragments
    <2>3. e \in Events
      BY <2>1 DEF Written, LogTypes
    <2>4. i \in 1..Len(log) - 2 /\ SubSeq(log, i, i + 2) = Line(e)
      <3>1. /\ i \in 1..Len(log) - 2
            /\ log[i] = <<e, "head">> /\ log[i + 1] = <<e, "tail">> /\ log[i + 2] = Newline
        BY <2>2 DEF LineAt
      <3>2. /\ Len(SubSeq(log, i, i + 2)) = 3 /\ SubSeq(log, i, i + 2) \in Seq(Symbols)
            /\ SubSeq(log, i, i + 2)[1] = log[i] /\ SubSeq(log, i, i + 2)[2] = log[i + 1]
            /\ SubSeq(log, i, i + 2)[3] = log[i + 2]
        <4>1. \A m \in i..i + 2 : log[m] \in Symbols
          BY <1>1, <3>1 DEF LogTypes
        <4>2. i \in Int /\ i + 2 \in Int /\ i <= i + 2 /\ (i + 2) - i + 1 = 3
          BY <1>1, <3>1
        <4>3. /\ SubSeq(log, i, i + 2) \in Seq(Symbols)
              /\ Len(SubSeq(log, i, i + 2)) = 3
              /\ \A m \in 1..3 : SubSeq(log, i, i + 2)[m] = log[i + m - 1]
          BY <4>1, <4>2, SubSeqProperties
        <4>4. i + 1 - 1 = i /\ i + 2 - 1 = i + 1 /\ i + 3 - 1 = i + 2
          BY <4>2
        <4>5. 1 \in 1..3 /\ 2 \in 1..3 /\ 3 \in 1..3
          OBVIOUS
        <4> QED
          BY <4>3, <4>4, <4>5
      <3>3. /\ Line(e) \in Seq(Symbols) /\ Len(Line(e)) = 3
            /\ Line(e)[1] = <<e, "head">> /\ Line(e)[2] = <<e, "tail">> /\ Line(e)[3] = Newline
        BY <2>3, LineSymbols
      <3>4. ASSUME NEW s \in Seq(Symbols), NEW t \in Seq(Symbols), Len(s) = 3, Len(t) = 3,
                   s[1] = t[1], s[2] = t[2], s[3] = t[3]
            PROVE  s = t
        BY <3>4
      <3> QED
        BY <3>1, <3>2, <3>3, <3>4
    <2>5. i # 1 /\ log[i - 1] # Newline
      <3>1. Len(Line(e)) = 3
        BY <2>3, LineSymbols
      <3>2. i \in 1..Len(log) + 1 - 3 /\ i + 3 - 1 = i + 2
        BY <1>1, <2>4
      <3> QED
        BY <2>1, <2>4, <3>1, <3>2 DEF OnItsLine
    <2>6. i - 1 \in DOMAIN log /\ i - 1 # 0
      BY <1>1, <2>4, <2>5
    <2>7. PICK h \in Events : \/ log[i - 1] = <<h, "head">> /\ <<h, 1>> \in cuts
                              \/ log[i - 1] = <<h, "tail">> /\ <<h, 2>> \in cuts
      BY <2>2, <2>5, <2>6 DEF BeginsAfter
    <2>8. Stop(<<h, 1>>) = <<h, "head">> /\ Stop(<<h, 2>>) = <<h, "tail">>
      OBVIOUS
    <2> HIDE DEF Stop
    <2> QED
      BY <2>2, <2>6, <2>7, <2>8
  <1>4. \A e \in Hit : f[e] \in cuts /\ Runs(f[e], e)
    <2> HIDE DEF Runs, Hit
    <2> QED
      BY <1>3
  <1>5. ASSUME NEW e \in Hit, NEW h \in Hit, f[e] = f[h] PROVE e = h
    <2>1. PICK c : c = f[e]
      OBVIOUS
    <2>2. Runs(c, e) /\ Runs(c, h)
      <3> HIDE DEF Runs, f
      <3> QED
        BY <1>4, <1>5, <2>1
    <2>3. PICK i \in DOMAIN log : LineAt(i, e) /\ i - 1 \in DOMAIN log /\ log[i - 1] = Stop(c)
      BY <2>2
    <2>4. PICK j \in DOMAIN log : LineAt(j, h) /\ j - 1 \in DOMAIN log /\ log[j - 1] = Stop(c)
      BY <2>2
    <2>5. Stop(c) # Newline
      BY SymbolsDiffer
    <2>6. i - 1 = j - 1
      BY <2>3, <2>4, <2>5 DEF Single
    <2>7. i = j
      BY <1>1, <2>3, <2>4, <2>6
    <2>8. log[i] = <<e, "head">> /\ log[j] = <<h, "head">>
      BY <2>3, <2>4 DEF LineAt
    <2> QED
      BY <2>7, <2>8, SymbolsDiffer
  <1>6. f \in Injection(Hit, cuts)
    <2>1. f \in [Hit -> cuts]
      <3> HIDE DEF Hit, Runs
      <3> QED
        BY <1>3
    <2> HIDE DEF f, Hit
    <2> QED
      BY <1>5, <2>1 DEF Injection, IsInjective
  <1>7. IsFiniteSet(Hit) /\ Cardinality(Hit) <= Cardinality(cuts)
    <2> HIDE DEF f, Hit
    <2> QED
      BY <1>1, <1>6, FS_Injection
  <1>8. Off \subseteq Hit \cup CutEvents
    OBVIOUS
  <1> HIDE DEF Off, Hit
  <1>9. /\ IsFiniteSet(Hit \cup CutEvents)
        /\ Cardinality(Hit \cup CutEvents)
             = Cardinality(Hit) + Cardinality(CutEvents) - Cardinality(Hit \cap CutEvents)
    BY <1>2, <1>7, FS_Union
  <1>10. Cardinality(Hit \cap CutEvents) \in Nat
    <2>1. IsFiniteSet(Hit \cap CutEvents)
      BY <1>7, FS_Subset
    <2> QED
      BY <2>1, FS_CardinalityType
  <1>11. Cardinality(Off) <= Cardinality(Hit \cup CutEvents) /\ IsFiniteSet(Off)
    BY <1>8, <1>9, FS_Subset
  <1>12. /\ Cardinality(Off) \in Nat /\ Cardinality(Hit) \in Nat /\ Cardinality(cuts) \in Nat
         /\ Cardinality(CutEvents) \in Nat
    BY <1>1, <1>2, <1>7, <1>11, FS_CardinalityType
  <1>13. Cardinality(Off) <= Cardinality(cuts) + Cardinality(CutEvents)
    BY <1>7, <1>9, <1>10, <1>11, <1>12
  <1> QED
    BY <1>13 DEF DamageIsLocal, Off, CutEvents

LEMMA FirstFragments == LogInit => Single /\ InTurn /\ Fragments
  <1> SUFFICES ASSUME LogInit PROVE Single /\ InTurn /\ Fragments
    OBVIOUS
  <1>1. /\ log = <<>> /\ written = <<>> /\ \A a \in Appenders : sent[a] = 0
    BY DEF LogInit
  <1>2. DOMAIN log = {} /\ Len(log) = 0 /\ Written = {}
    BY <1>1 DEF Written
  <1> QED
    BY <1>1, <1>2 DEF Single, InTurn, Fragments, BeginsAfter

LEMMA LogStays == LogSpec => [](LogTypes /\ Once /\ Single /\ InTurn /\ Fragments)
  <1>1. LogTypes /\ Once /\ Single /\ InTurn /\ Fragments /\ [LogNext]_logVars
          => (LogTypes /\ Once /\ Single /\ InTurn /\ Fragments)'
    BY NextTypes, NextOnce, NextSingle, NextTurn, NextFragments
  <1>2. LogInit => LogTypes /\ Once /\ Single /\ InTurn /\ Fragments
    BY InitTypesOnce, FirstFragments
  <1> QED
    BY <1>1, <1>2, PTL DEF LogSpec

\* Store.Append, Store.Events: each write that stops half-way takes at most two
\* events off their lines, its own and the one that its fragment runs into.
THEOREM DamageStaysLocal == LogSpec => []DamageIsLocal
  <1>1. LogTypes /\ Once /\ Single /\ InTurn /\ Fragments => DamageIsLocal
    BY FewSpoiled
  <1> QED
    BY <1>1, LogStays, PTL

=============================================================================
