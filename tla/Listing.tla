------------------------------ MODULE Listing ------------------------------
(***************************************************************************)
(* Store.List, for `list` and GET /v1/requests: it walks the directory and *)
(* reads one file after the other, without the mutex, while the processes  *)
(* on the inbox, a server and CLI calls, file and decide requests.  Module *)
(* Inbox has their steps in full; here a call is what a listing can meet   *)
(* of it: a temporary file, then a rename.  The mutex keeps the calls of   *)
(* one process apart and no others, so two processes may both read a       *)
(* request as pending and the later rename replaces the earlier verdict.   *)
(*                                                                         *)
(* A process may die between the two, the disk may fail under the listing, *)
(* and the directory may hold *.json files that are no request.            *)
(***************************************************************************)
EXTENDS Records, Sequences, FiniteSets, Functions

CONSTANTS
  Writers,      \* processes that file and decide: each a Store with its mutex
  TTLs,         \* time-to-live values of a submission
  Strays,       \* names of *.json files that are no request
  Filters,      \* statuses, or "all", that a listing may ask for
  DiskFaults,   \* whether reading the directory or a file may fail
  MaxTime       \* bound: the clock stops there

\* A name stands for the place it has in ReadDir's order.
ASSUME NameAssumption == Ids \cup Strays \subseteq Nat /\ Ids \cap Strays = {}

ASSUME ListingAssumption ==
  /\ None \notin Nat \cup Request \cup (Ids \X Request)
  /\ TTLs \subseteq Nat \ {0}
  /\ Filters \subseteq Statuses \cup {"all"}
  /\ DiskFaults \in BOOLEAN
  /\ MaxTime \in Nat

VARIABLES
  files,    \* requests/<id>.json, or None
  created,  \* created_at of each record
  bad,      \* the *.json names in the directory that hold no request
  draft,    \* <<id, record>> in the temporary file of each process's call
  clock,
  scan,     \* the listing
  seen      \* history: the statuses each request had while it was under way

store == <<files, created, bad>>
listVars == <<store, draft, clock, scan, seen>>

Exists(id) == files[id] # None

StatusOn(id) == IF Exists(id) THEN StatusAt(files[id], clock) ELSE "absent"

NoScan == [at |-> "idle", filter |-> "all", left |-> {}, rec |-> None, rows |-> <<>>,
           fault |-> FALSE]    \* history: the disk failed under this listing

UnderWay == scan.at \in {"dir", "next", "check"}

\* What every step beside the listing adds to the history.
Watch ==
  seen' = [id \in Ids |-> IF UnderWay THEN seen[id] \cup {StatusOn(id)'} ELSE seen[id]]

ListInit ==
  /\ files   = [id \in Ids |-> None]
  /\ created = [id \in Ids |-> 0]
  /\ bad     \in SUBSET Strays
  /\ draft   = [w \in Writers |-> None]
  /\ clock   = 0
  /\ scan    = NoScan
  /\ seen    = [id \in Ids |-> {}]

-----------------------------------------------------------------------------
\* Beside the listing: Add, Decide, a crash, time.

\* Mutant: the record is written under its final name.
DraftInPlace(id) == bad' = bad \cup {id}

\* CreateTemp, Write, Close: a name no reader looks at.
Draft(id) == UNCHANGED bad

\* s.mu: a process has one file under way at a time.
Free(w) == draft[w] = None

Drafts == {draft[w] : w \in Writers} \ {None}

\* Ids are random: any unused one, in any order with the others.
Add(w) ==
  /\ Free(w)
  /\ \E id \in Ids, effect \in Effects, expires \in {clock + ttl : ttl \in TTLs} \cup {None} :
       /\ ~Exists(id)
       /\ \A d \in Drafts : d[1] # id
       /\ draft'   = [draft EXCEPT ![w] = <<id, NewRequest(effect, NoReason, expires, clock)>>]
       /\ created' = [created EXCEPT ![id] = clock]
       /\ Draft(id)
  /\ UNCHANGED <<files, clock, scan>>
  /\ Watch

Decide(w) ==
  /\ Free(w)
  /\ \E id \in Ids, verdict \in Verdicts :
       /\ StatusOn(id) = "pending"
       /\ draft' = [draft EXCEPT ![w] = <<id, Resolved(files[id], verdict, NoReason, clock)>>]
       /\ Draft(id)
  /\ UNCHANGED <<files, created, clock, scan>>
  /\ Watch

Rename(w) ==
  /\ draft[w] # None
  /\ files' = [files EXCEPT ![draft[w][1]] = draft[w][2]]
  /\ bad'   = bad \ {draft[w][1]}
  /\ draft' = [draft EXCEPT ![w] = None]
  /\ UNCHANGED <<created, clock, scan>>
  /\ Watch

\* The process dies, or write() fails: no file.
Die(w) ==
  /\ draft[w] # None
  /\ draft' = [draft EXCEPT ![w] = None]
  /\ UNCHANGED <<store, clock, scan>>
  /\ Watch

Tick ==
  /\ clock < MaxTime
  /\ clock' = clock + 1
  /\ UNCHANGED <<store, draft, scan>>
  /\ Watch

-----------------------------------------------------------------------------
\* Store.List.

Look(next) == scan' = next /\ UNCHANGED <<store, draft, clock>>

Failed == [scan EXCEPT !.at = "failed", !.fault = TRUE]

ListBegin ==
  /\ scan.at \in {"idle", "done", "failed"}
  /\ \E filter \in Filters :
       Look([NoScan EXCEPT !.at = "dir", !.filter = filter,
                           !.left = {id \in Ids : Exists(id)} \cup bad])
  /\ seen' = [id \in Ids |-> {StatusOn(id)}]

\* ReadDir sees what was there when it began, and perhaps what came since.
ListDir ==
  /\ scan.at = "dir"
  /\ \E new \in SUBSET {id \in Ids : Exists(id)} :
       Look([scan EXCEPT !.at = "next", !.left = @ \cup new])
  /\ UNCHANGED seen

\* ReadDir, or the ReadFile of Get, failed.
ListFails ==
  /\ DiskFaults
  /\ \/ scan.at = "dir"
     \/ scan.at = "next" /\ scan.left # {}
  /\ Look(Failed)
  /\ UNCHANGED seen

FirstOf(names) == CHOOSE n \in names : \A m \in names : n <= m

\* Get: a file that cannot be read as a request ends the listing.
ListRead ==
  /\ scan.at = "next" /\ scan.left # {}
  /\ LET id == FirstOf(scan.left) IN
       \/ id \in bad /\ Look([scan EXCEPT !.at = "failed"])
       \/ id \notin bad /\ Look([scan EXCEPT !.at = "check", !.rec = files[id]])
  /\ UNCHANGED seen

\* Mutant: the row shows the stored status.
ReadAsStored(rec) == rec.status

\* Get's applyExpiry.
ReadAs(rec) == StatusAt(rec, clock)

\* Mutant: the filter is put to the stored status.
WantedAsStored(rec) == scan.filter \in {"all", rec.status}

Wanted(rec) == scan.filter \in {"all", ReadAs(rec)}

ListCheck ==
  /\ scan.at = "check"
  /\ LET id  == FirstOf(scan.left)
         row == [id |-> id, status |-> ReadAs(scan.rec)]
     IN Look([scan EXCEPT !.at = "next", !.left = @ \ {id}, !.rec = None,
                          !.rows = IF Wanted(scan.rec) THEN Append(@, row) ELSE @])
  /\ UNCHANGED seen

Before(r, s) ==
  \/ created[r.id] < created[s.id]
  \/ created[r.id] = created[s.id] /\ r.id < s.id

Sorted(rows) == \A j, k \in DOMAIN rows : j < k => ~Before(rows[k], rows[j])

\* sort.Slice: the same rows, in that order.
ListSort ==
  /\ scan.at = "next" /\ scan.left = {}
  /\ \E from \in Bijection(DOMAIN scan.rows, DOMAIN scan.rows) :
       LET rows == [k \in DOMAIN scan.rows |-> scan.rows[from[k]]]
       IN  Sorted(rows) /\ Look([scan EXCEPT !.at = "done", !.rows = rows])
  /\ UNCHANGED seen

ListNext == \/ \E w \in Writers : Add(w) \/ Decide(w) \/ Rename(w) \/ Die(w)
            \/ Tick
            \/ ListBegin \/ ListDir \/ ListFails \/ ListRead \/ ListCheck \/ ListSort

ListSpec == ListInit /\ [][ListNext]_listVars

-----------------------------------------------------------------------------
Row == [id : Ids, status : Statuses]

ListTypeOK ==
  /\ files   \in [Ids -> Request \cup {None}]
  /\ created \in [Ids -> Nat]
  /\ bad     \subseteq Strays
  /\ draft   \in [Writers -> (Ids \X Request) \cup {None}]
  /\ clock   \in Nat
  /\ scan.at \in {"idle", "dir", "next", "check", "done", "failed"}
  /\ scan.left \subseteq Ids \cup Strays
  /\ scan.rec  \in Request \cup {None}
  /\ scan.rows \in Seq(Row)
  /\ seen    \in [Ids -> SUBSET (Statuses \cup {"absent"})]

Shown == {scan.rows[k] : k \in DOMAIN scan.rows}

Asked == IF scan.filter = "all" THEN Statuses ELSE {scan.filter}

\* Whatever is filed or decided meanwhile, and by however many processes, a
\* request that is there from the beginning of a listing and has the status
\* asked for all the while is in it (Store.List reads without the mutex).
ListMissesNone ==
  scan.at = "done" =>
    \A id \in Ids : seen[id] \subseteq Asked => \E row \in Shown : row.id = id

\* A row shows a status its request had while the listing was under way.  Only
\* "expired" may be said of one that never was, when it was decided between its
\* file and the clock being read; its time was up then.
ListIsCurrent ==
  scan.at = "done" =>
    \A row \in Shown :
      \/ row.status \in seen[row.id]
      \/ /\ row.status = "expired" /\ "pending" \in seen[row.id]
         /\ clock > files[row.id].expires

\* Neither a writer nor its death makes a listing fail (queue.go: "a crash
\* never leaves a half-written record"): the disk does, or a stray file.
OnlyStraysFailList == scan.at = "failed" => scan.fault \/ bad \cap Strays # {}

=============================================================================
