------------------------------- MODULE Records -------------------------------
(***************************************************************************)
(* The records askfirst keeps on disk: one request document per id, and    *)
(* the audit events.  The payload of a request (agent, action, params,     *)
(* created_at, rule text) is written once by Submit and never looked at    *)
(* again by the queue, so it is abstracted away; what is kept is what      *)
(* Decide, expiry and the audit trail read or write.  A nil pointer        *)
(* (expires_at, decided_at) and a missing file are None.                   *)
(***************************************************************************)
EXTENDS Naturals

CONSTANTS
  Ids,           \* request identifiers
  Reasons,       \* explanations a rule or a reviewer may give
  NoReason,      \* the empty reason
  None           \* nil, or no file

Verdicts == {"approved", "denied"}
Statuses == Verdicts \cup {"pending", "expired"}
Effects  == {"allow", "deny", "ask"}

AnyReason == Reasons \cup {NoReason}
OptTime   == Nat \cup {None}

Fields ==
  [status    : Verdicts \cup {"pending"},
   expires   : OptTime,
   decidedAt : OptTime,
   decidedBy : {"human", "policy", ""},
   reason    : AnyReason]

Decided(r) == r.status \in Verdicts

\* decided_at and decided_by are filled in with the verdict, never apart from it.
Request ==
  {r \in Fields : /\ Decided(r) <=> r.decidedAt # None
                  /\ Decided(r) <=> r.decidedBy # ""}

(***************************************************************************)
(* The names of decision events carry the actor: auto_* is the policy's,   *)
(* the plain ones are a human's.  Nothing compares the time of a submitted *)
(* line, so it is left out (None).                                         *)
(***************************************************************************)
HumanEvents == Verdicts
AutoEvents  == {"auto_approved", "auto_denied"}

Event ==
  [event  : {"submitted"} \cup HumanEvents \cup AutoEvents,
   id     : Ids,
   time   : OptTime,
   reason : AnyReason]

\* Mutant: a deadline counts as passed when it is reached.
StatusAtDeadline(r, now) ==
  IF r.status = "pending" /\ r.expires # None /\ now >= r.expires
  THEN "expired"
  ELSE r.status

\* Mutant: silence until the deadline counts as a denial.
StatusAtDenies(r, now) ==
  IF r.status = "pending" /\ r.expires # None /\ now > r.expires
  THEN "denied"
  ELSE r.status

\* The status a reader sees at time now; the file itself keeps "pending".
StatusAt(r, now) ==
  IF r.status = "pending" /\ r.expires # None /\ now > r.expires
  THEN "expired"
  ELSE r.status

StatusOfEffect(effect) ==
  CASE effect = "allow" -> "approved"
    [] effect = "deny"  -> "denied"
    [] OTHER            -> "pending"

\* The record inbox.Submit hands to the store.
NewRequest(effect, reason, expires, now) ==
  LET auto == effect \in {"allow", "deny"}
  IN  [status    |-> StatusOfEffect(effect),
       expires   |-> expires,
       decidedAt |-> IF auto THEN now ELSE None,
       decidedBy |-> IF auto THEN "policy" ELSE "",
       reason    |-> reason]

\* Mutant: the verdict is written without decided_at.
ResolvedUnstamped(r, verdict, note, now) ==
  [r EXCEPT !.status = verdict, !.decidedBy = "human"]

\* Mutant: deciding also clears the expiry.
ResolvedForGood(r, verdict, note, now) ==
  [r EXCEPT !.status = verdict, !.decidedAt = now, !.decidedBy = "human", !.expires = None]

\* The record Store.Decide writes back; an empty note keeps the ask context.
Resolved(r, verdict, note, now) ==
  [r EXCEPT !.status    = verdict,
            !.decidedAt = now,
            !.decidedBy = "human",
            !.reason    = IF note = NoReason THEN @ ELSE note]

EventOf(r) ==
  IF r.decidedBy = "human" THEN r.status
  ELSE IF r.status = "approved" THEN "auto_approved" ELSE "auto_denied"

=============================================================================
