---------------------------- MODULE ApprovalQueue ----------------------------
(***************************************************************************)
(* What an approval queue promises, with nothing said of files, mutexes,   *)
(* clocks or polling: a request gets one verdict, for good, and whatever   *)
(* is logged of it or answered as a verdict is that verdict.  An answer    *)
(* of "expired" is a caller's own business: it settles nothing.            *)
(***************************************************************************)
CONSTANT Ids

VARIABLES
  verdict,   \* "absent", "open" or the verdict, for each id
  log,       \* the <<id, verdict>> pairs made public
  heard      \* the <<id, answer>> pairs callers were given

vars == <<verdict, log, heard>>

Final == {"approved", "denied"}

Init ==
  /\ verdict = [id \in Ids |-> "absent"]
  /\ log = {}
  /\ heard = {}

Enqueue(id) ==
  /\ verdict[id] = "absent"
  /\ \E v \in {"open"} \cup Final : verdict' = [verdict EXCEPT ![id] = v]
  /\ UNCHANGED <<log, heard>>

Settle(id) ==
  /\ verdict[id] = "open"
  /\ \E v \in Final : verdict' = [verdict EXCEPT ![id] = v]
  /\ UNCHANGED <<log, heard>>

\* The verdict is logged, answered to a caller, or both at once.
Publish(id) ==
  /\ verdict[id] \in Final
  /\ log'   \in {log, log \cup {<<id, verdict[id]>>}}
  /\ heard' \in {heard, heard \cup {<<id, verdict[id]>>}}
  /\ UNCHANGED verdict

GiveUp(id) ==
  /\ verdict[id] # "absent"
  /\ heard' = heard \cup {<<id, "expired">>}
  /\ UNCHANGED <<verdict, log>>

Next == \E id \in Ids : Enqueue(id) \/ Settle(id) \/ Publish(id) \/ GiveUp(id)

Spec == Init /\ [][Next]_vars

=============================================================================
