----------------------------- MODULE MCReaders -----------------------------
(***************************************************************************)
(* Instances of Listing and AuditLog.  The two share no variable, and no   *)
(* property looks at both, so they are explored one at a time: while one   *)
(* runs the other stays where it began.                                    *)
(***************************************************************************)
EXTENDS Listing, AuditLog, TLC

Init == ListInit /\ LogInit

\* One listing is enough: it changes nothing the next would find, and nothing
\* that is said of it changes when it is over.
Over == scan.at \in {"done", "failed"}

Next ==
  \/ log = <<>> /\ begun = {} /\ ~Over /\ ListNext /\ UNCHANGED logVars
  \/ scan = NoScan /\ clock = 0 /\ Drafts = {} /\ bad = {} /\ files = [id \in Ids |-> None]
     /\ LogNext /\ UNCHANGED listVars

Spec == Init /\ [][Next]_<<listVars, logVars>>

Calls == Permutations(Appenders) \cup Permutations(Requests) \cup Permutations(Writers)

\* What is looked at of a record here: no step and no property looks at when it
\* was decided, by whom and why, and only the order of the rows at created_at.
Brief(r) == IF r = None THEN None ELSE <<r.status, r.expires>>

View ==
  <<[id \in Ids |-> Brief(files[id])],
    [w \in Writers |-> IF Free(w) THEN None ELSE <<draft[w][1], Brief(draft[w][2])>>],
    [scan EXCEPT !.rec = Brief(@)], bad, clock, seen, logVars>>

=============================================================================
