------------------------------ MODULE MCDoors ------------------------------
(***************************************************************************)
(* A small instance of Doors: the starter policy allows one action, asks   *)
(* about another and denies the third, the empty one asks about all;       *)
(* durations have four bits.  To keep it small, calls follow the start-up: *)
(* whatever policy, directory and server it can leave behind, with the     *)
(* server stopping at any time.  An answer is heard before anything else   *)
(* happens, and a call that is answered at once has no other beside it:    *)
(* neither meets the others.  Time passes where the starter policy is on   *)
(* file and the server, if there is one, goes by it and asks for no token  *)
(* (policy and token are looked at only as a call begins), and calls begin *)
(* beside others, one of which decides, where there is one.  Submissions   *)
(* begin at time 0.                                                        *)
(***************************************************************************)
EXTENDS Doors, TLC

Mixed  == ("read" :> "allow") @@ ("write" :> "ask") @@ ("drop" :> "deny")
Asking == [a \in Actions |-> "ask"]
SomePolicies == {Mixed, Asking}

\* Three seconds fit; four wrap to a negative duration, and minus four do not fit.
SomeTTLs == {-4, -1, 0, 1, 4}

Alike == Permutations(Setups) \cup Permutations(Callers)

Idle == {c \in Callers : call[c].at = "idle"}

Fresh == clock = 0 /\ Idle = Callers /\ requests = [id \in Ids |-> None]

\* What the file was before it was saved last matters no more.
Settled == (\A s \in Setups : setup[s] = Off) /\ racing = {} /\ saved = policy

Plain == policy = Mixed /\ (server # None => server.policy = Mixed /\ ~server.token)

MayOverlap(c) ==
  /\ Plain /\ server # None
  /\ call'[c].at # "answer" /\ ~call'[c].shown
  /\ \E d \in Callers : Decides(call'[d])

MCStep ==
  \/ /\ \A c \in Callers : call[c].at # "answer"
     /\ \/ Fresh /\ Boot
        \/ Settled /\ ServerStops /\ Boot
        \/ Settled /\ Plain /\ Tick
        \/ /\ Settled
           /\ \E c \in Callers :
                /\ CallStep(c)
                /\ call[c].at = "idle" =>
                     /\ Idle = Callers \/ MayOverlap(c)
                     /\ Submits(call'[c]) => clock = 0
  \/ \E c \in Callers : Hear(c)

MCSpec == Init /\ [][MCStep /\ Watch]_vars

\* What is looked at of a record here: no step and no property looks at when it
\* was decided, by whom and why.
Brief(r) == IF r = None THEN None ELSE <<r.status, r.expires>>

View ==
  <<bootVars, [id \in Ids |-> Brief(requests[id])], clock,
    [c \in Callers |-> [call[c] EXCEPT !.rec = Brief(@)]], seen>>

=============================================================================
