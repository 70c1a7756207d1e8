------------------------------- MODULE MCInbox -------------------------------
(***************************************************************************)
(* Small instances of Inbox: who shares a Store, and which constants may   *)
(* be permuted.                                                            *)
(***************************************************************************)
EXTENDS Inbox, TLC

CONSTANTS t1, t2, t3, server, cli1

\* A server alone: every handler goes through its Store.
Alone == [t \in Threads |-> server]

\* A server with two handlers and a CLI invocation beside it.
Beside == [t \in Threads |-> IF t = t3 THEN cli1 ELSE server]

\* Bound: three calls overlap only before time passes, two from then on.
Busy == {t \in Threads : pc[t] # "idle"}
Uncrowded == Cardinality(Busy) > 2 => clock = 0

AloneSpec == Init /\ [][Next /\ Uncrowded']_vars

Handlers == Permutations(Threads) \cup Permutations(Ids)

=============================================================================
