----------------------------- MODULE Bootstrap -----------------------------
(***************************************************************************)
(* How an inbox comes to have a policy and a server: `init`, `serve` and   *)
(* an operator who edits policy.rules.  Both commands run Store.Init,      *)
(* which looks for the policy file and writes the starter policy when      *)
(* there is none; one action here is one step on the file another process  *)
(* can come between.  A policy is a value of its own (module Policy        *)
(* evaluates one, Parser reads one).                                       *)
(***************************************************************************)
EXTENDS Records

CONSTANTS
  Policies,    \* policies that parse
  Starter,     \* the one init writes
  AskAll,      \* what an empty file parses to
  Broken,      \* content that does not parse
  Setups       \* processes that run init or serve

ASSUME BootstrapAssumption ==
  /\ {Starter, AskAll} \subseteq Policies
  /\ Broken \notin Policies
  /\ None \notin Policies \cup {Broken}

VARIABLES
  ready,     \* requests/ exists
  policy,    \* policy.rules: a policy, Broken, or None when there is no file
  setup,     \* where each init or serve is, and the server it is to become
  server,    \* the server on the port, or None
  saved,     \* history: what the operator saved last, or None
  racing     \* history: the setups that had found no file when it was saved

bootVars == <<ready, policy, setup, server, saved, racing>>

Server == [policy : Policies, token : BOOLEAN, exposed : BOOLEAN]

ASSUME ServerAssumption == None \notin Server

Off == [at |-> "off", becomes |-> None]

\* Mutant: the parser's error is dropped.
ReadableAnyhow(pol) == TRUE

Readable(pol) == pol \in Policies

BootInit ==
  /\ ready  = FALSE
  /\ policy = None
  /\ setup  = [s \in Setups |-> Off]
  /\ server = None
  /\ saved  = None
  /\ racing = {}

-----------------------------------------------------------------------------
MoveTo(s, label) == setup' = [setup EXCEPT ![s].at = label]

\* init: MkdirAll.
StartInit(s) ==
  /\ setup[s] = Off
  /\ MoveTo(s, "stat")
  /\ ready' = TRUE
  /\ UNCHANGED <<policy, server, saved, racing>>

\* Mutant: a token is not asked for.
ServeRefusesNothing(host, token) == host = "bad"

\* The address cannot be read, or is open to a network and there is no token.
ServeRefuses(host, token) == host = "bad" \/ (host = "elsewhere" /\ ~token)

\* cmdServe: the guard, the policy (--policy may name any file), MkdirAll.
StartServe(s) ==
  /\ setup[s] = Off
  /\ \E host \in {"loopback", "elsewhere", "bad"}, token \in BOOLEAN,
        pol \in Policies \cup {policy} :
       /\ ~ServeRefuses(host, token)
       /\ Readable(pol)
       /\ setup' = [setup EXCEPT ![s] =
            [at |-> "stat", becomes |-> [policy |-> pol, token |-> token,
                                         exposed |-> host = "elsewhere"]]]
  /\ ready' = TRUE
  /\ UNCHANGED <<policy, server, saved, racing>>

\* Mutant: whatever is there is replaced.
PolicyForgotten == TRUE

PolicyMissing == policy = None

Stat(s) ==
  /\ setup[s].at = "stat"
  /\ MoveTo(s, IF PolicyMissing THEN "truncate" ELSE "last")
  /\ UNCHANGED <<ready, policy, server, saved, racing>>

\* os.WriteFile: create or truncate, then write.
Truncate(s) ==
  /\ setup[s].at = "truncate"
  /\ policy' = AskAll
  /\ MoveTo(s, "fill")
  /\ UNCHANGED <<ready, server, saved, racing>>

\* The end of what another wrote meanwhile may stick out behind the starter.
Fill(s) ==
  /\ setup[s].at = "fill"
  /\ policy' \in IF policy \in {AskAll, Starter} THEN {Starter} ELSE Policies \cup {Broken}
  /\ MoveTo(s, "last")
  /\ UNCHANGED <<ready, server, saved, racing>>

\* init is done; serve takes the port, or fails when it is taken.
Finish(s) ==
  /\ setup[s].at = "last"
  /\ setup'  = [setup EXCEPT ![s] = Off]
  /\ server' = IF server = None THEN setup[s].becomes ELSE server
  /\ UNCHANGED <<ready, policy, saved, racing>>

\* An error of the disk, or the process dies.
Die(s) ==
  /\ setup[s] # Off
  /\ setup' = [setup EXCEPT ![s] = Off]
  /\ UNCHANGED <<ready, policy, server, saved, racing>>

ServerStops ==
  /\ server # None
  /\ server' = None
  /\ UNCHANGED <<ready, policy, setup, saved, racing>>

EditPolicy ==
  /\ \E pol \in Policies \cup {Broken} : policy' = pol /\ saved' = pol
  /\ racing' = {s \in Setups : setup[s].at \in {"truncate", "fill"}}
  /\ UNCHANGED <<ready, setup, server>>

SetupStep(s) == StartInit(s) \/ StartServe(s) \/ Stat(s) \/ Truncate(s) \/ Fill(s)
                \/ Finish(s) \/ Die(s)

BootNext == (\E s \in Setups : SetupStep(s)) \/ ServerStops \/ EditPolicy

BootSpec == BootInit /\ [][BootNext]_bootVars

-----------------------------------------------------------------------------
BootTypeOK ==
  /\ ready  \in BOOLEAN
  /\ policy \in Policies \cup {Broken, None}
  /\ setup  \in [Setups -> [at : {"off", "stat", "truncate", "fill", "last"},
                            becomes : Server \cup {None}]]
  /\ server \in Server \cup {None}
  /\ saved  \in Policies \cup {Broken, None}
  /\ racing \subseteq Setups

\* Store.Init, README: init "never overwrites an edited one".  So it is unless an
\* init or serve had just found no file when the operator saved: one that is yet
\* to look, or starts later, finds the file and leaves it alone.
EditsStand == saved # None /\ racing = {} => policy = saved

=============================================================================
