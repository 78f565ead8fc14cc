----------------------------- MODULE FreshRead -----------------------------
(***************************************************************************)
(* What a file server promises a client that re-requests one URL: every    *)
(* answer shows a content that the file really held at some moment between *)
(* the request and the answer.  It says nothing of validators, caches,     *)
(* ranges or of how the server reads the file; FileServe implements it.    *)
(***************************************************************************)
CONSTANTS
  Conns,      \* the requests a client can have in flight, by connection
  Values,     \* what the file can hold, "no file" included
  Nothing     \* taken[r] while r has not read

VARIABLES
  content,    \* what the file holds now
  phase,      \* phase[r] \in {"idle", "asked", "taken"}
  taken,      \* taken[r]: the content request r is answered from
  shown       \* shown[r]: what r's last completed answer showed

vars == <<content, phase, taken, shown>>

TypeOK ==
  /\ content \in Values
  /\ phase \in [Conns -> {"idle", "asked", "taken"}]
  /\ taken \in [Conns -> Values]
  /\ shown \in [Conns -> Values]

Init ==
  /\ content \in Values
  /\ phase = [r \in Conns |-> "idle"]
  /\ taken = [r \in Conns |-> Nothing]
  /\ shown = [r \in Conns |-> Nothing]

(* The file is created, replaced or removed: the environment. *)
Change ==
  /\ content' \in Values
  /\ UNCHANGED <<phase, taken, shown>>

Ask(r) ==
  /\ phase[r] = "idle"
  /\ phase' = [phase EXCEPT ![r] = "asked"]
  /\ UNCHANGED <<content, taken, shown>>

(* The moment of the read: the answer is the content of this instant. *)
Take(r) ==
  /\ phase[r] = "asked"
  /\ phase' = [phase EXCEPT ![r] = "taken"]
  /\ taken' = [taken EXCEPT ![r] = content]
  /\ UNCHANGED <<content, shown>>

Show(r) ==
  /\ phase[r] = "taken"
  /\ phase' = [phase EXCEPT ![r] = "idle"]
  /\ shown' = [shown EXCEPT ![r] = taken[r]]
  /\ taken' = [taken EXCEPT ![r] = Nothing]
  /\ UNCHANGED content

(* Requests that end without an answer the client can show. *)
Abandon(S) ==
  /\ phase' = [r \in Conns |-> IF r \in S THEN "idle" ELSE phase[r]]
  /\ taken' = [r \in Conns |-> IF r \in S THEN Nothing ELSE taken[r]]
  /\ UNCHANGED <<content, shown>>

Next ==
  \/ Change
  \/ \E r \in Conns : Ask(r) \/ Take(r) \/ Show(r)
  \/ \E S \in SUBSET Conns : Abandon(S)

Spec == Init /\ [][Next]_vars
=============================================================================
