--------------------------- MODULE PlatformIoStore ---------------------------
(***************************************************************************)
(* What IPlatformFileIoStore promises the engine: a pushed read is         *)
(* accepted, completed once, collected once, and completes with the data   *)
(* asked for unless it was cancelled or has failed.  There is no ring, no  *)
(* thread and no file table here; a container may close under an accepted  *)
(* read, and a closed container may be mounted anew only once the service  *)
(* has dropped it.                                                         *)
(***************************************************************************)
EXTENDS FiniteSets

CONSTANTS Requests, Files, FileOf

Outcomes == {"data", "failed", "cancelled"}

VARIABLES
    status,     \* where each request is in its life
    outcome,    \* what a completed request came to, "none" before that
    cancelled,  \* requests cancelled while they were queued
    mount       \* each container: "absent", "open" or "closing"
vars == <<status, outcome, cancelled, mount>>

Init ==
    /\ status = [r \in Requests |-> "idle"]
    /\ outcome = [r \in Requests |-> "none"]
    /\ cancelled = {}
    /\ mount = [f \in Files |-> "absent"]

Move(r, from, to) == status[r] = from /\ status' = [status EXCEPT ![r] = to]

Push(r) ==
    /\ mount[FileOf[r]] = "open"
    /\ Move(r, "idle", "queued")
    /\ UNCHANGED <<outcome, cancelled, mount>>

Cancel(r) ==
    /\ status[r] = "queued"
    /\ cancelled' = cancelled \cup {r}
    /\ UNCHANGED <<status, outcome, mount>>

Accept(r) ==
    /\ Move(r, "queued", "accepted")
    /\ UNCHANGED <<outcome, cancelled, mount>>

\* Accepted requests complete together, each with an outcome of its own; only a
\* cancelled one may come back without data and without having failed.
Complete(S) ==
    /\ S # {} /\ \A r \in S : status[r] = "accepted"
    /\ status' = [r \in Requests |-> IF r \in S THEN "completed" ELSE status[r]]
    /\ \E res \in [S -> Outcomes] :
         /\ \A r \in S : (res[r] = "cancelled") <=> (r \in cancelled)
         /\ outcome' = [r \in Requests |-> IF r \in S THEN res[r] ELSE outcome[r]]
    /\ UNCHANGED <<cancelled, mount>>

\* The engine collects everything that is complete.
Collect ==
    /\ status' = [r \in Requests |-> IF status[r] = "completed" THEN "delivered"
                                                                ELSE status[r]]
    /\ UNCHANGED <<outcome, cancelled, mount>>

Release(r) ==
    /\ Move(r, "delivered", "idle")
    /\ outcome' = [outcome EXCEPT ![r] = "none"]
    /\ cancelled' = cancelled \ {r}
    /\ UNCHANGED mount

Open(f) ==
    /\ mount[f] = "absent"
    /\ mount' = [mount EXCEPT ![f] = "open"]
    /\ UNCHANGED <<status, outcome, cancelled>>

\* No read of the container is queued when the engine closes it.
Close(f) ==
    /\ mount[f] = "open"
    /\ \A r \in Requests : FileOf[r] = f => status[r] # "queued"
    /\ mount' = [mount EXCEPT ![f] = "closing"]
    /\ UNCHANGED <<status, outcome, cancelled>>

\* The service drops a closed container once no read of it is in its hands.
Drop(f) ==
    /\ mount[f] = "closing"
    /\ \A r \in Requests : FileOf[r] = f => status[r] \notin {"queued", "accepted"}
    /\ mount' = [mount EXCEPT ![f] = "absent"]
    /\ UNCHANGED <<status, outcome, cancelled>>

Next ==
    \/ \E r \in Requests : Push(r) \/ Cancel(r) \/ Accept(r) \/ Release(r)
    \/ \E S \in SUBSET Requests : Complete(S)
    \/ Collect
    \/ \E f \in Files : Open(f) \/ Close(f) \/ Drop(f)

Spec == Init /\ [][Next]_vars

=============================================================================
