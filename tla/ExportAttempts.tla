---------------------------- MODULE ExportAttempts ----------------------------
(***************************************************************************)
(* What the export queue promises about the attempts it admits, seen by an *)
(* operator who submits, cancels, and reads the files on disk: the public  *)
(* contract of crates/mondrian-export/src/queue/service.rs.  RenderQueue   *)
(* is the queue with its lock, its worker thread and its gate; it          *)
(* implements this specification.                                          *)
(***************************************************************************)
EXTENDS Naturals

CONSTANTS
    Jobs,      \* submissions; each is offered to the queue at most once
    Outputs,   \* normalized output routes
    OutputOf,  \* the route of a submission
    PolicyOf   \* its output policy, "CreateNew" or "OverwriteExisting"

VARIABLES
    attempt,   \* what became of a submission
    accepted,  \* submissions whose cancellation the queue accepted
    named,     \* submissions whose bytes have been given their final name
    vacant     \* routes that name no file

attemptVars == <<attempt, accepted, named, vacant>>

ActiveAttempts == {"Waiting", "Executing", "Committed"}
Verdicts == {"Published", "Unconfirmed", "Unknown", "Failed", "Cancelled"}
AttemptStates == {"Offered", "Refused", "Forgotten"} \union ActiveAttempts \union Verdicts

\* The verdicts an active attempt may end with.  Before it commits it can only
\* fail or be cancelled; afterwards the verdict is what happened to its name.
VerdictsOf(j) ==
    CASE attempt[j] = "Waiting"   -> {"Cancelled"}
      [] attempt[j] = "Executing" -> {"Cancelled", "Failed"}
      [] attempt[j] = "Committed" ->
             {"Unknown"} \union IF j \in named THEN {"Published", "Unconfirmed"}
                                ELSE {"Failed"}
      [] OTHER                    -> {}

\* Attempts end, and verdicts leave the bounded history.
Settling ==
    /\ attempt' \in [Jobs -> AttemptStates]
    /\ \A j \in Jobs : attempt'[j] # attempt[j] =>
           \/ attempt'[j] \in VerdictsOf(j)
           \/ attempt'[j] = "Forgotten" /\ (attempt[j] \in Verdicts \/ VerdictsOf(j) # {})

Begin ==
    /\ attempt = [j \in Jobs |-> "Offered"]
    /\ accepted = {}
    /\ named = {}
    /\ vacant \in SUBSET Outputs

Refuse(j) ==
    /\ attempt[j] = "Offered"
    /\ attempt' = [attempt EXCEPT ![j] = "Refused"]
    /\ UNCHANGED <<accepted, named, vacant>>

\* Two active attempts never share a route.
Accept(j) ==
    /\ attempt[j] = "Offered"
    /\ \A k \in Jobs : attempt[k] \in ActiveAttempts => OutputOf[k] # OutputOf[j]
    /\ attempt' = [attempt EXCEPT ![j] = "Waiting"]
    /\ UNCHANGED <<accepted, named, vacant>>

\* One attempt executes at a time.
Start(j) ==
    /\ attempt[j] = "Waiting"
    /\ \A k \in Jobs : attempt[k] \notin {"Executing", "Committed"}
    /\ attempt' = [attempt EXCEPT ![j] = "Executing"]
    /\ UNCHANGED <<accepted, named, vacant>>

\* A cancellation is accepted only before the attempt commits.
CancelWaiting(j) ==
    /\ attempt[j] = "Waiting"
    /\ attempt'[j] # "Waiting"
    /\ accepted' = accepted \union {j}
    /\ Settling
    /\ UNCHANGED <<named, vacant>>

CancelExecuting(j) ==
    /\ attempt[j] = "Executing"
    /\ accepted' = accepted \union {j}
    /\ UNCHANGED <<attempt, named, vacant>>

\* An accepted cancellation is final: the attempt never commits.
Commit(j) ==
    /\ attempt[j] = "Executing"
    /\ j \notin accepted
    /\ attempt' = [attempt EXCEPT ![j] = "Committed"]
    /\ UNCHANGED <<accepted, named, vacant>>

\* Only a committed attempt names its route, once, and a create-only one
\* never replaces what is there.
Name(j) ==
    /\ attempt[j] = "Committed"
    /\ j \notin named
    /\ PolicyOf[j] = "CreateNew" => OutputOf[j] \in vacant
    /\ named' = named \union {j}
    /\ vacant' = vacant \ {OutputOf[j]}
    /\ UNCHANGED <<attempt, accepted>>

Settle == Settling /\ UNCHANGED <<accepted, named, vacant>>

\* Another program creates or removes a file.
Meddle(o) ==
    /\ vacant' \in {vacant \ {o}, vacant \union {o}}
    /\ UNCHANGED <<attempt, accepted, named>>

Step ==
    \/ \E j \in Jobs :
           \/ Refuse(j)
           \/ Accept(j)
           \/ Start(j)
           \/ CancelWaiting(j)
           \/ CancelExecuting(j)
           \/ Commit(j)
           \/ Name(j)
    \/ Settle
    \/ \E o \in Outputs : Meddle(o)

Contract == Begin /\ [][Step]_attemptVars

=============================================================================
