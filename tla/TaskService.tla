---------------------------- MODULE TaskService ----------------------------
(***************************************************************************)
(* What the migfra daemon promises the scheduler that publishes task       *)
(* messages: the abstract specification that TaskHandler implements.       *)
(*                                                                         *)
(* Requests are numbered in the order of their publication.  The daemon    *)
(* starts them in that order, one at a time while an exclusive one (a      *)
(* container without concurrent execution) runs, and answers each at most  *)
(* once.  An answer is "answered" when it carries the id of the request,   *)
(* "anonymous" when it does not, and "lost" when it could not be sent.     *)
(***************************************************************************)
EXTENDS Naturals

CONSTANT Requests    \* a set of natural numbers

VARIABLES
    phase,      \* what the scheduler can know of each request
    exclusive,  \* the requests that must run alone in the loop
    accepting,  \* no quit has been answered yet
    up          \* the daemon's process exists

vars == <<phase, exclusive, accepting, up>>

Init ==
    /\ phase = [r \in Requests |-> "unsent"]
    /\ exclusive = {}
    /\ accepting = TRUE
    /\ up = TRUE

Goto(r, p) == phase' = [phase EXCEPT ![r] = p]

Submit(r) ==
    /\ phase[r] = "unsent"
    /\ \A q \in Requests : q < r => phase[q] # "unsent"
    /\ Goto(r, "queued")
    /\ exclusive' \in {exclusive, exclusive \cup {r}}
    /\ UNCHANGED <<accepting, up>>

\* The daemon may turn to r: it is the next request in line and nothing runs
\* that must run alone.
Turn(r) ==
    /\ up /\ accepting
    /\ phase[r] = "queued"
    /\ \A q \in Requests : q < r => phase[q] # "queued"
    /\ \A q \in exclusive : phase[q] # "running"

Begin(r) == Turn(r) /\ Goto(r, "running") /\ UNCHANGED <<exclusive, accepting, up>>

\* Refused at once, or a quit whose answer could not be sent.
Reject(r) ==
    /\ Turn(r)
    /\ Goto(r, "answered") \/ Goto(r, "anonymous") \/ Goto(r, "lost")
    /\ UNCHANGED <<exclusive, accepting, up>>

Quit(r) ==
    /\ Turn(r)
    /\ Goto(r, "answered")
    /\ accepting' = FALSE
    /\ UNCHANGED <<exclusive, up>>

\* Only a request that runs in the loop may lose its id or its answer and
\* leave the daemon alive.
Finish(r) ==
    /\ up
    /\ phase[r] = "running"
    /\ \/ Goto(r, "answered")
       \/ r \in exclusive /\ (Goto(r, "anonymous") \/ Goto(r, "lost"))
    /\ UNCHANGED <<exclusive, accepting, up>>

\* The process ends after a quit, or when a concurrent request has finished
\* and its answer cannot be sent; a request that runs then stays unanswered.
End ==
    /\ up
    /\ ~accepting \/ \E r \in Requests \ exclusive : phase[r] = "running"
    /\ up' = FALSE
    /\ UNCHANGED <<phase, exclusive, accepting>>

Next ==
    \/ End
    \/ \E r \in Requests : Submit(r) \/ Begin(r) \/ Reject(r) \/ Quit(r) \/ Finish(r)

Spec == Init /\ [][Next]_vars

=============================================================================
