----------------------------- MODULE Benchmark -----------------------------
(***************************************************************************)
(* The client of benchmark_main.cpp: it starts a domain on server A, sends *)
(* it to B and back n times, stops it and prints the times.  It knows the  *)
(* results only by their order on the result topic of a server.            *)
(*                                                                         *)
(* The two daemons are external here (TaskHandler and DomainLife model     *)
(* them): each takes a task message if it is up already, executes it in a  *)
(* thread of its own, and publishes one result.                            *)
(***************************************************************************)
EXTENDS Naturals, Sequences, FiniteSets

CONSTANTS
    n,           \* the option -n: number of rounds
    MaxRetries   \* bound: number of timeouts while the domain is started

ASSUME Parameters == n \in Nat \ {0} /\ MaxRetries \in Nat \ {0}

Servers == {"A", "B"}

\* The topic of the requests of each stage of main, and of their results.
Topic == [start |-> "A", toB |-> "A", toA |-> "B", stop |-> "A"]

Stages == DOMAIN Topic

\* The titles of the results, as the daemons and mqtt-spec.md name them.
Started == "vm started"

Stopped == "vm stopped"

MigrateDone == "migrate done"

Migrated == "vm migrated"

VARIABLES
    title,     \* the title the daemons give to the result of a migration
    up,        \* the daemons that have subscribed to their topic
    stage,     \* where main is
    waiting,   \* in get_message
    i,         \* the rounds done
    retries,   \* number of timeouts so far
    lost,      \* a message without a timeout went to a daemon that is not up
    sent,      \* number of messages so far
    jobs,      \* the requests being executed
    results,   \* the results not yet read, per topic
    dom,       \* where the domain runs
    moves      \* history: number of migrations that succeeded

client == <<stage, waiting, i, retries>>

vars == <<title, up, client, lost, sent, jobs, results, dom, moves>>

ResultType == [title : {Started, MigrateDone, Migrated, Stopped}, ok : BOOLEAN]

TypeOK ==
    /\ title \in {MigrateDone, Migrated} /\ up \subseteq Servers
    /\ stage \in Stages \cup {"success", "failure"}
    /\ waiting \in BOOLEAN /\ lost \in BOOLEAN /\ i \in 0 .. n
    /\ retries \in 0 .. MaxRetries /\ sent \in Nat
    /\ jobs \subseteq [id : 1 .. sent, stage : Stages]
    /\ results \in [Servers -> Seq(ResultType)] /\ dom \in Servers \cup {"off"}
    /\ moves \in 0 .. 2 * n

\* run.sh launches the daemons in the background right before the client.
Init ==
    /\ title \in {MigrateDone, Migrated} /\ up \in SUBSET Servers
    /\ stage = "start" /\ waiting = FALSE
    /\ i = 0 /\ retries = 0 /\ lost = FALSE /\ sent = 0 /\ jobs = {}
    /\ results = [s \in Servers |-> <<>>] /\ dom = "off" /\ moves = 0

-----------------------------------------------------------------------------
(* The client *)

Send ==
    /\ stage \in Stages /\ ~waiting
    /\ waiting' = TRUE /\ sent' = sent + 1
    /\ jobs' = IF Topic[stage] \in up THEN jobs \cup {[id |-> sent', stage |-> stage]} ELSE jobs
    /\ lost' = (lost \/ (stage # "start" /\ Topic[stage] \notin up))
    /\ UNCHANGED <<title, up, stage, i, retries, results, dom, moves>>

\* send_message throws: nothing is sent, and main ends.
SendFails ==
    /\ stage \in Stages /\ ~waiting
    /\ stage' = "failure"
    /\ UNCHANGED <<title, up, waiting, i, retries, lost, sent, jobs, results, dom, moves>>

\* get_message throws after five seconds; the loop sends the start task again.
MutNoTimeout == FALSE /\ UNCHANGED vars

Timeout ==
    /\ stage = "start" /\ waiting /\ results["A"] = <<>>
    /\ retries < MaxRetries - (IF "A" \in up THEN 0 ELSE 1)
    /\ retries' = retries + 1 /\ waiting' = FALSE
    /\ UNCHANGED <<title, up, stage, i, lost, sent, jobs, results, dom, moves>>

\* What main does with the result it has got: only the start looks at the
\* title of every result, and a migration does not fail under another title.
MutTitleOnly(r) ==
    IF stage = "start" /\ r.title # Started THEN "again" ELSE "next"

Verdict(r) ==
    CASE stage = "start" /\ r.title # Started                       -> "again"
      [] stage \in {"start", "stop"} /\ ~r.ok                       -> "fail"
      [] stage \in {"toB", "toA"} /\ r.title = MigrateDone /\ ~r.ok -> "fail"
      [] OTHER                                                      -> "next"

\* The stage after this one, when d rounds are done.
MutRoundTooMany(d) ==
    CASE stage = "start" -> "toB"
      [] stage = "toB"   -> "toA"
      [] stage = "toA"   -> IF d > n THEN "stop" ELSE "toB"
      [] stage = "stop"  -> "success"

After(d) ==
    CASE stage = "start" -> "toB"
      [] stage = "toB"   -> "toA"
      [] stage = "toA"   -> IF d = n THEN "stop" ELSE "toB"
      [] stage = "stop"  -> "success"

\* The oldest result on the topic is taken for the answer.
MutKeep(s) == results' = results

Pop(s) == results' = [results EXCEPT ![s] = Tail(@)]

Receive ==
    /\ stage \in Stages /\ waiting /\ results[Topic[stage]] # <<>>
    /\ Pop(Topic[stage])
    /\ waiting' = FALSE
    /\ LET verdict == Verdict(Head(results[Topic[stage]]))
       IN  /\ i' = IF verdict = "next" /\ stage = "toA" THEN i + 1 ELSE i
           /\ stage' = CASE verdict = "again" -> stage
                         [] verdict = "fail"  -> "failure"
                         [] verdict = "next"  -> After(i')
    /\ UNCHANGED <<title, up, retries, lost, sent, jobs, dom, moves>>

-----------------------------------------------------------------------------
(* The daemons *)

Subscribe(s) ==
    /\ s \notin up
    /\ up' = up \cup {s}
    /\ UNCHANGED <<title, client, lost, sent, jobs, results, dom, moves>>

\* Where the domain has to be for a request, where it then is, and the title
\* of the result.
From == [start |-> "off", toB |-> "A", toA |-> "B", stop |-> "A"]

To == [start |-> "A", toB |-> "B", toA |-> "A", stop |-> "off"]

ResultTitle == [start |-> Started, toB |-> title, toA |-> title, stop |-> Stopped]

\* A task ends, in an order of its own; it may fail in any case.
Finish(j) ==
    /\ jobs' = jobs \ {j}
    /\ \E ok \in BOOLEAN :
         /\ ok => dom = From[j.stage]
         /\ dom' = IF ok THEN To[j.stage] ELSE dom
         /\ moves' = IF ok /\ j.stage \in {"toB", "toA"} THEN moves + 1 ELSE moves
         /\ results' = [results EXCEPT ![Topic[j.stage]] =
                          Append(@, [title |-> ResultTitle[j.stage], ok |-> ok])]
    /\ UNCHANGED <<title, up, client, lost, sent>>

Daemons == \E j \in jobs : Finish(j)

Next ==
    \/ Send \/ SendFails \/ Timeout \/ Receive
    \/ \E s \in Servers : Subscribe(s)
    \/ Daemons

\* The client runs and its timer runs out; tasks end; the daemons come up.
Spec ==
    /\ Init /\ [][Next]_vars
    /\ WF_vars(Send) /\ WF_vars(Timeout) /\ WF_vars(Receive) /\ WF_vars(Daemons)
    /\ \A s \in Servers : WF_vars(Subscribe(s))

-----------------------------------------------------------------------------
(* Properties. *)

\* The requests to a server whose result the client has not read.
Unread(s) == Cardinality({j \in jobs : Topic[j.stage] = s}) + Len(results[s])

\* The client is never more answers behind than it has repeated the start:
\* without a timeout every result it reads is that of its last request, and
\* at the end none is left unread.
NeverFurtherBehind ==
    \A s \in Servers :
        Unread(s) <= (IF s = "A" THEN retries ELSE 0)
                     + (IF waiting /\ Topic[stage] = s THEN 1 ELSE 0)

\* The printed times are times of 2n migrations if the daemons call the result
\* of a migration "migrate done": results read too early hide no failure,
\* since the domain cannot leave B without having got there.  That the domain
\* is stopped, too, is sure only if the start was not repeated.
TimesAreMeasured ==
    stage = "success" /\ title = MigrateDone =>
        moves = 2 * n /\ (retries = 0 => dom = "off")

\* Only the start has a timeout.  The client ends nevertheless if every later
\* request found its daemon subscribed.
ClientEnds == <>(stage \in {"success", "failure"} \/ lost)

=============================================================================
