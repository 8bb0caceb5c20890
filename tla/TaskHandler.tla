----------------------------- MODULE TaskHandler -----------------------------
(***************************************************************************)
(* The request path of the migfra daemon: Task_handler::loop (one thread   *)
(* that takes task messages from the communicator), execute() on a         *)
(* Task_container (inline in the loop thread or in a detached thread),     *)
(* execute() on one Task (a std::async future, launched or deferred),      *)
(* Thread_counter and the destructor ~Task_handler that waits on it.       *)
(*                                                                         *)
(* What a task does to a domain is left to the hypervisor: here it is a    *)
(* call that returns or throws.  The communicator and the YAML parser are  *)
(* external; a message is its shape: what the parser makes of it, whether  *)
(* the container runs concurrently and, per task, whether it does.         *)
(***************************************************************************)
EXTENDS Naturals, Sequences, FiniteSets

CONSTANTS
    MaxMsgs,    \* bound: number of messages published to the task topic
    MaxTasks,   \* bound: number of local domains a node evacuation expands to
    Shapes,     \* the message shapes the scheduler publishes
    SendFails   \* TRUE: Communicator::send_message may throw

Msgs == 1 .. MaxMsgs

Kinds == {"malformed", "empty", "quit", "tasks", "evacuate"}

ShapeType == [kind : Kinds, conc : BOOLEAN, subs : Seq(BOOLEAN)]

ASSUME Parameters ==
    /\ MaxMsgs \in Nat
    /\ MaxTasks \in Nat
    /\ Shapes \subseteq ShapeType
    /\ SendFails \in BOOLEAN

\* A message that has not been published.
NoShape == [kind |-> "empty", conc |-> FALSE, subs |-> <<>>]

Final == {"success", "error"}

FutureStates == Final \cup {"running", "deferred"}

ReplyType ==
    [type : {"unknown", "quit", "result"}, id : BOOLEAN, results : Seq(Final)]

VARIABLES
    published,  \* number of messages published so far
    shape,      \* shape of each message
    inbox,      \* messages the communicator has received and not handed out
    running,    \* Task_handler::running
    loop,       \* where the main thread is
    worker,     \* where the execution of each container is
    tasks,      \* tasks of each container: does the task run concurrently?
    futures,    \* future_results of each container
    results,    \* results of each container, collected so far
    count,      \* Thread_counter::count
    replies     \* messages sent to the result topic, per task message

vars == <<published, shape, inbox, running, loop, worker, tasks, futures, results, count, replies>>

containerVars == <<worker, tasks, futures, results, count>>

LoopStates ==
    {"get", "inline", "drain", "waiting", "returned", "gone", "aborted"}

WorkerStates == {"none", "spawned", "run", "uncount", "done"}

TypeOK ==
    /\ published \in 0 .. MaxMsgs
    /\ shape \in [Msgs -> ShapeType]
    /\ inbox \in Seq(Msgs)
    /\ running \in BOOLEAN
    /\ loop \in LoopStates
    /\ worker \in [Msgs -> WorkerStates]
    /\ tasks \in [Msgs -> Seq(BOOLEAN)]
    /\ futures \in [Msgs -> Seq(FutureStates)]
    /\ results \in [Msgs -> Seq(Final)]
    /\ count \in Nat
    /\ replies \in [Msgs -> Seq(ReplyType)]

Init ==
    /\ published = 0
    /\ shape = [m \in Msgs |-> NoShape]
    /\ inbox = <<>>
    /\ running = TRUE
    /\ loop = "get"
    /\ worker = [m \in Msgs |-> "none"]
    /\ tasks = [m \in Msgs |-> <<>>]
    /\ futures = [m \in Msgs |-> <<>>]
    /\ results = [m \in Msgs |-> <<>>]
    /\ count = 0
    /\ replies = [m \in Msgs |-> <<>>]

-----------------------------------------------------------------------------
(* The scheduler and the broker (external). *)

Publish(s) ==
    /\ published < MaxMsgs
    /\ published' = published + 1
    /\ shape' = [shape EXCEPT ![published + 1] = s]
    /\ inbox' = Append(inbox, published + 1)
    /\ UNCHANGED <<running, loop, worker, tasks, futures, results, count, replies>>

-----------------------------------------------------------------------------
(* Sending to the result topic. *)

\* comm->send_message returned.
Send(m, type, id, res) ==
    replies' = [replies EXCEPT ![m] =
                  Append(@, [type |-> type, id |-> id, results |-> res])]

\* send_parse_error_nothrow as the loop calls it: without the task's id, and
\* an exception of the communicator is swallowed.
SendParseErrorNothrow(m) ==
    \/ Send(m, "unknown", FALSE, <<>>)
    \/ SendFails /\ UNCHANGED replies

-----------------------------------------------------------------------------
(* Task_handler::loop: one iteration per message. *)

\* get_message takes the oldest message.  An exception of get_message itself
\* takes none: the loop publishes an error that answers no message and goes on,
\* which changes nothing here.
GetMessage(m, kind) ==
    /\ loop = "get"
    /\ running
    /\ inbox # <<>>
    /\ m = Head(inbox)
    /\ shape[m].kind = kind
    /\ inbox' = Tail(inbox)
    /\ UNCHANGED <<published, shape>>

\* YAML::Exception or no_task_exception while the message is parsed.
RejectMalformed(m) ==
    /\ GetMessage(m, "malformed")
    /\ SendParseErrorNothrow(m)
    /\ UNCHANGED <<running, loop, containerVars>>

MutEmptyFallsThrough(m) ==
    /\ GetMessage(m, "empty")
    /\ Send(m, "unknown", TRUE, <<>>)
    /\ worker' = [worker EXCEPT ![m] = IF shape[m].conc THEN "spawned" ELSE "run"]
    /\ loop' = IF shape[m].conc THEN "get" ELSE "inline"
    /\ UNCHANGED <<running, tasks, futures, results, count>>

\* execute() on an empty container; if the error message cannot be sent the
\* exception reaches the loop, which tries once more.
RejectEmpty(m) ==
    /\ GetMessage(m, "empty")
    /\ \/ Send(m, "unknown", TRUE, <<>>)
       \/ SendFails /\ SendParseErrorNothrow(m)
    /\ UNCHANGED <<running, loop, containerVars>>

\* execute() on a quit container: the answer, then the exception "quit" that
\* ends the loop.  If the answer cannot be sent that other exception reaches
\* the loop instead and the daemon keeps running.
Quit(m) ==
    /\ GetMessage(m, "quit")
    /\ \/ /\ Send(m, "quit", TRUE, <<>>)
          /\ running' = FALSE
          /\ loop' = "drain"
       \/ /\ SendFails
          /\ SendParseErrorNothrow(m)
          /\ UNCHANGED <<running, loop>>
    /\ UNCHANGED containerVars

\* The end of execute(): func runs in a detached thread or right here.
MutNeverBlocks(m, ts) ==
    /\ tasks' = [tasks EXCEPT ![m] = ts]
    /\ worker' = [worker EXCEPT ![m] = IF shape[m].conc THEN "spawned" ELSE "run"]
    /\ UNCHANGED <<loop, running, futures, results, count, replies>>

Dispatch(m, ts) ==
    /\ tasks' = [tasks EXCEPT ![m] = ts]
    /\ worker' = [worker EXCEPT ![m] = IF shape[m].conc THEN "spawned" ELSE "run"]
    /\ loop' = IF shape[m].conc THEN "get" ELSE "inline"
    /\ UNCHANGED <<running, futures, results, count, replies>>

ExecuteTasks(m) ==
    /\ GetMessage(m, "tasks")
    /\ Dispatch(m, shape[m].subs)

\* hypervisor->get_evacuate_tasks runs in the loop thread: one task per local
\* domain, without the container's concurrent-execution setting, so every
\* task is launched concurrently; or it throws and the loop answers.
ExecuteEvacuate(m) ==
    /\ GetMessage(m, "evacuate")
    /\ \/ \E n \in 0 .. MaxTasks : Dispatch(m, [k \in 1 .. n |-> TRUE])
       \/ /\ SendParseErrorNothrow(m)
          /\ UNCHANGED <<running, loop, containerVars>>

-----------------------------------------------------------------------------
(* The execution of a container: func, in the detached or the loop thread. *)

Alive == loop \notin {"gone", "aborted"}

MutCountOnce(m) ==
    /\ Alive
    /\ worker[m] = "spawned"
    /\ worker' = [worker EXCEPT ![m] = "run"]
    /\ count' = IF count = 0 THEN 1 ELSE count
    /\ UNCHANGED <<published, shape, inbox, running, loop, tasks, futures, results, replies>>

\* Thread_counter cnt; in the detached thread.
CountThread(m) ==
    /\ Alive
    /\ worker[m] = "spawned"
    /\ worker' = [worker EXCEPT ![m] = "run"]
    /\ count' = count + 1
    /\ UNCHANGED <<published, shape, inbox, running, loop, tasks, futures, results, replies>>

MutLaunchAllButLast(m) ==
    /\ Alive
    /\ worker[m] = "run"
    /\ Len(futures[m]) + 1 < Len(tasks[m])
    /\ futures' = [futures EXCEPT ![m] =
                     Append(@, IF tasks[m][Len(@) + 1] THEN "running" ELSE "deferred")]
    /\ UNCHANGED <<published, shape, inbox, running, loop, worker, tasks, results, count, replies>>

\* execute(task, ...): std::async starts a thread or defers the task.
LaunchTask(m) ==
    /\ Alive
    /\ worker[m] = "run"
    /\ Len(futures[m]) < Len(tasks[m])
    /\ futures' = [futures EXCEPT ![m] =
                     Append(@, IF tasks[m][Len(@) + 1] THEN "running" ELSE "deferred")]
    /\ UNCHANGED <<published, shape, inbox, running, loop, worker, tasks, results, count, replies>>

\* The task's lambda ends: the hypervisor call returned, or threw and the
\* exception became an error result.
FinishTask(m, k) ==
    /\ Alive
    /\ k \in DOMAIN futures[m]
    /\ futures[m][k] = "running"
    /\ \E s \in Final : futures' = [futures EXCEPT ![m][k] = s]
    /\ UNCHANGED <<published, shape, inbox, running, loop, worker, tasks, results, count, replies>>

\* The future whose get() func is in: all tasks are launched, results are
\* collected in the order of the tasks.
MutAnyFuture(m, k) ==
    /\ Alive
    /\ worker[m] = "run"
    /\ Len(futures[m]) = Len(tasks[m])
    /\ k \in DOMAIN futures[m]
    /\ Len(results[m]) < Len(tasks[m])

AtFuture(m, k) ==
    /\ Alive
    /\ worker[m] = "run"
    /\ Len(futures[m]) = Len(tasks[m])
    /\ k \in DOMAIN futures[m]
    /\ k = Len(results[m]) + 1

\* get() on a deferred future runs the task in this thread.
RunDeferred(m, k) ==
    /\ AtFuture(m, k)
    /\ futures[m][k] = "deferred"
    /\ futures' = [futures EXCEPT ![m][k] = "running"]
    /\ UNCHANGED <<published, shape, inbox, running, loop, worker, tasks, results, count, replies>>

Collect(m, k) ==
    /\ AtFuture(m, k)
    /\ futures[m][k] \in Final
    /\ results' = [results EXCEPT ![m] = Append(@, futures[m][k])]
    /\ UNCHANGED <<published, shape, inbox, running, loop, worker, tasks, futures, count, replies>>

\* The end of func.  An exception of send_message leaves a detached thread
\* (std::terminate), or reaches the loop, which sends an error instead.
SendResult(m) ==
    /\ Alive
    /\ worker[m] = "run"
    /\ Len(results[m]) = Len(tasks[m])
    /\ \/ /\ Send(m, "result", TRUE, results[m])
          /\ worker' = [worker EXCEPT ![m] = IF shape[m].conc THEN "uncount" ELSE "done"]
          /\ loop' = IF shape[m].conc THEN loop ELSE "get"
       \/ /\ SendFails
          /\ shape[m].conc
          /\ loop' = "aborted"
          /\ UNCHANGED <<worker, replies>>
       \/ /\ SendFails
          /\ ~shape[m].conc
          /\ SendParseErrorNothrow(m)
          /\ worker' = [worker EXCEPT ![m] = "done"]
          /\ loop' = "get"
    /\ UNCHANGED <<published, shape, inbox, running, tasks, futures, results, count>>

\* ~Thread_counter: decrement and, at zero, notify the waiting destructor.
MutNoNotify(m) ==
    /\ Alive
    /\ worker[m] = "uncount"
    /\ worker' = [worker EXCEPT ![m] = "done"]
    /\ count' = count - 1
    /\ UNCHANGED <<published, shape, inbox, running, loop, tasks, futures, results, replies>>

UncountThread(m) ==
    /\ Alive
    /\ worker[m] = "uncount"
    /\ worker' = [worker EXCEPT ![m] = "done"]
    /\ count' = count - 1
    /\ loop' = IF count = 1 /\ loop = "waiting" THEN "drain" ELSE loop
    /\ UNCHANGED <<published, shape, inbox, running, tasks, futures, results, replies>>

-----------------------------------------------------------------------------
(* ~Task_handler: Thread_counter::wait_for_threads_to_finish, under the     *)
(* mutex that wait releases, then the end of the process.                   *)

WaitForThreads ==
    /\ loop = "drain"
    /\ loop' = IF count = 0 THEN "returned" ELSE "waiting"
    /\ UNCHANGED <<published, shape, inbox, running, worker, tasks, futures,
                   results, count, replies>>

MutWaitOnce ==
    /\ loop = "waiting"
    /\ loop' = "returned"
    /\ UNCHANGED <<published, shape, inbox, running, worker, tasks, futures,
                   results, count, replies>>

SpuriousWakeup ==
    /\ loop = "waiting"
    /\ loop' = "drain"
    /\ UNCHANGED <<published, shape, inbox, running, worker, tasks, futures,
                   results, count, replies>>

\* main returns; threads that still run end with the process.
ProcessExit ==
    /\ loop = "returned"
    /\ loop' = "gone"
    /\ UNCHANGED <<published, shape, inbox, running, worker, tasks, futures,
                   results, count, replies>>

-----------------------------------------------------------------------------

HandleMessage(m) ==
    \/ RejectMalformed(m)
    \/ RejectEmpty(m)
    \/ Quit(m)
    \/ ExecuteTasks(m)
    \/ ExecuteEvacuate(m)

WorkerStep(m) ==
    \/ CountThread(m)
    \/ LaunchTask(m)
    \/ \E k \in DOMAIN futures[m] : RunDeferred(m, k)
    \/ \E k \in DOMAIN futures[m] : Collect(m, k)
    \/ SendResult(m)
    \/ UncountThread(m)

TaskEnds(m) == \E k \in DOMAIN futures[m] : FinishTask(m, k)

LoopStep ==
    \/ \E m \in Msgs : HandleMessage(m)
    \/ WaitForThreads
    \/ ProcessExit

Next ==
    \/ \E s \in Shapes : Publish(s)
    \/ \E m \in Msgs : HandleMessage(m)
    \/ \E m \in Msgs : WorkerStep(m)
    \/ \E m \in Msgs : TaskEnds(m)
    \/ WaitForThreads
    \/ SpuriousWakeup
    \/ ProcessExit

\* Threads are scheduled and hypervisor calls return; the scheduler and the
\* spurious wakeups of the condition variable are not fair.
Fairness ==
    /\ WF_vars(LoopStep)
    /\ \A m \in Msgs : WF_vars(WorkerStep(m)) /\ WF_vars(TaskEnds(m))

Spec == Init /\ [][Next]_vars /\ Fairness

-----------------------------------------------------------------------------
(* What the scheduler sees of the daemon. *)

\* The messages that Task_handler::loop has taken are those before the inbox.
Taken == published - Len(inbox)

\* What the scheduler can know of message m.
Phase(m) ==
    IF replies[m] # <<>> THEN IF replies[m][1].id THEN "answered" ELSE "anonymous"
    ELSE IF m > published THEN "unsent"
    ELSE IF m > Taken THEN "queued"
    ELSE IF worker[m] \in {"spawned", "run"} THEN "running"
    ELSE "lost"

Service == INSTANCE TaskService WITH
    Requests <- Msgs,
    phase <- [m \in Msgs |-> Phase(m)],
    exclusive <- {m \in Msgs : m <= published /\ ~shape[m].conc},
    accepting <- running,
    up <- Alive

-----------------------------------------------------------------------------
(* Properties. *)

\* The daemon keeps the promises of TaskService: messages are taken in order,
\* none overtakes a container without concurrent execution, none is answered
\* twice, and an answer without the id of its message (task_handler.cpp, the
\* handlers of loop) is never the answer to a container in a detached thread.
ImplementsService == Service!Spec

\* The containers whose detached thread holds a Thread_counter.
Counted == {m \in Msgs : shape[m].conc /\ worker[m] \in {"run", "uncount"}}

\* Thread_counter::count is the number of detached threads that hold a
\* counter, whatever the order in which they start and end: the destructor's
\* wait is over exactly when none does (task.cpp, Thread_counter).
CountAgrees == count = Cardinality(Counted)

\* A task message is answered at most once on the result topic: none of the
\* error paths of execute() and of the loop's handlers answers a message that
\* was answered before (task_handler.cpp, loop).
AtMostOneReply == \A m \in Msgs : Len(replies[m]) <= 1

\* A result container reports every task of the container, in the order of
\* the tasks, with the status the task ended with, although tasks end in any
\* order and some of them only start when their result is asked for.
ReplyFaithful ==
    \A m \in Msgs : \A i \in DOMAIN replies[m] :
        replies[m][i].type = "result" =>
            /\ replies[m][i].results = futures[m]
            /\ Len(futures[m]) = Len(tasks[m])

\* No part of message m was acted upon.
Untouched(m) == worker[m] = "none" /\ replies[m] = <<>>

\* A container without concurrent execution holds up every message behind
\* it, and no message behind an answered quit is ever looked at.
FifoBarrier ==
    \A m \in Msgs :
        \/ worker[m] = "run" /\ ~shape[m].conc
        \/ \E i \in DOMAIN replies[m] : replies[m][i].type = "quit"
        => \A n \in Msgs : n > m => Untouched(n)

\* The destructor returns only at a moment when no detached thread holds a
\* Thread_counter: neither a spurious wakeup nor a notification that is
\* overtaken by a thread that starts lets it through.
DrainWaits ==
    [][loop' = "returned" /\ loop # "returned" => Counted = {}]_vars

\* Once a quit is accepted the process ends: the notification of the last
\* thread is not lost and no container waits for a task that never ends.
QuitTerminates == ~running ~> loop = "gone"

\* Every message is answered, unless the process ended after a quit.
EveryRequestAnswered ==
    \A m \in Msgs : m <= published ~> replies[m] # <<>> \/ loop = "gone"

\* task_handler.hpp: "The destructor waits for all threads to finish."  A
\* detached thread that has not yet constructed its Thread_counter is missed.
DestructorWaitsForAll ==
    loop = "returned" => \A m \in Msgs : worker[m] \in {"none", "done"}

=============================================================================
