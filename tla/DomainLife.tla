----------------------------- MODULE DomainLife -----------------------------
(***************************************************************************)
(* The start, stop, suspend, resume and repin tasks of                     *)
(* Libvirt_hypervisor, on all nodes of the cluster: every node runs the    *)
(* framework, and the scheduler sends tasks to the nodes.                  *)
(*                                                                         *)
(* Every call of libvirt is a step; libvirt is external, known by what it  *)
(* answers, and every call of it may fail.  A stop task with a regular     *)
(* expression has a thread per domain it matches, other tasks have one.    *)
(***************************************************************************)
EXTENDS Naturals, Sequences, FiniteSets

CONSTANTS
    Doms,      \* the names of domains
    Nodes,     \* the nodes of the cluster
    nodes,     \* those the configuration lists, none by default: a sequence
    Requests,  \* the tasks the scheduler may send
    MaxTasks,  \* bound: the number of tasks
    MaxBusy    \* bound: the number of tasks at the same time

Listed == {nodes[i] : i \in DOMAIN nodes}

\* A task is known by its place; the place of a task that is over is free.
Tasks == 1 .. MaxBusy

Kinds == {"start", "stop", "suspend", "resume", "repin"}

\* What a task may ask for: the optional members of its message.
Options ==
    {"xml", "transient", "config", "devices", "probe", "regex", "force", "undefine"}

RequestType ==
    [kind : Kinds, node : Nodes, doms : SUBSET Doms, opts : SUBSET Options]

\* Only a stop task has a regular expression; any other task names one domain.
ASSUME Parameters ==
    /\ Nodes # {} /\ nodes \in Seq(Nodes) /\ Requests \subseteq RequestType
    /\ \A r \in Requests :
         IF "regex" \in r.opts THEN r.kind = "stop" ELSE \E d \in Doms : r.doms = {d}
    /\ MaxTasks \in Nat /\ MaxBusy \in Nat

VARIABLES
    calm,        \* the scheduler sends one task at a time for a domain
    sent,        \* the number of tasks so far
    task,        \* the message of each task
    stage,       \* where each task is
    pc,          \* where the thread of each task for each domain is
    checked,     \* number of nodes check_remote_state has looked at
    persistent,  \* what is_persistent has answered to a stop task
    known,       \* what libvirt on a node knows of a domain
    state,       \* the state of the domain there
    halting,     \* the guest was asked to shut down
    devs         \* the domain has its devices

local == <<checked, persistent>>

libvirt == <<known, state, halting, devs>>

vars == <<calm, sent, task, stage, pc, local, libvirt>>

Steps ==
    {"none", "connect", "remote", "lookup", "config", "boot", "attach",
     "probe", "find", "persistent", "detach", "shutdown", "wait", "undefine",
     "act", "done", "failed"}

Over == {"success", "error"}

NoTask == [kind |-> "none", node |-> CHOOSE n \in Nodes : TRUE, doms |-> {}, opts |-> {}]

TypeOK ==
    /\ calm \in BOOLEAN /\ sent \in 0 .. MaxTasks
    /\ task \in [Tasks -> Requests \cup {NoTask}]
    /\ stage \in [Tasks -> {"none", "list", "run"} \cup Over]
    /\ pc \in [Tasks -> [Doms -> Steps]]
    /\ checked \in [Tasks -> 0 .. Len(nodes)]
    /\ persistent \in [Tasks -> [Doms -> BOOLEAN]]
    /\ known \in [Nodes -> [Doms -> {"unknown", "defined", "transient"}]]
    /\ state \in [Nodes -> [Doms -> {"shutoff", "running", "paused"}]]
    /\ halting \in [Nodes -> [Doms -> BOOLEAN]]
    /\ devs \in [Nodes -> [Doms -> BOOLEAN]]

Init ==
    /\ calm \in BOOLEAN /\ sent = 0 /\ task = [t \in Tasks |-> NoTask]
    /\ stage = [t \in Tasks |-> "none"]
    /\ pc = [t \in Tasks |-> [d \in Doms |-> "none"]]
    /\ checked = [t \in Tasks |-> 0]
    /\ persistent = [t \in Tasks |-> [d \in Doms |-> FALSE]]
    /\ known = [n \in Nodes |-> [d \in Doms |-> "defined"]]
    /\ state = [n \in Nodes |-> [d \in Doms |-> "shutoff"]]
    /\ halting = [n \in Nodes |-> [d \in Doms |-> FALSE]]
    /\ devs = [n \in Nodes |-> [d \in Doms |-> FALSE]]

-----------------------------------------------------------------------------

Node(t) == task[t].node

Asks(t, option) == option \in task[t].opts

Busy(t) == stage[t] \in {"list", "run"}

Active(n, d) == state[n][d] # "shutoff"

\* The thread of task t for domain d, which is about to take the step s.
At(t, d, s) == stage[t] = "run" /\ pc[t][d] = s

Goto(t, d, s) == pc' = [pc EXCEPT ![t][d] = s] /\ UNCHANGED <<calm, sent, task, stage>>

\* An exception leaves the thread's function; nothing is undone.
Fail(t, d) == Goto(t, d, "failed") /\ UNCHANGED <<local, libvirt>>

SetState(n, d, s) == state' = [state EXCEPT ![n][d] = s]

\* The domain is off: libvirt forgets a transient one, the devices are free.
Off(n, d) ==
    /\ SetState(n, d, "shutoff")
    /\ known' = [known EXCEPT ![n][d] = IF @ = "transient" THEN "unknown" ELSE @]
    /\ halting' = [halting EXCEPT ![n][d] = FALSE]
    /\ devs' = [devs EXCEPT ![n][d] = FALSE]

\* The first step of a task's thread.
Entry(kind) ==
    CASE kind = "start" -> "connect"
      [] kind = "stop"  -> "find"
      [] OTHER          -> "act"

\* The scheduler sends a task.  It does not send two starts of a domain at
\* the same time, and in a calm behaviour no two tasks about a domain.
Send(t, r) ==
    /\ sent < MaxTasks /\ ~Busy(t)
    /\ \A u \in Tasks :
         Busy(u) /\ task[u].doms \cap r.doms # {} =>
             ~calm /\ ~(task[u].kind = "start" /\ r.kind = "start")
    /\ sent' = sent + 1 /\ task' = [task EXCEPT ![t] = r]
    /\ stage' = [stage EXCEPT ![t] = IF "regex" \in r.opts THEN "list" ELSE "run"]
    /\ pc' = [pc EXCEPT ![t] =
                [d \in Doms |-> IF d \in r.doms THEN Entry(r.kind) ELSE "none"]]
    /\ UNCHANGED <<calm, local, libvirt>>

-----------------------------------------------------------------------------
(* start *)

Connect(t, d) ==
    /\ At(t, d, "connect")
    /\ \/ Goto(t, d, "remote") /\ UNCHANGED <<local, libvirt>>
       \/ Fail(t, d)

\* check_state(VIR_DOMAIN_SHUTOFF) in check_remote_state.  A node that does
\* not know the domain may go on to the next one: that depends on the text of
\* libvirt's message.
MutOnlyRunning(n, d) == state[n][d] # "running"

ShutOff(n, d) == state[n][d] = "shutoff"

MutOneMore(t, d) ==
    /\ At(t, d, "remote")
    /\ checked' = [checked EXCEPT ![t] = @ + 1]
    /\ \/ checked[t] <= Len(nodes) /\ UNCHANGED <<calm, sent, task, stage, pc>>
       \/ checked[t] > Len(nodes) /\ Goto(t, d, "lookup")
    /\ UNCHANGED <<persistent, libvirt>>

CheckRemoteState(t, d) ==
    /\ At(t, d, "remote")
    /\ \/ /\ checked[t] < Len(nodes)
          /\ ShutOff(nodes[checked[t] + 1], d)
          /\ checked' = [checked EXCEPT ![t] = @ + 1]
          /\ UNCHANGED <<calm, sent, task, stage, pc, persistent, libvirt>>
       \/ /\ checked[t] = Len(nodes) /\ Goto(t, d, "lookup")
          /\ UNCHANGED <<local, libvirt>>
       \/ /\ checked[t] < Len(nodes) /\ Fail(t, d)

\* create_from_xml: paused, and no domain of this name may be active.
CreateFromXml(t, d) ==
    /\ Asks(t, "xml") /\ Asks(t, "transient") /\ ~Active(Node(t), d)
    /\ SetState(Node(t), d, "paused")
    /\ known' = [known EXCEPT ![Node(t)][d] = IF @ = "unknown" THEN "transient" ELSE @]
    /\ UNCHANGED <<halting, devs>>

\* define_from_xml: also of a domain that is active.
DefineFromXml(t, d) ==
    /\ Asks(t, "xml") /\ ~Asks(t, "transient")
    /\ known' = [known EXCEPT ![Node(t)][d] = "defined"]
    /\ UNCHANGED <<state, halting, devs>>

\* find_by_name and check_state.
FindDefined(t, d) ==
    /\ ~Asks(t, "xml") /\ ~Asks(t, "transient")
    /\ known[Node(t)][d] # "unknown" /\ ~Active(Node(t), d)
    /\ UNCHANGED libvirt

GetDomain(t, d) ==
    /\ At(t, d, "lookup")
    /\ \/ /\ CreateFromXml(t, d) \/ DefineFromXml(t, d) \/ FindDefined(t, d)
          /\ Goto(t, d, "config")
          /\ UNCHANGED local
       \/ Fail(t, d)

\* set_max_memory, set_memory, set_max_vcpus and set_vcpus change the
\* persistent configuration, which a transient domain does not have.
SetConfig(t, d) ==
    /\ At(t, d, "config")
    /\ \/ /\ Asks(t, "config") => known[Node(t)][d] = "defined"
          /\ Goto(t, d, "boot")
          /\ UNCHANGED <<local, libvirt>>
       \/ Asks(t, "config") /\ Fail(t, d)

MutNoResume(t, d) ==
    /\ At(t, d, "boot")
    /\ \/ /\ Asks(t, "transient")
          /\ UNCHANGED state
          /\ Goto(t, d, "attach")
       \/ /\ ~Asks(t, "transient")
          /\ known[Node(t)][d] # "unknown" /\ ~Active(Node(t), d)
          /\ SetState(Node(t), d, "running") /\ Goto(t, d, "attach")
    /\ UNCHANGED <<local, known, halting, devs>>

\* resume_domain of a transient domain, create of a persistent one.
Boot(t, d) ==
    /\ At(t, d, "boot")
    /\ \/ /\ known[Node(t)][d] # "unknown"
          /\ Asks(t, "transient") <=> Active(Node(t), d)
          /\ SetState(Node(t), d, "running") /\ Goto(t, d, "attach")
          /\ UNCHANGED <<local, known, halting, devs>>
       \/ Fail(t, d)

\* PCI_device_handler::attach for every id, attach_ivshmem_device.
AttachDevices(t, d) ==
    /\ At(t, d, "attach")
    /\ \/ /\ ~Asks(t, "devices")
          /\ Goto(t, d, "probe")
          /\ UNCHANGED <<local, libvirt>>
       \/ /\ Asks(t, "devices") /\ Active(Node(t), d)
          /\ devs' = [devs EXCEPT ![Node(t)][d] = TRUE]
          /\ Goto(t, d, "probe")
          /\ UNCHANGED <<local, known, state, halting>>
       \/ Asks(t, "devices") /\ Fail(t, d)

\* probe_ssh_connection: tries until the domain answers or start_timeout.
Probe(t, d) ==
    /\ At(t, d, "probe")
    /\ \/ /\ Asks(t, "probe") => state[Node(t)][d] = "running"
          /\ Goto(t, d, "done")
          /\ UNCHANGED <<local, libvirt>>
       \/ Asks(t, "probe") /\ Fail(t, d)

-----------------------------------------------------------------------------
(* stop *)

\* The names of the active domains that match: one thread for each.
ListActive(t) ==
    /\ stage[t] = "list"
    /\ \/ /\ stage' = [stage EXCEPT ![t] = "run"]
          /\ pc' = [pc EXCEPT ![t] =
                      [d \in Doms |-> IF Active(Node(t), d) THEN @[d] ELSE "none"]]
          /\ UNCHANGED task
       \/ /\ stage' = [stage EXCEPT ![t] = "error"]
          /\ pc' = [pc EXCEPT ![t] = [d \in Doms |-> "none"]]
          /\ task' = [task EXCEPT ![t] = NoTask]
    /\ UNCHANGED <<calm, sent, local, libvirt>>

\* connect, find_by_name and check_state(VIR_DOMAIN_RUNNING).
FindRunning(t, d) ==
    /\ At(t, d, "find")
    /\ \/ /\ state[Node(t)][d] = "running"
          /\ Goto(t, d, "persistent")
          /\ UNCHANGED <<local, libvirt>>
       \/ Fail(t, d)

IsPersistent(t, d) ==
    /\ At(t, d, "persistent")
    /\ \/ /\ known[Node(t)][d] # "unknown"
          /\ persistent' = [persistent EXCEPT ![t][d] = known[Node(t)][d] = "defined"]
          /\ Goto(t, d, "detach")
          /\ UNCHANGED <<checked, libvirt>>
       \/ Fail(t, d)

\* PCI_device_handler::detach, which only logs a device that stays.
DetachDevices(t, d) ==
    /\ At(t, d, "detach")
    /\ \/ /\ known[Node(t)][d] # "unknown"
          /\ \/ devs' = [devs EXCEPT ![Node(t)][d] = FALSE]
             \/ UNCHANGED devs
          /\ Goto(t, d, "shutdown")
          /\ UNCHANGED <<local, known, state, halting>>
       \/ Fail(t, d)

\* virDomainDestroy or virDomainShutdown.
ShutDown(t, d) ==
    /\ At(t, d, "shutdown")
    /\ \/ /\ Asks(t, "force") /\ Active(Node(t), d)
          /\ Off(Node(t), d) /\ Goto(t, d, "wait")
          /\ UNCHANGED local
       \/ /\ ~Asks(t, "force") /\ Active(Node(t), d)
          /\ halting' = [halting EXCEPT ![Node(t)][d] = TRUE]
          /\ Goto(t, d, "wait")
          /\ UNCHANGED <<local, known, state, devs>>
       \/ Fail(t, d)

\* The state of a domain that libvirt does not know any more is an error,
\* which is expected of a transient domain only.
Gone(t, d) == known[Node(t)][d] = "unknown" /\ ~persistent[t][d]

MutNoTimeout(t, d) ==
    /\ At(t, d, "wait") /\ ~Active(Node(t), d) /\ Goto(t, d, "undefine")
    /\ UNCHANGED <<local, libvirt>>

\* wait_for_state(VIR_DOMAIN_SHUTOFF), which gives up after stop_timeout.
WaitForState(t, d) ==
    /\ At(t, d, "wait")
    /\ \/ /\ Gone(t, d) \/ (known[Node(t)][d] # "unknown" /\ ~Active(Node(t), d))
          /\ Goto(t, d, "undefine")
          /\ UNCHANGED <<local, libvirt>>
       \/ Fail(t, d)

\* virDomainUndefine makes an active domain transient.
Undefine(t, d) ==
    /\ At(t, d, "undefine")
    /\ \/ /\ ~Asks(t, "undefine")
          /\ Goto(t, d, "done")
          /\ UNCHANGED <<local, libvirt>>
       \/ /\ Asks(t, "undefine") /\ known[Node(t)][d] = "defined"
          /\ known' = [known EXCEPT ![Node(t)][d] =
                         IF Active(Node(t), d) THEN "transient" ELSE "unknown"]
          /\ Goto(t, d, "done")
          /\ UNCHANGED <<local, state, halting, devs>>
       \/ Asks(t, "undefine") /\ Fail(t, d)

-----------------------------------------------------------------------------
(* suspend, resume and repin: one call each, after find_by_name. *)

Act(t, d) ==
    /\ At(t, d, "act")
    /\ \/ /\ task[t].kind = "suspend" /\ Active(Node(t), d)
          /\ SetState(Node(t), d, "paused") /\ Goto(t, d, "done")
          /\ UNCHANGED <<local, known, halting, devs>>
       \/ /\ task[t].kind = "resume" /\ Active(Node(t), d)
          /\ SetState(Node(t), d, "running") /\ Goto(t, d, "done")
          /\ UNCHANGED <<local, known, halting, devs>>
       \/ /\ task[t].kind = "repin" /\ known[Node(t)][d] # "unknown"
          /\ Goto(t, d, "done")
          /\ UNCHANGED <<local, libvirt>>
       \/ Fail(t, d)

-----------------------------------------------------------------------------

\* The task returns when its threads have; the futures of the threads for a
\* regular expression are not asked for their exceptions.
Finish(t) ==
    /\ stage[t] = "run"
    /\ \A d \in Doms : pc[t][d] \in {"none", "done", "failed"}
    /\ stage' = [stage EXCEPT ![t] =
                   IF ~Asks(t, "regex") /\ \E d \in Doms : pc[t][d] = "failed"
                   THEN "error" ELSE "success"]
    /\ task' = [task EXCEPT ![t] = NoTask]
    /\ pc' = [pc EXCEPT ![t] = [d \in Doms |-> "none"]]
    /\ checked' = [checked EXCEPT ![t] = 0]
    /\ persistent' = [persistent EXCEPT ![t] = [d \in Doms |-> FALSE]]
    /\ UNCHANGED <<calm, sent, libvirt>>

\* The guest obeys: external, and it need not.
GuestHalts(n, d) ==
    /\ halting[n][d] /\ state[n][d] = "running" /\ Off(n, d)
    /\ UNCHANGED <<calm, sent, task, stage, pc, local>>

ThreadStep(t, d) ==
    \/ Connect(t, d) \/ CheckRemoteState(t, d) \/ GetDomain(t, d)
    \/ SetConfig(t, d) \/ Boot(t, d) \/ AttachDevices(t, d) \/ Probe(t, d)
    \/ FindRunning(t, d) \/ IsPersistent(t, d) \/ DetachDevices(t, d)
    \/ ShutDown(t, d) \/ WaitForState(t, d) \/ Undefine(t, d)
    \/ Act(t, d)

TaskStep(t) == ListActive(t) \/ Finish(t)

Next ==
    \/ \E t \in Tasks, r \in Requests : Send(t, r)
    \/ \E t \in Tasks, d \in Doms : ThreadStep(t, d)
    \/ \E t \in Tasks : TaskStep(t)
    \/ \E n \in Nodes, d \in Doms : GuestHalts(n, d)

\* Threads that can run do run: every wait of the code has a timeout.
Fairness ==
    \A t \in Tasks :
        /\ WF_vars(TaskStep(t))
        /\ \A d \in Doms : WF_vars(ThreadStep(t, d))

Spec == Init /\ [][Next]_vars /\ Fairness

-----------------------------------------------------------------------------
(* Properties. *)

\* start: "Check if domain already running on a remote host".  A domain is
\* active on one of the listed nodes at most, whatever other tasks do meanwhile
\* there and on the others, if the scheduler does not start it twice at the
\* same time.
OneInstance ==
    \A d \in Doms : Cardinality({n \in Listed : Active(n, d)}) <= 1

\* Task t about domain d has just reported success.
Succeeds(t, d) ==
    stage[t] = "run" /\ stage'[t] = "success" /\ d \in task[t].doms

\* A task that reports success, undisturbed by other tasks about the domain,
\* has done what it says, also when an earlier stop has timed out and the guest
\* obeys it late.  A start leaves the domain running with the devices asked
\* for, persistent or transient; a stop by name ("Domains are stopped.",
\* mqtt-spec.md) leaves it off and, if asked to, undefined.
SuccessMeansDone ==
    [][\A t \in Tasks, d \in Doms :
         Succeeds(t, d) /\ calm =>
             /\ task[t].kind = "start" =>
                  /\ state[Node(t)][d] = "running"
                  /\ Asks(t, "devices") => devs[Node(t)][d]
             /\ task[t].kind = "stop" /\ ~Asks(t, "regex") =>
                  /\ ~Active(Node(t), d)
                  /\ Asks(t, "undefine") => known[Node(t)][d] = "unknown"]_vars

\* Every task ends, also when a guest does not react to the shutdown or never
\* answers over SSH.
TasksEnd == \A t \in Tasks : Busy(t) ~> ~Busy(t)

=============================================================================
