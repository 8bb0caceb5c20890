------------------------------- MODULE Migrate -------------------------------
(***************************************************************************)
(* Libvirt_hypervisor::migrate without swap_with: one domain leaves the    *)
(* node, under the RAII guards Pscom_handler, Migrate_ivshmem_guard,       *)
(* Migrate_devices_guard and Repin_guard.  Constructors run in this order, *)
(* destructors in reverse; a destructor swallows its exception while the   *)
(* stack is unwound and rethrows it otherwise.                             *)
(*                                                                         *)
(* libvirt, the MQTT broker and the pscom processes in the domain are      *)
(* external.  Which of their calls may fail is fixed at the beginning.     *)
(***************************************************************************)
EXTENDS Naturals, Sequences, FiniteSets

CONSTANTS
    Procs,        \* pscom processes that run in the domain
    PciDevices,   \* the numbers of PCI devices the domain may start with
    HostPci,      \* number of PCI devices of the type on each host
    IvDevices,    \* the numbers of ivshmem devices the domain may start with
    HookProcs,    \* the values of pscom-hook-procs the scheduler asks for
    MaxAttempts,  \* bound: number of migrate tasks
    FaultSets     \* which external calls may fail: the cases to look at

AllFaults ==
    {"lookup", "send", "loss", "timeout", "detach_ivshmem", "detach_pci",
     "connect", "migrate", "repin", "resume_domain", "attach_pci",
     "attach_ivshmem", "unsubscribe"}

\* Failures after which nothing but the migration itself is lost.
Recoverable == {"lookup", "detach_ivshmem", "connect", "migrate"}

ASSUME Parameters ==
    /\ IsFiniteSet(Procs) /\ HostPci \in Nat
    /\ PciDevices \subseteq 0 .. HostPci /\ IvDevices \subseteq Nat
    /\ HookProcs \subseteq Nat /\ MaxAttempts \in Nat
    /\ FaultSets \subseteq SUBSET AllFaults

VARIABLES
    attempt,     \* number of migrate tasks so far
    pc,          \* where the task is
    exc,         \* an exception is on its way up: the stack is unwound
    result,      \* how the last task ended
    vcpu_map,    \* the task has a vcpu map: the domain is to be repinned
    expected,    \* Pscom_handler::messages_expected
    answers,     \* Pscom_handler::answers
    ivDetached,  \* size of Migrate_ivshmem_guard::detached_devices
    pciDetached, \* sum of Migrate_devices_guard::detached_types_counts
    host,        \* the host of the domain
    paused,      \* the domain is paused
    pinned,      \* the vcpus are pinned as the last task asked
    iv,          \* number of ivshmem devices attached to the domain
    pci,         \* number of PCI devices attached to the domain
    procs,       \* state of the pscom processes
    requests,    \* requests on their way to each process
    subscribed,  \* the communicator has subscribed to the response topic
    queue,       \* number of answers waiting in the communicator
    asked,       \* the last request sent to the processes by this task
    before,      \* the devices of the domain when the task began (history)
    faults       \* the external calls that may fail in this behaviour

task == <<attempt, result, vcpu_map, expected, before, faults>>

guards == <<answers, ivDetached, pciDetached>>

domain == <<host, paused, pinned, iv, pci>>

pscom == <<procs, requests, subscribed, queue, asked>>

vars == <<task, pc, exc, guards, domain, pscom>>

Stages ==
    {"idle", "suspend", "ivshmem", "devices", "connect", "migrate", "~repin",
     "~devices", "~ivshmem", "~pscom", "resume"}

TypeOK ==
    /\ attempt \in 0 .. MaxAttempts /\ pc \in Stages /\ exc \in BOOLEAN
    /\ result \in {"none", "success", "error"} /\ vcpu_map \in BOOLEAN
    /\ expected \in Nat /\ answers \in Nat /\ ivDetached \in Nat
    /\ pciDetached \in Nat /\ host \in {"source", "destination"}
    /\ paused \in BOOLEAN /\ pinned \in BOOLEAN /\ iv \in Nat /\ pci \in Nat
    /\ procs \in [Procs -> {"running", "suspended"}]
    /\ requests \in [Procs -> Seq({"suspend", "resume"})]
    /\ subscribed \in BOOLEAN /\ queue \in Nat
    /\ asked \in {"none", "suspend", "resume"}
    /\ before \in [iv : Nat, pci : Nat] /\ faults \in SUBSET AllFaults

Init ==
    /\ attempt = 0 /\ pc = "idle" /\ exc = FALSE /\ result = "none"
    /\ vcpu_map = FALSE /\ expected = 0
    /\ answers = 0 /\ ivDetached = 0 /\ pciDetached = 0
    /\ host = "source" /\ paused = FALSE /\ pinned = FALSE
    /\ iv \in IvDevices /\ pci \in PciDevices
    /\ before = [iv |-> iv, pci |-> pci] /\ faults \in FaultSets
    /\ procs = [p \in Procs |-> "running"] /\ requests = [p \in Procs |-> <<>>]
    /\ subscribed = FALSE /\ queue = 0 /\ asked = "none"

-----------------------------------------------------------------------------
(* Exceptions. *)

May(fault) == fault \in faults

\* The task ends with this exception or without one.
End(e) ==
    /\ pc' = "idle" /\ exc' = FALSE
    /\ result' = IF e THEN "error" ELSE "success"
    /\ UNCHANGED <<attempt, vcpu_map, expected, before, faults>>

Goto(stage) == pc' = stage /\ UNCHANGED <<task, exc>>

\* A call in a constructor or in the body throws: unwinding begins with the
\* destructor of the guard that was constructed last.
Throw(stage) == pc' = stage /\ exc' = TRUE /\ UNCHANGED task

\* An exception in a destructor: swallowed during unwinding, else it becomes
\* the exception of the task.  The next destructor runs in any case.
MutSwallow(stage) == Goto(stage)

DestructorThrows(stage) == pc' = stage /\ exc' = TRUE /\ UNCHANGED task

-----------------------------------------------------------------------------
(* The pscom processes and the broker (external). *)

\* A request is published with QoS 0: each process may miss it.
Publish(request) ==
    /\ asked' = request
    /\ \E missed \in SUBSET Procs :
         /\ missed # {} => May("loss")
         /\ requests' = [p \in Procs |->
                IF p \in missed THEN requests[p] ELSE Append(requests[p], request)]

\* A process does what it is asked and answers, while its domain runs.
ProcAnswers(p) ==
    /\ ~paused /\ requests[p] # <<>>
    /\ requests' = [requests EXCEPT ![p] = Tail(@)]
    /\ procs' = [procs EXCEPT ![p] =
                   IF Head(requests[p]) = "suspend" THEN "suspended" ELSE "running"]
    /\ \/ queue' = IF subscribed THEN queue + 1 ELSE queue
       \/ May("loss") /\ UNCHANGED queue
    /\ UNCHANGED <<task, pc, exc, guards, domain, subscribed, asked>>

-----------------------------------------------------------------------------
(* Pscom_handler. *)

\* connect, find_by_name and check_state, then the constructor of
\* Pscom_handler up to add_subscription.
Begin(hook_procs, repin) ==
    /\ pc = "idle" /\ attempt < MaxAttempts
    /\ attempt' = attempt + 1 /\ vcpu_map' = repin /\ expected' = hook_procs
    /\ before' = [iv |-> iv, pci |-> pci]
    /\ answers' = 0 /\ ivDetached' = 0 /\ pciDetached' = 0 /\ asked' = "none"
    /\ exc' = FALSE
    /\ \/ /\ May("lookup") \/ host # "source"
          /\ pc' = "idle" /\ result' = "error"
          /\ UNCHANGED subscribed
       \/ /\ host = "source" /\ ~paused
          /\ pc' = IF hook_procs = 0 THEN "ivshmem" ELSE "suspend"
          /\ result' = "none"
          /\ subscribed' = (subscribed \/ hook_procs > 0)
    /\ UNCHANGED <<domain, procs, requests, queue, faults>>

\* suspend() and resume() publish a request and then wait for one answer per
\* process; asked tells the two phases apart.
\* When sending fails the subscription stays: the destructor of an unfinished
\* object never runs.
SuspendRequest ==
    /\ pc = "suspend" /\ asked = "none"
    /\ \/ Publish("suspend") /\ Goto("suspend")
       \/ /\ May("send") /\ End(TRUE)
          /\ UNCHANGED <<requests, asked>>
    /\ UNCHANGED <<guards, domain, procs, subscribed, queue>>

SuspendAnswer ==
    /\ pc = "suspend" /\ asked = "suspend" /\ answers # expected /\ queue > 0
    /\ queue' = queue - 1 /\ answers' = answers + 1
    /\ UNCHANGED <<task, pc, exc, ivDetached, pciDetached, domain, procs,
                   requests, subscribed, asked>>

MutOneShort ==
    /\ pc = "suspend" /\ asked = "suspend" /\ answers + 1 = expected
    /\ Goto("ivshmem")
    /\ UNCHANGED <<guards, domain, pscom>>

Suspended ==
    /\ pc = "suspend" /\ asked = "suspend" /\ answers = expected
    /\ Goto("ivshmem")
    /\ UNCHANGED <<guards, domain, pscom>>

\* get_message gives up after ten seconds and the constructor throws: no
\* resume request, no unsubscription.
MutNoTimeout == FALSE /\ UNCHANGED vars

SuspendTimeout ==
    /\ pc = "suspend" /\ asked = "suspend" /\ answers # expected /\ queue = 0
    /\ May("timeout") /\ End(TRUE)
    /\ UNCHANGED <<guards, domain, pscom>>

\* remove_subscription drops the queue of the topic.
Unsubscribe == subscribed' = FALSE /\ queue' = 0

\* ~Pscom_handler ends.  When remove_subscription throws it is called once
\* more, and the first exception is rethrown unless the stack is unwound.
EndUnsubscribed(e) ==
    \/ Unsubscribe /\ End(e)
    \/ /\ May("unsubscribe") /\ End(TRUE)
       /\ Unsubscribe \/ UNCHANGED <<subscribed, queue>>

\* ~Pscom_handler: resume only what was suspended completely.
MutOnlyOnSuccess ==
    /\ pc = "~pscom" /\ expected > 0 /\ answers = expected
    /\ IF exc
       THEN /\ Unsubscribe
            /\ End(TRUE)
            /\ UNCHANGED <<answers, requests, asked>>
       ELSE /\ Publish("resume")
            /\ Goto("resume")
            /\ answers' = 0
            /\ UNCHANGED <<subscribed, queue>>
    /\ UNCHANGED <<ivDetached, pciDetached, domain, procs>>

ResumeRequest ==
    /\ pc = "~pscom" /\ expected > 0 /\ answers = expected
    /\ \/ /\ Publish("resume")
          /\ Goto("resume")
          /\ answers' = 0
          /\ UNCHANGED <<subscribed, queue>>
       \/ /\ May("send") /\ EndUnsubscribed(TRUE)
          /\ UNCHANGED <<answers, requests, asked>>
    /\ UNCHANGED <<ivDetached, pciDetached, domain, procs>>

NoResume ==
    /\ pc = "~pscom" /\ ~(expected > 0 /\ answers = expected)
    /\ IF expected > 0 THEN EndUnsubscribed(exc)
                       ELSE End(exc) /\ UNCHANGED <<subscribed, queue>>
    /\ UNCHANGED <<guards, domain, procs, requests, asked>>

ResumeAnswer ==
    /\ pc = "resume" /\ answers # expected /\ queue > 0
    /\ queue' = queue - 1 /\ answers' = answers + 1
    /\ UNCHANGED <<task, pc, exc, ivDetached, pciDetached, domain, procs,
                   requests, subscribed, asked>>

Resumed ==
    /\ pc = "resume" /\ answers = expected
    /\ answers' = 0
    /\ EndUnsubscribed(exc)
    /\ UNCHANGED <<ivDetached, pciDetached, domain, procs, requests, asked>>

ResumeTimeout ==
    /\ pc = "resume" /\ answers # expected /\ queue = 0 /\ May("timeout")
    /\ EndUnsubscribed(TRUE)
    /\ UNCHANGED <<guards, domain, procs, requests, asked>>

-----------------------------------------------------------------------------
(* Migrate_ivshmem_guard and Migrate_devices_guard: the constructors. *)

\* Both read the domain's XML first, which may fail.  More than one device is
\* an error, and so is a device that does not detach; the guard is not
\* constructed and its destructor does not run.
DetachIvshmem ==
    /\ pc = "ivshmem"
    /\ \/ /\ iv > 1 \/ May("lookup") \/ (iv = 1 /\ May("detach_ivshmem"))
          /\ Throw("~pscom")
          /\ UNCHANGED <<iv, ivDetached>>
       \/ /\ iv <= 1
          /\ iv' = 0 /\ ivDetached' = iv
          /\ Goto("devices")
    /\ UNCHANGED <<answers, pciDetached, host, paused, pinned, pci, pscom>>

\* PCI_device_handler::detach only logs that a device did not detach and
\* counts it like the others.
DetachPci ==
    /\ pc = "devices"
    /\ \/ /\ May("lookup")
          /\ Throw("~ivshmem")
          /\ UNCHANGED <<pci, pciDetached>>
       \/ \E stuck \in 0 .. pci :
            /\ stuck > 0 => May("detach_pci")
            /\ pci' = stuck /\ pciDetached' = pci
            /\ Goto("connect")
    /\ UNCHANGED <<answers, ivDetached, host, paused, pinned, iv, pscom>>

-----------------------------------------------------------------------------
(* The body. *)

MutSkipGuard ==
    /\ pc = "connect"
    /\ \/ Goto("migrate")
       \/ May("connect") /\ Throw("~ivshmem")
    /\ UNCHANGED <<guards, domain, pscom>>

\* The constructor of Repin_guard has set the flag VIR_MIGRATE_PAUSED when
\* there is a vcpu map; then the destination is connected.
Connect ==
    /\ pc = "connect"
    /\ \/ Goto("migrate")
       \/ May("connect") /\ Throw("~repin")
    /\ UNCHANGED <<guards, domain, pscom>>

\* libvirt refuses a domain that still has a PCI device.  With the flag the
\* domain arrives paused.  From here on the guards hold the domain at the
\* destination.
MigrateDomain ==
    /\ pc = "migrate"
    /\ \/ /\ May("migrate") \/ pci > 0
          /\ Throw("~repin")
          /\ UNCHANGED <<host, paused, pinned>>
       \/ /\ pci = 0
          /\ host' = "destination" /\ paused' = vcpu_map /\ pinned' = FALSE
          /\ Goto("~repin")
    /\ UNCHANGED <<guards, iv, pci, pscom>>

-----------------------------------------------------------------------------
(* The destructors. *)

\* ~Repin_guard: repin, unless the stack is unwound, then resume.
Repin ==
    /\ pc = "~repin"
    /\ \/ /\ ~vcpu_map
          /\ Goto("~devices")
          /\ UNCHANGED <<paused, pinned>>
       \/ /\ vcpu_map
          /\ pinned' = (pinned \/ ~exc)
          /\ \/ paused' = FALSE /\ Goto("~devices")
             \/ /\ May("resume_domain")
                /\ UNCHANGED paused
                /\ DestructorThrows("~devices")
       \/ /\ vcpu_map /\ ~exc /\ May("repin")
          /\ UNCHANGED <<paused, pinned>>
          /\ DestructorThrows("~devices")
    /\ UNCHANGED <<guards, host, iv, pci, pscom>>

MutOnePerType ==
    /\ pc = "~devices" /\ pciDetached > 0
    /\ pciDetached' = pciDetached - 1 /\ pci' = pci + 1
    /\ Goto("~ivshmem")
    /\ UNCHANGED <<answers, ivDetached, host, paused, pinned, iv, pscom>>

MutPostTest ==
    /\ pc = "~devices" /\ pci < HostPci
    /\ pciDetached' = pciDetached - 1 /\ pci' = pci + 1
    /\ Goto("~devices")
    /\ UNCHANGED <<answers, ivDetached, host, paused, pinned, iv, pscom>>

\* ~Migrate_devices_guard: as many devices as were counted are attached, one
\* after the other; attach fails when no device of the host is left.
AttachPci ==
    /\ pc = "~devices" /\ pciDetached > 0
    /\ \/ /\ pci < HostPci
          /\ pci' = pci + 1 /\ pciDetached' = pciDetached - 1
          /\ Goto("~devices")
       \/ /\ May("attach_pci") \/ pci = HostPci
          /\ DestructorThrows("~ivshmem")
          /\ UNCHANGED <<pci, pciDetached>>
    /\ UNCHANGED <<answers, ivDetached, host, paused, pinned, iv, pscom>>

PciAttached ==
    /\ pc = "~devices" /\ pciDetached = 0 /\ Goto("~ivshmem")
    /\ UNCHANGED <<guards, domain, pscom>>

\* ~Migrate_ivshmem_guard: reattach the device that was detached.
AttachIvshmem ==
    /\ pc = "~ivshmem"
    /\ \/ iv' = iv + ivDetached /\ Goto("~pscom")
       \/ /\ ivDetached > 0 /\ May("attach_ivshmem")
          /\ DestructorThrows("~pscom")
          /\ UNCHANGED iv
    /\ UNCHANGED <<guards, host, paused, pinned, pci, pscom>>

-----------------------------------------------------------------------------
(* The specification. *)

\* The steps of a migrate task once it has begun.
TaskStep ==
    \/ SuspendRequest \/ SuspendAnswer \/ Suspended \/ SuspendTimeout
    \/ DetachIvshmem \/ DetachPci \/ Connect \/ MigrateDomain
    \/ Repin \/ AttachPci \/ PciAttached \/ AttachIvshmem
    \/ ResumeRequest \/ NoResume \/ ResumeAnswer \/ Resumed \/ ResumeTimeout

Next ==
    \/ \E n \in HookProcs, repin \in BOOLEAN : Begin(n, repin)
    \/ TaskStep
    \/ \E p \in Procs : ProcAnswers(p)

\* A thread of the agent that can run does run (the wait for an answer is
\* bounded by its timeout), and a process of a running domain gets to read its
\* requests.  Nothing obliges the scheduler to send a task.
Fairness ==
    /\ WF_vars(TaskStep)
    /\ \A p \in Procs : WF_vars(ProcAnswers(p))

Spec == Init /\ [][Next]_vars /\ Fairness

-----------------------------------------------------------------------------
(* Properties. *)

Guarded == {"ivshmem", "devices", "connect", "migrate", "~repin", "~devices",
            "~ivshmem", "~pscom"}

\* Between the constructor and the destructor of Pscom_handler every process
\* of the domain is suspended, in particular while the domain moves ("ensures
\* that processes using parastation are suspended during migration").
SuspendedWhileMigrating ==
    pc \in Guarded /\ expected > 0 =>
        \A p \in Procs : procs[p] = "suspended"

\* No wait of an earlier attempt has run into its timeout.
NoLateAnswer == attempt = 1 \/ ~May("timeout")

\* The same, as long as no answer of an earlier attempt can still arrive.
SuspendedInTime == NoLateAnswer => SuspendedWhileMigrating

\* A task that reports success has moved the domain and has left nothing
\* behind: it runs, pinned as asked, with all its devices and processes.
SuccessMeansComplete ==
    pc = "idle" /\ result = "success" =>
        /\ host = "destination" /\ ~paused
        /\ vcpu_map => pinned
        /\ iv = before.iv /\ pci = before.pci
        /\ expected > 0 /\ NoLateAnswer => \A p \in Procs : procs[p] = "running"

\* Without an error the processes are told to resume only when the domain
\* runs and has its devices again: the guards are destroyed in the order
\* Repin, PCI, ivshmem, pscom.
ResumedLast ==
    pc = "resume" /\ ~exc =>
        ~paused /\ iv = before.iv /\ pci = before.pci

\* A task that fails before the domain has moved leaves it running on the
\* source with the devices it had, whichever of the recoverable calls failed
\* and however many tasks failed before.
RestoredOnError ==
    faults \subseteq Recoverable /\ pc = "idle" /\ result = "error" /\ host = "source" =>
        ~paused /\ iv = before.iv /\ pci = before.pci

\* Every task ends: the waits for the processes are bounded.
TaskEnds == pc # "idle" ~> pc = "idle"

\* A process that was suspended for a migration is resumed, whether the
\* migration succeeds or a recoverable call fails.
ProcsResume ==
    \A p \in Procs :
        faults \subseteq Recoverable /\ procs[p] = "suspended" ~> procs[p] = "running"

=============================================================================
