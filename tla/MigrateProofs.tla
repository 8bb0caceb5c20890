---------------------------- MODULE MigrateProofs ----------------------------
(***************************************************************************)
(* The migration of one domain for any number of processes, devices and    *)
(* tasks and any set of failing calls: the guards of migrate undo what     *)
(* they did, success means a complete domain, and the processes are        *)
(* suspended while their domain moves.                                     *)
(***************************************************************************)
EXTENDS Migrate, FiniteSetTheorems, TLAPS

-----------------------------------------------------------------------------
(* The inductive invariant of the guards. *)

\* Nothing is lost in this task: no exception, or only such that the guards
\* recover from.
OnlyRecoverable == faults \subseteq Recoverable

Sound == ~exc \/ OnlyRecoverable

Whole == iv = before.iv /\ pci = before.pci

Arrived == host = "destination" /\ ~paused /\ (vcpu_map => pinned)

Ahead == {"suspend", "ivshmem", "devices", "connect", "migrate"}

\* Before the domain moves it runs on the source, and nothing has thrown.
NotMoved == pc \in Ahead => host = "source" /\ ~paused /\ ~exc /\ result = "none"

\* The domain is paused only for Repin_guard.
PausedForRepin ==
    /\ OnlyRecoverable /\ pc # "~repin" => ~paused
    /\ pc = "~repin" => IF exc THEN ~paused ELSE host = "destination" /\ paused = vcpu_map
    /\ pc \in {"~devices", "~ivshmem", "~pscom", "resume"} /\ ~exc => Arrived

\* Migrate_ivshmem_guard holds the device while it is off the domain.
IvHeld ==
    pc \in {"devices", "connect", "migrate", "~repin", "~devices", "~ivshmem"} =>
        iv = 0 /\ ivDetached = before.iv

\* Migrate_devices_guard holds the devices that are off the domain.
PciHeld ==
    /\ pci <= HostPci /\ before.pci <= HostPci
    /\ pc = "devices" => pci = before.pci
    /\ pc \in {"connect", "migrate", "~repin"} => pciDetached = before.pci
    /\ pc \in {"connect", "migrate"} /\ OnlyRecoverable => pci = 0
    /\ pc = "~repin" /\ Sound => pci = 0
    /\ pc = "~devices" /\ Sound => pci + pciDetached = before.pci
    /\ pc = "~ivshmem" /\ Sound => pci = before.pci

\* Neither guard holds anything.
NothingHeld ==
    /\ pc \in {"suspend", "ivshmem"} => Whole
    /\ pc \in {"~pscom", "resume"} /\ Sound => Whole

\* How a task ends.
Ended ==
    pc = "idle" =>
        /\ ~exc
        /\ result = "success" => Arrived /\ Whole
        /\ result = "error" /\ OnlyRecoverable => Whole

GuardInv ==
    /\ TypeOK /\ NotMoved /\ PausedForRepin /\ IvHeld /\ PciHeld /\ NothingHeld /\ Ended

-----------------------------------------------------------------------------
(* The inductive invariant of the dialogue with the processes. *)

\* The scheduler states at least the number of processes there are.
Told == \A n \in HookProcs : n = 0 \/ n >= Cardinality(Procs)

\* No request and no answer is on its way.
Silent == queue = 0 /\ \A p \in Procs : requests[p] = <<>>

All(s) == \A p \in Procs : procs[p] = s

\* The processes that have done what they were asked.
Obeyed(s) == {p \in Procs : requests[p] = <<>> /\ procs[p] = s}

\* A request is on its way to some; no answer is counted that was not given.
Asking(request, s) ==
    /\ \A p \in Procs : requests[p] \in {<<>>, <<request>>}
    /\ answers + queue <= Cardinality(Obeyed(s))

\* The count that the handler waits for.
Counted ==
    /\ expected = 0 \/ expected >= Cardinality(Procs)
    /\ pc \in {"suspend", "resume"} => expected > 0
    /\ pc = "suspend" => asked \in {"none", "suspend"}
    /\ pc # "idle" => attempt > 0

SilentBetween ==
    /\ pc = "idle" /\ (attempt = 0 \/ ~May("timeout")) => Silent
    /\ pc = "idle" /\ result = "success" /\ NoLateAnswer =>
         Silent /\ (expected > 0 => All("running"))

Dialogue ==
    pc # "idle" /\ NoLateAnswer =>
        /\ pc = "suspend" /\ asked = "none" => Silent /\ answers = 0
        /\ pc = "suspend" /\ asked = "suspend" => Asking("suspend", "suspended")
        /\ pc \in Guarded => /\ Silent
                             /\ expected > 0 => answers = expected /\ All("suspended")
        /\ pc = "resume" => Asking("resume", "running")

ProcInv == GuardInv /\ Told /\ Counted /\ SilentBetween /\ Dialogue

-----------------------------------------------------------------------------
(* Types. *)

LEMMA InitType == Init => TypeOK
<1> SUFFICES ASSUME Init PROVE TypeOK
  OBVIOUS
<1>1. iv \in Nat /\ pci \in Nat /\ faults \in SUBSET AllFaults /\ attempt \in 0 .. MaxAttempts
  BY Parameters DEF Init, Parameters
<1>2. before \in [iv : Nat, pci : Nat]
  BY <1>1 DEF Init
<1>3. requests \in [Procs -> Seq({"suspend", "resume"})]
  BY DEF Init
<1> QED
  BY <1>1, <1>2, <1>3 DEF Init, TypeOK, Stages

LEMMA BeginType ==
    ASSUME TypeOK, NEW n \in HookProcs, NEW repin \in BOOLEAN, Begin(n, repin)
    PROVE  TypeOK'
<1>1. n \in Nat /\ attempt' \in 0 .. MaxAttempts
  BY Parameters DEF Parameters, TypeOK, Begin
<1>2. before' \in [iv : Nat, pci : Nat]
  BY DEF TypeOK, Begin
<1>3. subscribed' \in BOOLEAN
  BY DEF TypeOK, Begin
<1>4. pc' \in Stages /\ result' \in {"none", "success", "error"}
  BY DEF Begin, Stages
<1> QED
  BY <1>1, <1>2, <1>3, <1>4 DEF TypeOK, Begin, domain

\* Publishing appends a request to the input of each process or does not.
LEMMA PublishType ==
    ASSUME TypeOK, NEW request \in {"suspend", "resume"}, Publish(request)
    PROVE  /\ requests' \in [Procs -> Seq({"suspend", "resume"})]
           /\ asked' = request
           /\ \A p \in Procs : requests'[p] \in {requests[p], Append(requests[p], request)}
<1>1. PICK missed \in SUBSET Procs :
        requests' = [p \in Procs |->
            IF p \in missed THEN requests[p] ELSE Append(requests[p], request)]
  BY DEF Publish
<1>2. ASSUME NEW p \in Procs
      PROVE  requests[p] \in Seq({"suspend", "resume"})
             /\ Append(requests[p], request) \in Seq({"suspend", "resume"})
  BY DEF TypeOK
<1> QED
  BY <1>1, <1>2 DEF Publish

LEMMA ProcAnswersType ==
    ASSUME TypeOK, NEW p \in Procs, ProcAnswers(p)
    PROVE  TypeOK'
<1>1. requests[p] \in Seq({"suspend", "resume"}) /\ requests[p] # <<>>
  BY DEF TypeOK, ProcAnswers
<1>2. Tail(requests[p]) \in Seq({"suspend", "resume"})
  BY <1>1
<1>3. requests' \in [Procs -> Seq({"suspend", "resume"})]
  BY <1>2 DEF TypeOK, ProcAnswers
<1>4. procs' \in [Procs -> {"running", "suspended"}]
  BY DEF TypeOK, ProcAnswers
<1>5. queue' \in Nat
  BY DEF TypeOK, ProcAnswers
<1> QED
  BY <1>3, <1>4, <1>5 DEF TypeOK, ProcAnswers, task, guards, domain

\* However remove_subscription ends, the task does.
LEMMA EndUnsubscribedFacts ==
    ASSUME TypeOK, NEW e \in BOOLEAN, EndUnsubscribed(e)
    PROVE  /\ UNCHANGED <<attempt, vcpu_map, expected, before, faults>>
           /\ pc' = "idle" /\ exc' = FALSE /\ (result' = "error" \/ (result' = "success" /\ ~e))
           /\ subscribed' \in BOOLEAN /\ (queue' = queue \/ queue' = 0)
  BY DEF EndUnsubscribed, Unsubscribe, End, TypeOK

LEMMA PscomType ==
    ASSUME TypeOK,
           \/ SuspendRequest \/ SuspendAnswer \/ Suspended \/ SuspendTimeout
           \/ ResumeRequest \/ NoResume \/ ResumeAnswer \/ Resumed \/ ResumeTimeout
    PROVE  TypeOK'
<1>1. CASE SuspendRequest
  <2>1. CASE Publish("suspend")
    BY <1>1, <2>1, PublishType DEF TypeOK, SuspendRequest, Goto, End, Stages, task, guards, domain
  <2>2. CASE ~Publish("suspend")
    BY <1>1, <2>2 DEF TypeOK, SuspendRequest, Goto, End, Stages, task, guards, domain
  <2> QED
    BY <2>1, <2>2
<1>2. CASE ResumeRequest
  <2>1. /\ UNCHANGED <<attempt, vcpu_map, expected, before, faults, ivDetached, pciDetached, domain, procs>>
        /\ pc' \in Stages /\ result' \in {result, "success", "error"} /\ exc' \in BOOLEAN
        /\ answers' \in {answers, 0} /\ subscribed' \in BOOLEAN /\ queue' \in {queue, 0}
    BY <1>2, EndUnsubscribedFacts DEF ResumeRequest, Goto, Stages, task, TypeOK
  <2>2. /\ requests' \in [Procs -> Seq({"suspend", "resume"})]
        /\ asked' \in {"none", "suspend", "resume"}
    BY <1>2, PublishType DEF ResumeRequest, TypeOK
  <2> QED
    BY <2>1, <2>2 DEF TypeOK, domain
<1>3. CASE SuspendAnswer
  BY <1>3 DEF TypeOK, SuspendAnswer, task, domain
<1>4. CASE Suspended
  BY <1>4 DEF TypeOK, Suspended, Goto, Stages, task, guards, domain, pscom
<1>5. CASE SuspendTimeout
  BY <1>5 DEF TypeOK, SuspendTimeout, End, Stages, task, guards, domain, pscom
<1>6. CASE NoResume
  <2>1. /\ pc' \in Stages /\ result' \in {"error", "success"} /\ exc' \in BOOLEAN
        /\ subscribed' \in BOOLEAN /\ queue' \in {queue, 0}
    BY <1>6, EndUnsubscribedFacts DEF NoResume, End, Stages, TypeOK
  <2>2. UNCHANGED <<attempt, vcpu_map, expected, before, faults, guards, domain, procs, requests, asked>>
    BY <1>6, EndUnsubscribedFacts DEF NoResume, End, TypeOK
  <2> QED
    BY <2>1, <2>2 DEF TypeOK, guards, domain
<1>7. CASE ResumeAnswer
  BY <1>7 DEF TypeOK, ResumeAnswer, task, domain
<1>8. CASE Resumed
  <2>1. EndUnsubscribed(exc) /\ exc \in BOOLEAN /\ queue \in Nat
    BY <1>8 DEF Resumed, TypeOK
  <2>2. /\ UNCHANGED <<attempt, vcpu_map, expected, before, faults>>
        /\ pc' = "idle" /\ exc' = FALSE /\ (result' = "error" \/ result' = "success")
        /\ subscribed' \in BOOLEAN /\ (queue' = queue \/ queue' = 0)
    BY ONLY TypeOK, <2>1, EndUnsubscribedFacts
  <2>3. UNCHANGED <<ivDetached, pciDetached, domain, procs, requests, asked>> /\ answers' = 0
    BY <1>8 DEF Resumed
  <2>4. queue' \in Nat
    BY <2>1, <2>2
  <2> QED
    BY <2>2, <2>3, <2>4 DEF TypeOK, Stages, domain
<1>9. CASE ResumeTimeout
  BY <1>9, EndUnsubscribedFacts DEF TypeOK, ResumeTimeout, Stages, guards, domain
<1> QED
  BY <1>1, <1>2, <1>3, <1>4, <1>5, <1>6, <1>7, <1>8, <1>9

LEMMA DeviceType ==
    ASSUME TypeOK,
           \/ DetachIvshmem \/ DetachPci \/ Connect \/ MigrateDomain
           \/ Repin \/ AttachPci \/ PciAttached \/ AttachIvshmem
    PROVE  TypeOK'
<1>0. ASSUME NEW stage, \/ Goto(stage) \/ Throw(stage) \/ DestructorThrows(stage), stage \in Stages
      PROVE  UNCHANGED task /\ pc' \in Stages /\ exc' \in BOOLEAN
  BY <1>0 DEF TypeOK, Goto, Throw, DestructorThrows
<1>s. {"devices", "connect", "migrate", "~repin", "~devices", "~ivshmem", "~pscom"} \subseteq Stages
  BY DEF Stages
<1>1. CASE DetachIvshmem
  <2>1. UNCHANGED task /\ pc' \in Stages /\ exc' \in BOOLEAN
    BY <1>1, <1>0, <1>s DEF DetachIvshmem
  <2>2. iv' \in Nat /\ ivDetached' \in Nat
    BY <1>1 DEF DetachIvshmem, TypeOK
  <2>3. UNCHANGED <<answers, pciDetached, host, paused, pinned, pci, pscom>>
    BY <1>1 DEF DetachIvshmem
  <2> QED
    BY <2>1, <2>2, <2>3 DEF TypeOK, task, guards, domain, pscom
<1>2. CASE DetachPci
  <2>1. UNCHANGED task /\ pc' \in Stages /\ exc' \in BOOLEAN
    BY <1>2, <1>0, <1>s DEF DetachPci
  <2>2. pci' \in Nat /\ pciDetached' \in Nat
    BY <1>2 DEF DetachPci, TypeOK
  <2>3. UNCHANGED <<answers, ivDetached, host, paused, pinned, iv, pscom>>
    BY <1>2 DEF DetachPci
  <2> QED
    BY <2>1, <2>2, <2>3 DEF TypeOK, task, guards, domain, pscom
<1>3. CASE Connect
  <2>1. UNCHANGED task /\ pc' \in Stages /\ exc' \in BOOLEAN
    BY <1>3, <1>0, <1>s DEF Connect
  <2>2. UNCHANGED <<guards, domain, pscom>>
    BY <1>3 DEF Connect
  <2> QED
    BY <2>1, <2>2 DEF TypeOK, task, guards, domain, pscom
<1>4. CASE MigrateDomain
  <2>1. UNCHANGED task /\ pc' \in Stages /\ exc' \in BOOLEAN
    BY <1>4, <1>0, <1>s DEF MigrateDomain
  <2>2. host' \in {host, "destination"} /\ paused' \in BOOLEAN /\ pinned' \in BOOLEAN
    BY <1>4 DEF MigrateDomain, TypeOK
  <2>3. UNCHANGED <<guards, iv, pci, pscom>>
    BY <1>4 DEF MigrateDomain
  <2> QED
    BY <2>1, <2>2, <2>3 DEF TypeOK, task, guards, domain, pscom
<1>5. CASE Repin
  <2>1. UNCHANGED task /\ pc' \in Stages /\ exc' \in BOOLEAN
    BY <1>5, <1>0, <1>s DEF Repin
  <2>2. paused' \in BOOLEAN /\ pinned' \in BOOLEAN
    BY <1>5 DEF Repin, TypeOK
  <2>3. UNCHANGED <<guards, host, iv, pci, pscom>>
    BY <1>5 DEF Repin
  <2> QED
    BY <2>1, <2>2, <2>3 DEF TypeOK, task, guards, domain, pscom
<1>6. CASE AttachPci
  <2>1. UNCHANGED task /\ pc' \in Stages /\ exc' \in BOOLEAN
    BY <1>6, <1>0, <1>s DEF AttachPci
  <2>2. pci' \in Nat /\ pciDetached' \in Nat
    BY <1>6 DEF AttachPci, TypeOK
  <2>3. UNCHANGED <<answers, ivDetached, host, paused, pinned, iv, pscom>>
    BY <1>6 DEF AttachPci
  <2> QED
    BY <2>1, <2>2, <2>3 DEF TypeOK, task, guards, domain, pscom
<1>7. CASE PciAttached
  <2>1. UNCHANGED task /\ pc' \in Stages /\ exc' \in BOOLEAN
    BY <1>7, <1>0, <1>s DEF PciAttached
  <2>2. UNCHANGED <<guards, domain, pscom>>
    BY <1>7 DEF PciAttached
  <2> QED
    BY <2>1, <2>2 DEF TypeOK, task, guards, domain, pscom
<1>8. CASE AttachIvshmem
  <2>1. UNCHANGED task /\ pc' \in Stages /\ exc' \in BOOLEAN
    BY <1>8, <1>0, <1>s DEF AttachIvshmem
  <2>2. iv' \in Nat
    BY <1>8 DEF AttachIvshmem, TypeOK
  <2>3. UNCHANGED <<guards, host, paused, pinned, pci, pscom>>
    BY <1>8 DEF AttachIvshmem
  <2> QED
    BY <2>1, <2>2, <2>3 DEF TypeOK, task, guards, domain, pscom
<1> QED
  BY <1>1, <1>2, <1>3, <1>4, <1>5, <1>6, <1>7, <1>8

LEMMA NextType == TypeOK /\ [Next]_vars => TypeOK'
<1>1. ASSUME TypeOK, UNCHANGED vars PROVE TypeOK'
  BY <1>1 DEF TypeOK, vars, task, guards, domain, pscom
<1> QED
  BY <1>1, BeginType, ProcAnswersType, PscomType, DeviceType DEF Next, TaskStep

-----------------------------------------------------------------------------
(* The guards. *)

LEMMA InitGuards == Init => GuardInv
<1> SUFFICES ASSUME Init PROVE GuardInv
  OBVIOUS
<1>1. TypeOK /\ pci <= HostPci
  BY InitType, Parameters DEF Init, Parameters
<1>2. before.iv = iv /\ before.pci = pci
  BY DEF Init
<1> QED
  BY <1>1, <1>2 DEF Init, GuardInv, NotMoved, Ahead, PausedForRepin, IvHeld, PciHeld, NothingHeld, Ended

LEMMA BeginGuards ==
    ASSUME GuardInv, NEW n \in HookProcs, NEW repin \in BOOLEAN, Begin(n, repin)
    PROVE  GuardInv'
<1>1. TypeOK' /\ TypeOK
  BY BeginType DEF GuardInv
<1>2. before'.iv = iv /\ before'.pci = pci
  BY DEF Begin
<1>3. pc = "idle" /\ ~exc' /\ UNCHANGED <<host, paused, pinned, iv, pci, faults>>
  BY DEF Begin, domain
<1>4. pci <= HostPci /\ (OnlyRecoverable => ~paused)
  BY <1>3 DEF GuardInv, PciHeld, PausedForRepin
<1>5. CASE pc' = "idle" /\ result' = "error"
  BY <1>1, <1>2, <1>3, <1>4, <1>5 DEF GuardInv, NotMoved, Ahead, PausedForRepin, IvHeld, PciHeld,
     NothingHeld, Ended, Whole, OnlyRecoverable
<1>6. CASE pc' \in {"ivshmem", "suspend"} /\ result' = "none" /\ host = "source" /\ ~paused
  BY <1>1, <1>2, <1>3, <1>4, <1>6 DEF GuardInv, NotMoved, Ahead, PausedForRepin, IvHeld, PciHeld,
     NothingHeld, Ended, Whole, OnlyRecoverable
<1> QED
  BY <1>5, <1>6 DEF Begin

\* The dialogue with the processes changes nothing that the guards rely on.
LEMMA PscomGuards ==
    ASSUME GuardInv,
           \/ SuspendRequest \/ SuspendAnswer \/ Suspended \/ SuspendTimeout
           \/ ResumeRequest \/ NoResume \/ ResumeAnswer \/ Resumed \/ ResumeTimeout
           \/ \E p \in Procs : ProcAnswers(p)
    PROVE  GuardInv'
<1>1. TypeOK'
  BY PscomType, ProcAnswersType DEF GuardInv
<1>2. /\ UNCHANGED <<host, paused, pinned, iv, pci, vcpu_map, before, faults, ivDetached, pciDetached>>
      /\ \/ UNCHANGED <<pc, exc, result>>
         \/ pc = "suspend" /\ pc' = "ivshmem" /\ UNCHANGED <<exc, result>>
         \/ pc = "~pscom" /\ pc' = "resume" /\ UNCHANGED <<exc, result>>
         \/ pc = "suspend" /\ pc' = "idle" /\ result' = "error" /\ ~exc'
         \/ /\ pc \in {"~pscom", "resume"} /\ pc' = "idle" /\ ~exc'
            /\ result' = "error" \/ (result' = "success" /\ ~exc)
  BY EndUnsubscribedFacts DEF GuardInv, TypeOK, SuspendRequest, SuspendAnswer, Suspended, SuspendTimeout,
     ResumeRequest, NoResume, ResumeAnswer, Resumed, ResumeTimeout, ProcAnswers, Goto, End, task, guards,
     domain, pscom
<1> QED
  BY <1>1, <1>2 DEF GuardInv, NotMoved, Ahead, PausedForRepin, IvHeld, PciHeld, NothingHeld, Ended,
     Whole, Arrived, Sound, OnlyRecoverable

LEMMA DeviceGuards ==
    ASSUME GuardInv,
           \/ DetachIvshmem \/ DetachPci \/ Connect \/ MigrateDomain
           \/ Repin \/ AttachPci \/ PciAttached \/ AttachIvshmem
    PROVE  GuardInv'
<1>0. TypeOK' /\ TypeOK
  BY DeviceType DEF GuardInv
<1>b. before.iv \in Nat /\ before.pci \in Nat /\ iv \in Nat /\ pci \in Nat /\ HostPci \in Nat
  BY <1>0, Parameters DEF TypeOK, Parameters
<1> USE DEF GuardInv, NotMoved, Ahead, PausedForRepin, IvHeld, PciHeld, NothingHeld, Ended,
     Whole, Arrived, Sound, OnlyRecoverable, Goto, Throw, DestructorThrows, task, guards, domain, pscom
<1>1. CASE DetachIvshmem
  BY <1>0, <1>b, <1>1 DEF DetachIvshmem
<1>2. CASE DetachPci
  BY <1>0, <1>b, <1>2 DEF DetachPci, May, Recoverable
<1>3. CASE Connect
  BY <1>0, <1>b, <1>3 DEF Connect
<1>4. CASE MigrateDomain
  BY <1>0, <1>b, <1>4 DEF MigrateDomain
<1>5. CASE Repin
  <2>1. /\ UNCHANGED <<host, iv, pci, ivDetached, pciDetached, vcpu_map, before, faults, result>>
        /\ pc = "~repin" /\ pc' = "~devices"
    BY <1>5 DEF Repin
  <2>2. \/ /\ exc' = exc /\ (~exc /\ vcpu_map => pinned')
           /\ IF vcpu_map THEN ~paused' ELSE paused' = paused
        \/ exc' = TRUE /\ ~OnlyRecoverable
    BY <1>0, <1>5 DEF Repin, May, Recoverable, TypeOK
  <2>3. /\ OnlyRecoverable => ~paused'
        /\ ~exc' => host = "destination" /\ ~paused' /\ (vcpu_map => pinned') /\ pci = 0
        /\ Sound' => Sound
    BY <2>1, <2>2
  <2> QED
    BY <1>0, <1>b, <2>1, <2>3
<1>6. CASE AttachPci
  <2>1. /\ UNCHANGED <<host, paused, pinned, iv, ivDetached, vcpu_map, before, faults, result>>
        /\ pc = "~devices" /\ pciDetached > 0
    BY <1>6 DEF AttachPci
  <2>2. pciDetached \in Nat
    BY <1>0 DEF TypeOK
  <2>3. CASE /\ pci < HostPci /\ pci' = pci + 1 /\ pciDetached' = pciDetached - 1
             /\ Goto("~devices")
    <3>1. pci' <= HostPci /\ pci' + pciDetached' = pci + pciDetached
      BY <1>b, <2>2, <2>3
    <3> QED
      BY <1>0, <1>b, <2>1, <2>3, <3>1
  <2>4. CASE /\ May("attach_pci") \/ pci = HostPci
             /\ DestructorThrows("~ivshmem") /\ UNCHANGED <<pci, pciDetached>>
    <3>1. OnlyRecoverable => pci < HostPci
      BY <1>b, <2>1, <2>2
    <3>2. ~OnlyRecoverable
      BY <1>b, <2>4, <3>1 DEF May, Recoverable
    <3> QED
      BY <1>0, <1>b, <2>1, <2>4, <3>2
  <2> QED
    BY <1>6, <2>3, <2>4 DEF AttachPci
<1>7. CASE PciAttached
  BY <1>0, <1>b, <1>7 DEF PciAttached
<1>8. CASE AttachIvshmem
  BY <1>0, <1>b, <1>8 DEF AttachIvshmem, May, Recoverable
<1> QED
  BY <1>1, <1>2, <1>3, <1>4, <1>5, <1>6, <1>7, <1>8

LEMMA NextGuards == GuardInv /\ [Next]_vars => GuardInv'
<1>1. ASSUME GuardInv, UNCHANGED vars PROVE GuardInv'
  BY <1>1 DEF vars, task, guards, domain, pscom, GuardInv, TypeOK, NotMoved, PausedForRepin, IvHeld,
     PciHeld, NothingHeld, Ended, Whole, Arrived, Sound, OnlyRecoverable
<1> QED
  BY <1>1, BeginGuards, PscomGuards, DeviceGuards DEF Next, TaskStep

-----------------------------------------------------------------------------
(* The dialogue with the processes. *)

LEMMA ObeyedFacts ==
    ASSUME NEW s
    PROVE  /\ IsFiniteSet(Obeyed(s)) /\ Cardinality(Obeyed(s)) \in Nat
           /\ Cardinality(Procs) \in Nat /\ Cardinality(Obeyed(s)) <= Cardinality(Procs)
           /\ Cardinality(Obeyed(s)) = Cardinality(Procs) => Obeyed(s) = Procs
<1>1. Obeyed(s) \subseteq Procs /\ IsFiniteSet(Procs)
  BY Parameters DEF Obeyed, Parameters
<1> QED
  BY <1>1, FS_Subset, FS_CardinalityType

\* When every expected answer is counted, every process has obeyed.
LEMMA AllObeyed ==
    ASSUME ProcInv, NEW request, NEW s, Asking(request, s), expected > 0, answers = expected
    PROVE  Silent /\ All(s)
<1>1. answers \in Nat /\ queue \in Nat /\ expected >= Cardinality(Procs)
  BY DEF ProcInv, GuardInv, TypeOK, Counted
<1>2. answers + queue <= Cardinality(Obeyed(s))
  BY DEF Asking
<1>3. Cardinality(Obeyed(s)) = Cardinality(Procs) /\ queue = 0
  BY <1>1, <1>2, ObeyedFacts
<1>4. Obeyed(s) = Procs
  BY <1>3, ObeyedFacts
<1> QED
  BY <1>3, <1>4 DEF Silent, All, Obeyed

\* A request is published when nothing is on its way.
LEMMA AskingBegins ==
    ASSUME ProcInv, Silent, NEW request \in {"suspend", "resume"}, Publish(request),
           answers' = 0, queue' = queue, NEW s
    PROVE  Asking(request, s)'
<1>1. \A p \in Procs : requests'[p] \in {requests[p], Append(requests[p], request)}
  BY PublishType DEF ProcInv, GuardInv
<1>2. Append(<<>>, request) = <<request>>
  OBVIOUS
<1>3. \A p \in Procs : requests'[p] \in {<<>>, <<request>>}
  BY <1>1, <1>2 DEF Silent
<1>4. Cardinality(Obeyed(s)') \in Nat
  <2>1. Obeyed(s)' \subseteq Procs /\ IsFiniteSet(Procs)
    BY Parameters DEF Obeyed, Parameters
  <2> QED
    BY <2>1, FS_Subset, FS_CardinalityType
<1> QED
  BY <1>3, <1>4 DEF Asking, Silent

\* A process that obeys adds itself and at most one answer.
LEMMA AskingGoesOn ==
    ASSUME ProcInv, NEW request \in {"suspend", "resume"}, NEW p \in Procs, ProcAnswers(p),
           NEW s, s = IF request = "suspend" THEN "suspended" ELSE "running",
           Asking(request, s)
    PROVE  Asking(request, s)'
<1>1. /\ requests \in [Procs -> Seq({"suspend", "resume"})]
      /\ procs \in [Procs -> {"running", "suspended"}] /\ queue \in Nat /\ answers \in Nat
  BY DEF ProcInv, GuardInv, TypeOK
<1>2. requests[p] = <<request>>
  BY DEF Asking, ProcAnswers
<1>3. Head(requests[p]) = request /\ Tail(requests[p]) = <<>>
  BY <1>2
<1>4. requests' = [requests EXCEPT ![p] = <<>>] /\ procs' = [procs EXCEPT ![p] = s]
  BY <1>3 DEF ProcAnswers
<1>5. queue' \in {queue, queue + 1} /\ answers' = answers
  BY DEF ProcAnswers, guards
<1>6. Obeyed(s)' = Obeyed(s) \cup {p} /\ p \notin Obeyed(s)
  <2>1. <<request>> # <<>>
    OBVIOUS
  <2>2. requests'[p] = <<>> /\ procs'[p] = s
    BY <1>1, <1>4
  <2>3. \A q \in Procs \ {p} : requests'[q] = requests[q] /\ procs'[q] = procs[q]
    BY <1>1, <1>4
  <2> QED
    BY <1>2, <2>1, <2>2, <2>3 DEF Obeyed
<1>7. Cardinality(Obeyed(s)') = Cardinality(Obeyed(s)) + 1
  BY <1>6, ObeyedFacts, FS_AddElement
<1>8. answers' + queue' <= Cardinality(Obeyed(s)')
  BY <1>1, <1>5, <1>7, ObeyedFacts DEF Asking
<1> QED
  BY <1>1, <1>4, <1>8 DEF Asking

LEMMA ProcAnswersInv ==
    ASSUME ProcInv, NEW p \in Procs, ProcAnswers(p)
    PROVE  ProcInv'
<1>1. GuardInv'
  BY PscomGuards DEF ProcInv
<1>2. UNCHANGED <<attempt, result, expected, faults, pc, asked, answers>>
  BY DEF ProcAnswers, task, guards
<1>3. ~Silent
  BY DEF ProcAnswers, Silent
<1>4. Counted' /\ Told'
  BY <1>2 DEF ProcInv, Counted, Told
<1>5. SilentBetween'
  BY <1>2, <1>3 DEF ProcInv, SilentBetween, NoLateAnswer, May
<1>6. Dialogue'
  <2>1. CASE pc = "idle" \/ ~NoLateAnswer
    BY <1>2, <2>1 DEF Dialogue, NoLateAnswer, May
  <2>2. CASE pc # "idle" /\ NoLateAnswer
    <3>1. pc \notin Guarded /\ ~(pc = "suspend" /\ asked = "none")
      BY <1>3, <2>2 DEF ProcInv, Dialogue
    <3>2. pc = "suspend" /\ asked = "suspend" => Asking("suspend", "suspended")'
      BY <2>2, AskingGoesOn DEF ProcInv, Dialogue
    <3>3. pc = "resume" => Asking("resume", "running")'
      BY <2>2, AskingGoesOn DEF ProcInv, Dialogue
    <3> QED
      BY <1>2, <3>1, <3>2, <3>3 DEF Dialogue
  <2> QED
    BY <2>1, <2>2
<1> QED
  BY <1>1, <1>4, <1>5, <1>6 DEF ProcInv

LEMMA BeginInv ==
    ASSUME ProcInv, NEW n \in HookProcs, NEW repin \in BOOLEAN, Begin(n, repin)
    PROVE  ProcInv'
<1>1. GuardInv' /\ TypeOK
  BY BeginGuards DEF ProcInv, GuardInv
<1>2. /\ pc = "idle" /\ attempt' = attempt + 1 /\ attempt \in Nat /\ expected' = n /\ n \in Nat
      /\ answers' = 0 /\ asked' = "none" /\ UNCHANGED <<procs, requests, queue, faults>>
      /\ \/ pc' = "idle" /\ result' = "error"
         \/ pc' = "ivshmem" /\ n = 0
         \/ pc' = "suspend" /\ n # 0
  BY <1>1, Parameters DEF Parameters, Begin, TypeOK
<1>3. Told /\ Counted'
  BY <1>2 DEF ProcInv, Told, Counted
<1>4. attempt' = 1 \/ ~May("timeout") => Silent'
  BY <1>2 DEF ProcInv, SilentBetween, Silent
<1>5. attempt' # 0 /\ (NoLateAnswer' => Silent')
  BY <1>2, <1>4 DEF NoLateAnswer, May
<1>6. SilentBetween'
  BY <1>2, <1>4, <1>5 DEF SilentBetween, May
<1>7. Dialogue'
  BY <1>2, <1>5 DEF Dialogue, Guarded
<1> QED
  BY <1>1, <1>3, <1>6, <1>7 DEF ProcInv, Told

\* While the guards work nothing happens between the handler and the
\* processes.
LEMMA DeviceInv ==
    ASSUME ProcInv,
           \/ DetachIvshmem \/ DetachPci \/ Connect \/ MigrateDomain
           \/ Repin \/ AttachPci \/ PciAttached \/ AttachIvshmem
    PROVE  ProcInv'
<1>1. GuardInv'
  BY DeviceGuards DEF ProcInv
<1>2. /\ UNCHANGED <<attempt, expected, faults, answers, procs, requests, queue, asked>>
      /\ pc \in Guarded /\ pc' \in Guarded
  BY DEF DetachIvshmem, DetachPci, Connect, MigrateDomain, Repin, AttachPci, PciAttached, AttachIvshmem,
     Goto, Throw, DestructorThrows, task, guards, pscom, Guarded
<1>3. pc \notin {"idle", "suspend", "resume"} /\ pc' \notin {"idle", "suspend", "resume"}
  BY <1>2 DEF Guarded
<1> QED
  BY <1>1, <1>2, <1>3 DEF ProcInv, Told, Counted, SilentBetween, Dialogue, NoLateAnswer, May, Silent, All

\* The steps of Pscom_handler.
LEMMA PscomInv ==
    ASSUME ProcInv,
           \/ SuspendRequest \/ SuspendAnswer \/ Suspended \/ SuspendTimeout
           \/ ResumeRequest \/ NoResume \/ ResumeAnswer \/ Resumed \/ ResumeTimeout
    PROVE  ProcInv'
<1>0. /\ GuardInv' /\ answers \in Nat /\ queue \in Nat /\ expected \in Nat /\ attempt \in Nat
      /\ Told'
  BY PscomGuards, Parameters DEF ProcInv, GuardInv, TypeOK, Parameters, Told
<1>f. /\ UNCHANGED <<attempt, expected, faults, procs>> /\ attempt > 0
      /\ NoLateAnswer' <=> NoLateAnswer
      /\ May("timeout")' <=> May("timeout")
  <2>1. UNCHANGED <<attempt, expected, faults, procs>> /\ pc # "idle"
    BY EndUnsubscribedFacts DEF ProcInv, GuardInv, TypeOK, SuspendRequest, SuspendAnswer, Suspended,
       SuspendTimeout, ResumeRequest, NoResume, ResumeAnswer, Resumed, ResumeTimeout, Goto, End, task, pscom
  <2> QED
    BY <2>1 DEF ProcInv, Counted, NoLateAnswer, May
<1>c. ~May("timeout") => NoLateAnswer
  BY DEF NoLateAnswer
<1> USE DEF ProcInv, Counted, SilentBetween, Dialogue
<1>1. CASE SuspendRequest
  <2>1. pc = "suspend" /\ asked = "none" /\ UNCHANGED <<answers, queue>>
    BY <1>1 DEF SuspendRequest, guards
  <2>2. NoLateAnswer => Silent /\ answers = 0
    BY <2>1
  <2>3. CASE Publish("suspend") /\ Goto("suspend")
    <3>1. NoLateAnswer => Asking("suspend", "suspended")'
      BY <2>1, <2>2, <2>3, AskingBegins
    <3> QED
      BY <1>0, <1>f, <2>1, <2>3, <3>1 DEF Goto, Publish, Guarded
  <2>4. CASE End(TRUE) /\ UNCHANGED <<requests, asked>>
    BY <1>0, <1>f, <1>c, <2>1, <2>2, <2>4 DEF End, Silent
  <2> QED
    BY <1>1, <2>3, <2>4 DEF SuspendRequest
<1>2. CASE SuspendAnswer
  <2>1. /\ pc = "suspend" /\ asked = "suspend" /\ UNCHANGED <<pc, result, asked, requests>>
        /\ queue > 0 /\ queue' = queue - 1 /\ answers' = answers + 1
    BY <1>2 DEF SuspendAnswer, task
  <2>2. answers' + queue' = answers + queue
    BY <1>0, <2>1
  <2>3. NoLateAnswer => Asking("suspend", "suspended")'
    BY <1>f, <2>1, <2>2 DEF Asking, Obeyed
  <2> QED
    BY <1>0, <1>f, <2>1, <2>3 DEF Guarded
<1>3. CASE Suspended
  <2>1. /\ pc = "suspend" /\ asked = "suspend" /\ answers = expected /\ pc' = "ivshmem"
        /\ UNCHANGED <<answers, queue, requests, result, asked>>
    BY <1>3 DEF Suspended, Goto, task, guards, pscom
  <2>2. NoLateAnswer => Silent /\ All("suspended")
    BY <2>1, AllObeyed
  <2>3. NoLateAnswer => Silent' /\ All("suspended")'
    BY <1>f, <2>1, <2>2 DEF Silent, All
  <2> QED
    BY <1>0, <1>f, <2>1, <2>3
<1>4. CASE SuspendTimeout
  <2>1. May("timeout") /\ pc' = "idle" /\ result' = "error"
    BY <1>4 DEF SuspendTimeout, End
  <2> QED
    BY <1>0, <1>f, <2>1
<1>5. CASE ResumeRequest
  <2>1. pc = "~pscom" /\ expected > 0
    BY <1>5 DEF ResumeRequest
  <2>2. NoLateAnswer => Silent
    BY <2>1 DEF Guarded
  <2>3. CASE Publish("resume") /\ Goto("resume") /\ answers' = 0 /\ UNCHANGED <<subscribed, queue>>
    <3>1. NoLateAnswer => Asking("resume", "running")'
      BY <2>2, <2>3, AskingBegins
    <3> QED
      BY <1>0, <1>f, <2>1, <2>3, <3>1 DEF Goto, Guarded
  <2>4. CASE EndUnsubscribed(TRUE) /\ UNCHANGED <<answers, requests, asked>>
    <3>1. pc' = "idle" /\ result' = "error" /\ (queue' = queue \/ queue' = 0)
      BY <2>4, EndUnsubscribedFacts DEF GuardInv
    <3> QED
      BY <1>0, <1>f, <1>c, <2>2, <2>4, <3>1 DEF Silent
  <2> QED
    BY <1>5, <2>3, <2>4 DEF ResumeRequest
<1>6. CASE NoResume
  <2>1. /\ pc = "~pscom" /\ ~(expected > 0 /\ answers = expected) /\ pc' = "idle"
        /\ (queue' = queue \/ queue' = 0) /\ requests' = requests
    BY <1>6, EndUnsubscribedFacts DEF NoResume, End, GuardInv, TypeOK
  <2>2. NoLateAnswer => Silent /\ ~(expected > 0)
    BY <2>1 DEF Guarded
  <2>3. NoLateAnswer => Silent'
    BY <2>1, <2>2 DEF Silent
  <2> QED
    BY <1>0, <1>f, <1>c, <2>1, <2>2, <2>3
<1>7. CASE ResumeAnswer
  <2>1. /\ pc = "resume" /\ UNCHANGED <<pc, result, asked, requests>>
        /\ queue > 0 /\ queue' = queue - 1 /\ answers' = answers + 1
    BY <1>7 DEF ResumeAnswer, task
  <2>2. answers' + queue' = answers + queue
    BY <1>0, <2>1
  <2>3. NoLateAnswer => Asking("resume", "running")'
    BY <1>f, <2>1, <2>2 DEF Asking, Obeyed
  <2> QED
    BY <1>0, <1>f, <2>1, <2>3 DEF Guarded
<1>8. CASE Resumed
  <2>1. /\ pc = "resume" /\ answers = expected /\ pc' = "idle"
        /\ (queue' = queue \/ queue' = 0) /\ requests' = requests
    BY <1>8, EndUnsubscribedFacts DEF Resumed, GuardInv, TypeOK
  <2>2. NoLateAnswer => Silent /\ All("running")
    BY <2>1, AllObeyed
  <2>3. NoLateAnswer => Silent' /\ All("running")'
    BY <1>f, <2>1, <2>2 DEF Silent, All
  <2> QED
    BY <1>0, <1>f, <1>c, <2>1, <2>3
<1>9. CASE ResumeTimeout
  <2>1. May("timeout") /\ pc' = "idle" /\ result' = "error"
    BY <1>9, EndUnsubscribedFacts DEF ResumeTimeout, GuardInv
  <2> QED
    BY <1>0, <1>f, <2>1
<1> QED
  BY <1>1, <1>2, <1>3, <1>4, <1>5, <1>6, <1>7, <1>8, <1>9

LEMMA InitInv == Told /\ Init => ProcInv
<1> SUFFICES ASSUME Told, Init PROVE ProcInv
  OBVIOUS
<1>1. GuardInv /\ Told
  BY InitGuards
<1>2. Silent
  BY DEF Init, Silent
<1> QED
  BY <1>1, <1>2 DEF Init, ProcInv, Counted, SilentBetween, Dialogue

LEMMA NextInv == ProcInv /\ [Next]_vars => ProcInv'
<1>1. ASSUME ProcInv, UNCHANGED vars PROVE ProcInv'
  <2>1. GuardInv'
    BY <1>1, NextGuards DEF ProcInv
  <2> QED
    BY <1>1, <2>1 DEF vars, task, guards, pscom, ProcInv, Told, Counted, SilentBetween, Dialogue,
       NoLateAnswer, May, Silent, All, Asking, Obeyed
<1> QED
  BY <1>1, BeginInv, ProcAnswersInv, PscomInv, DeviceInv DEF Next, TaskStep

-----------------------------------------------------------------------------
(* The theorems. *)

LEMMA GuardsAlways == Spec => []GuardInv
  BY InitGuards, NextGuards, PTL DEF Spec

LEMMA ProcsAlways == Told /\ Spec => []ProcInv
  BY InitInv, NextInv, PTL DEF Spec

\* All of migrate keeps its types; no counter of devices, answers or queued
\* messages falls below zero, in whatever order answers and timeouts come.
THEOREM TypeCorrect == Spec => []TypeOK
  BY InitType, NextType, PTL DEF Spec

\* Without an error the processes are asked to resume only when the domain
\* runs and has its devices: ~Repin_guard, ~Migrate_devices_guard and
\* ~Migrate_ivshmem_guard have run before ~Pscom_handler, for any number of
\* devices.
THEOREM DevicesBeforeResume == Spec => []ResumedLast
<1>1. GuardInv => ResumedLast
  BY DEF GuardInv, PausedForRepin, NothingHeld, Sound, Whole, Arrived, ResumedLast
<1> QED
  BY <1>1, GuardsAlways, PTL

\* A migration that failed in a recoverable call has left the domain running
\* and with the devices it had, after any number of attempts: what the
\* constructors of the guards detached, their destructors attached again.
THEOREM GuardsRestore == Spec => []RestoredOnError
<1>1. GuardInv => RestoredOnError
  BY DEF GuardInv, PausedForRepin, Ended, OnlyRecoverable, Whole, RestoredOnError
<1> QED
  BY <1>1, GuardsAlways, PTL

\* Every process is suspended while its domain moves, whatever requests and
\* answers are lost, provided the scheduler states no fewer processes than
\* there are and no answer to an earlier attempt can arrive late.
THEOREM NoMoveUnlessSuspended == Told /\ Spec => []SuspendedInTime
<1>1. ProcInv => SuspendedInTime
  <2> SUFFICES ASSUME ProcInv, NoLateAnswer, pc \in Guarded, expected > 0
               PROVE  \A p \in Procs : procs[p] = "suspended"
    BY DEF SuspendedInTime, SuspendedWhileMigrating
  <2>1. pc # "idle"
    BY DEF Guarded
  <2> QED
    BY <2>1 DEF ProcInv, Dialogue, All
<1> QED
  BY <1>1, ProcsAlways, PTL

\* A migration that reports success has moved the domain, which runs, pinned
\* as asked, with all its devices and with its processes resumed: no error of
\* a destructor is lost and no process is forgotten.
THEOREM SuccessIsComplete == Told /\ Spec => []SuccessMeansComplete
<1>1. ProcInv => SuccessMeansComplete
  BY DEF ProcInv, GuardInv, Ended, Arrived, Whole, SilentBetween, All, SuccessMeansComplete
<1> QED
  BY <1>1, ProcsAlways, PTL

=============================================================================
