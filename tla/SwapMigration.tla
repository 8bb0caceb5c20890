---------------------------- MODULE SwapMigration ----------------------------
(***************************************************************************)
(* Libvirt_hypervisor::swap_migration: domain "a" of this node and domain  *)
(* "b" of the destination change places, each under the four guards of     *)
(* module Migrate.  Both migrate in parallel or, when memory is short, the *)
(* smaller one is halted in a snapshot that the destination restores.      *)
(*                                                                         *)
(* A guard is here what it does to its domain as a whole, and may fail.    *)
(* Each domain has a PCI device, an ivshmem device and pscom processes.    *)
(***************************************************************************)
EXTENDS Naturals, Sequences, FiniteSets

CONSTANTS
    Sizes,      \* the memory sizes a domain may have, in KiB
    Frees,      \* the amounts of memory that may be free on a host, in bytes
    FaultSets   \* which external calls may fail: the cases to look at

Doms == {"a", "b"}

Hosts == {"source", "destination"}

\* The calls of the first line fail before anything has happened to a domain.
Early == {"lookup", "pci", "ivshmem", "memory"}

AllFaults ==
    Early \cup {"pscom", "detach_pci", "snapshot", "migrate", "find", "redefine",
                "delete", "revert", "repin", "resume", "attach", "pscom_resume"}

ASSUME Parameters ==
    /\ Sizes \subseteq Nat /\ Frees \subseteq Nat
    /\ FaultSets \subseteq SUBSET AllFaults

VARIABLES
    size,    \* memory of each domain: actual_balloon, in KiB
    free,    \* free memory of each host when the task begins, in bytes
    faults,  \* the external calls that may fail in this behaviour
    pc,      \* where the task is
    built,   \* number of guards that are constructed
    exc,     \* an exception is on its way up
    result,  \* how the task ended
    vcpu,    \* the domains with a vcpu map: they arrive paused
    snap,    \* the domain swapped through a snapshot, or "none"
    saved,   \* the hosts that know the snapshot
    mig,     \* the two threads of the parallel swap
    target,  \* the host of the domain object that each domain's guards hold
    active,  \* the hosts on which each domain is active
    stuck,   \* the domains whose PCI device did not detach, and is still there
    state    \* paused, quiet (processes suspended), pci and ivshmem attached

input == <<size, free, faults, vcpu>>

progress == <<pc, built, exc, result>>

world == <<saved, mig, target, active, stuck, state>>

vars == <<input, progress, snap, world>>

Home(d) == IF d = "a" THEN "source" ELSE "destination"

Away(d) == IF d = "a" THEN "destination" ELSE "source"

Other(d) == IF d = "a" THEN "b" ELSE "a"

Intact == [paused |-> FALSE, quiet |-> FALSE, pci |-> TRUE, ivshmem |-> TRUE]

\* The guards in the order of their construction.
Guards ==
    <<<<"pscom", "a">>, <<"pscom", "b">>, <<"pci", "a">>, <<"pci", "b">>,
      <<"ivshmem", "a">>, <<"ivshmem", "b">>, <<"repin", "a">>, <<"repin", "b">>>>

Stages ==
    {"idle", "build", "parallel", "snapshot", "migrate", "redefine", "delete",
     "revert", "cleanup", "unwind"}

TypeOK ==
    /\ size \in [Doms -> Sizes] /\ free \in [Hosts -> Frees]
    /\ faults \in SUBSET AllFaults /\ pc \in Stages
    /\ built \in 0 .. Len(Guards) /\ exc \in BOOLEAN
    /\ result \in {"none", "success", "error"} /\ vcpu \in SUBSET Doms
    /\ snap \in Doms \cup {"none"} /\ saved \in SUBSET Hosts
    /\ mig \in [Doms -> {"none", "running", "done", "failed"}]
    /\ target \in [Doms -> Hosts] /\ active \in [Doms -> SUBSET Hosts]
    /\ stuck \in SUBSET Doms
    /\ state \in [Doms -> [paused : BOOLEAN, quiet : BOOLEAN,
                           pci : BOOLEAN, ivshmem : BOOLEAN]]

Init ==
    /\ size \in [Doms -> Sizes] /\ free \in [Hosts -> Frees]
    /\ faults \in FaultSets /\ vcpu \in SUBSET Doms
    /\ pc = "idle" /\ built = 0 /\ exc = FALSE /\ result = "none"
    /\ snap = "none" /\ saved = {} /\ mig = [d \in Doms |-> "none"]
    /\ target = [d \in Doms |-> Home(d)] /\ active = [d \in Doms |-> {Home(d)}]
    /\ stuck = {} /\ state = [d \in Doms |-> Intact]

-----------------------------------------------------------------------------
(* Exceptions, as in module Migrate. *)

May(fault) == fault \in faults

Goto(stage) == pc' = stage /\ UNCHANGED <<built, exc, result>>

Throw == pc' = "unwind" /\ exc' = TRUE /\ UNCHANGED <<built, result>>

\* The call may fail; then the exception is all that happens.
Fails(fault) == May(fault) /\ Throw /\ UNCHANGED <<input, snap, world>>

-----------------------------------------------------------------------------
(* The beginning: connections, state checks and guards. *)

\* connect, find_by_name and check_state for both domains.
Begin ==
    /\ pc = "idle" /\ result = "none"
    /\ \/ Goto("build")
       \/ /\ May("lookup")
          /\ result' = "error"
          /\ UNCHANGED <<pc, built, exc>>
    /\ UNCHANGED <<input, snap, world>>

\* What the constructor of a guard does to the state s of its domain.
Guarded(kind, s) ==
    CASE kind = "pscom"   -> [s EXCEPT !.quiet = TRUE]
      [] kind = "pci"     -> [s EXCEPT !.pci = FALSE]
      [] kind = "ivshmem" -> [s EXCEPT !.ivshmem = FALSE]
      [] kind = "repin"   -> s

MutSkipLast ==
    /\ pc = "build" /\ built < Len(Guards)
    /\ \/ /\ built' = built + 1
          /\ LET g == Guards[built + 1]
             IN  state' = [state EXCEPT ![g[2]] = Guarded(g[1], @)]
          /\ UNCHANGED <<pc, exc, result>>
       \/ /\ May(Guards[built + 1][1]) /\ built > 0
          /\ built' = built - 1 /\ pc' = "unwind" /\ exc' = TRUE
          /\ UNCHANGED <<result, state>>
    /\ UNCHANGED <<input, snap, saved, mig, target, active, stuck>>

\* The constructor of the next guard.  One that throws is not destroyed; a
\* suspension that failed leaves the processes in either state, and a PCI
\* device that does not detach is only logged and counted like the others.
Construct ==
    /\ pc = "build" /\ built < Len(Guards)
    /\ LET kind == Guards[built + 1][1]
           d    == Guards[built + 1][2]
       IN  \/ /\ built' = built + 1
              /\ state' = [state EXCEPT ![d] = Guarded(kind, @)]
              /\ \/ UNCHANGED stuck
                 \/ kind = "pci" /\ May("detach_pci") /\ stuck' = stuck \cup {d}
              /\ UNCHANGED <<pc, exc, result>>
           \/ /\ kind # "repin" /\ May(kind)
              /\ \E q \in BOOLEAN :
                   /\ q => kind = "pscom"
                   /\ state' = [state EXCEPT ![d].quiet = @ \/ q]
              /\ Throw /\ UNCHANGED stuck
    /\ UNCHANGED <<input, snap, saved, mig, target, active>>

\* get_free_memory takes zero for an error.
MemoryKnown == \A h \in Hosts : free[h] # 0

\* check_snapshot_required compares bytes with KiB.
SnapshotRequired ==
    free["source"] < size["b"] \/ free["destination"] < size["a"]

\* sort_domains_by_size: the domain that func halts.
Smaller == IF size["a"] < size["b"] THEN "a" ELSE "b"

Choose ==
    /\ pc = "build" /\ built = Len(Guards)
    /\ \/ /\ MemoryKnown /\ SnapshotRequired
          /\ snap' = Smaller
          /\ Goto("snapshot")
          /\ UNCHANGED <<input, world>>
       \/ /\ MemoryKnown /\ ~SnapshotRequired
          /\ mig' = [d \in Doms |-> "running"]
          /\ Goto("parallel")
          /\ UNCHANGED <<input, snap, saved, target, active, stuck, state>>
       \/ ~MemoryKnown /\ Throw /\ UNCHANGED <<input, snap, world>>
       \/ Fails("memory")

-----------------------------------------------------------------------------
(* The parallel swap. *)

\* libvirt neither migrates nor saves a domain that still has a PCI device.
Refused(d) == d \in stuck /\ Throw /\ UNCHANGED <<input, snap, world>>

\* migrate_domain: the domain leaves its host and may arrive paused; then
\* set_destination_domain for its guards.
Arrive(d) ==
    /\ active' = [active EXCEPT ![d] = {Away(d)}]
    /\ state' = [state EXCEPT ![d].paused = d \in vcpu]
    /\ target' = [target EXCEPT ![d] = Away(d)]

\* mig_func in its thread.  An exception stays in the future.
ThreadMigrates(d) ==
    /\ mig[d] = "running"
    /\ \/ d \notin stuck /\ Arrive(d) /\ mig' = [mig EXCEPT ![d] = "done"]
       \/ /\ May("migrate") \/ d \in stuck
          /\ mig' = [mig EXCEPT ![d] = "failed"]
          /\ UNCHANGED <<active, state, target>>
    /\ UNCHANGED <<input, progress, snap, saved, stuck>>

MutWaitForSuccess ==
    /\ pc = "parallel"
    /\ \A d \in Doms : mig[d] = "done"
    /\ Goto("unwind")
    /\ UNCHANGED <<input, snap, world>>

\* The futures are destroyed, which waits for the threads, and are never
\* asked for their result.
Join ==
    /\ pc = "parallel"
    /\ \A d \in Doms : mig[d] # "running"
    /\ Goto("unwind")
    /\ UNCHANGED <<input, snap, world>>

-----------------------------------------------------------------------------
(* The swap through a snapshot: func, with vm1 = snap and vm2 = the other. *)

MutNoHalt ==
    /\ pc = "snapshot"
    /\ \/ /\ saved' = {Home(snap)}
          /\ Goto("migrate")
          /\ UNCHANGED <<input, snap, mig, target, active, stuck, state>>
       \/ Fails("snapshot")

TakeSnapshot ==
    /\ pc = "snapshot"
    /\ \/ /\ snap \notin stuck
          /\ saved' = {Home(snap)}
          /\ active' = [active EXCEPT ![snap] = {}]
          /\ Goto("migrate")
          /\ UNCHANGED <<input, snap, mig, target, stuck, state>>
       \/ Refused(snap)
       \/ Fails("snapshot")

MigrateOther ==
    /\ pc = "migrate"
    /\ \/ /\ Other(snap) \notin stuck
          /\ Arrive(Other(snap))
          /\ Goto("redefine")
          /\ UNCHANGED <<input, snap, saved, mig, stuck>>
       \/ Refused(Other(snap))
       \/ Fails("migrate")

\* find_by_name and redefine_snapshot at the destination of vm1; a failed
\* redefinition yields a null pointer that is not looked at here.
RedefineSnapshot ==
    /\ pc = "redefine"
    /\ \/ /\ \/ saved' = saved \cup {Away(snap)}
             \/ May("redefine") /\ UNCHANGED saved
          /\ Goto("delete")
          /\ UNCHANGED <<input, snap, mig, target, active, stuck, state>>
       \/ Fails("find")

DeleteSnapshot ==
    /\ pc = "delete"
    /\ \/ /\ saved' = saved \ {Home(snap)}
          /\ Goto("revert")
          /\ UNCHANGED <<input, snap, mig, target, active, stuck, state>>
       \/ Fails("delete")

RevertToSnapshot ==
    /\ pc = "revert"
    /\ \/ /\ saved # {}
          /\ active' = [active EXCEPT ![snap] = @ \cup {Away(snap)}]
          /\ state' = [state EXCEPT ![snap].paused = snap \in vcpu]
          /\ Goto("cleanup")
          /\ UNCHANGED <<input, snap, saved, mig, target, stuck>>
       \/ saved = {} /\ Throw /\ UNCHANGED <<input, snap, world>>
       \/ Fails("revert")

\* The guards of vm1 learn of its new host only after the snapshot is deleted.
DeleteRemoteSnapshot ==
    /\ pc = "cleanup"
    /\ \/ /\ saved' = {}
          /\ target' = [target EXCEPT ![snap] = Away(snap)]
          /\ Goto("unwind")
          /\ UNCHANGED <<input, snap, mig, active, stuck, state>>
       \/ Fails("delete")

-----------------------------------------------------------------------------
(* The destructors, last guard first. *)

\* libvirt knows the domain at the host that its guards hold as active.
Here(d) == target[d] \in active[d]

Runs(d) == active[d] # {} /\ ~state[d].paused

\* What a destructor does to its domain when it does not throw.
Released(kind, d) ==
    CASE kind = "pscom"   -> [state[d] EXCEPT !.quiet = FALSE]
      [] kind = "pci"     -> [state[d] EXCEPT !.pci = TRUE]
      [] kind = "ivshmem" -> [state[d] EXCEPT !.ivshmem = TRUE]
      [] kind = "repin"   -> [state[d] EXCEPT !.paused = @ /\ d \notin vcpu]

\* The destructor can do its work, and it cannot be sure to.
CanRelease(kind, d) ==
    CASE kind = "pscom" -> Runs(d)
      [] kind = "repin" -> d \in vcpu => Here(d)
      [] OTHER          -> Here(d)

MayNotRelease(kind, d) ==
    CASE kind = "pscom" -> May("pscom_resume")
      [] kind = "repin" -> d \in vcpu /\ (May("resume") \/ (~exc /\ May("repin")))
      [] OTHER          -> May("attach")

MutOnceTooOften ==
    /\ pc = "unwind"
    /\ built' = built - 1
    /\ UNCHANGED <<input, pc, exc, result, snap, world>>

\* A destructor that throws is swallowed during unwinding and else begins it.
MutSwallow ==
    /\ pc = "unwind" /\ built > 0
    /\ built' = built - 1
    /\ LET kind == Guards[built][1]
           d    == Guards[built][2]
       IN  \/ /\ CanRelease(kind, d)
              /\ state' = [state EXCEPT ![d] = Released(kind, d)]
           \/ /\ ~CanRelease(kind, d) \/ MayNotRelease(kind, d)
              /\ UNCHANGED state
    /\ UNCHANGED <<input, pc, exc, result, snap, saved, mig, target, active, stuck>>

Destroy ==
    /\ pc = "unwind" /\ built > 0
    /\ built' = built - 1
    /\ LET kind == Guards[built][1]
           d    == Guards[built][2]
       IN  \/ /\ CanRelease(kind, d)
              /\ state' = [state EXCEPT ![d] = Released(kind, d)]
              /\ UNCHANGED exc
           \/ /\ ~CanRelease(kind, d) \/ MayNotRelease(kind, d)
              /\ exc' = TRUE
              /\ UNCHANGED state
    /\ UNCHANGED <<input, pc, result, snap, saved, mig, target, active, stuck>>

Finish ==
    /\ pc = "unwind" /\ built = 0
    /\ pc' = "idle" /\ exc' = FALSE
    /\ result' = IF exc THEN "error" ELSE "success"
    /\ UNCHANGED <<input, built, snap, world>>

-----------------------------------------------------------------------------

TaskStep ==
    \/ Construct \/ Choose \/ Join
    \/ TakeSnapshot \/ MigrateOther \/ RedefineSnapshot \/ DeleteSnapshot
    \/ RevertToSnapshot \/ DeleteRemoteSnapshot
    \/ Destroy \/ Finish

Next ==
    \/ Begin
    \/ TaskStep
    \/ \E d \in Doms : ThreadMigrates(d)

\* Threads that can run do run, and calls of libvirt return.
Fairness ==
    /\ WF_vars(TaskStep)
    /\ \A d \in Doms : WF_vars(ThreadMigrates(d))

Spec == Init /\ [][Next]_vars /\ Fairness

-----------------------------------------------------------------------------
(* Properties. *)

Done(r) == pc = "idle" /\ result = r

\* A domain is never active on two hosts, also while its snapshot is known to
\* both: create_snapshot halts it before redefine_snapshot and
\* revert_to_snapshot bring it up at the destination.
OneHome == \A d \in Doms : Cardinality(active[d]) <= 1

\* A swap that reports success leaves both domains running, on whatever host,
\* with their devices and processes; nothing that failed in a destructor is
\* passed over.  A device that did not detach, which leaves the domain with one
\* more than before, is found only where the migration failed unnoticed.  A
\* swap through a snapshot has swapped them, and no snapshot is left.
SuccessMeansIntact ==
    Done("success") =>
        /\ \A d \in Doms : active[d] # {} /\ state[d] = Intact
        /\ \A d \in stuck : mig[d] = "failed"
        /\ snap # "none" => saved = {} /\ \A d \in Doms : active[d] = {Away(d)}

\* A swap that fails before a domain is halted or migrated leaves both where
\* they were, with devices and processes: the guards that were constructed
\* undo their work, those that were not have done none.
RestoredOnEarlyError ==
    faults \subseteq Early /\ Done("error") =>
        \A d \in Doms : active[d] = {Home(d)} /\ state[d] = Intact /\ d \notin stuck

\* Every swap ends, whatever fails: joining the two threads of the parallel
\* swap and the destructors never wait for a success.
SwapEnds == pc # "idle" ~> pc = "idle"

\* mqtt-spec.md on migrate: "Domain is being migrated to the destination
\* node."  Success is reported only if both domains have moved.
SuccessMeansSwapped ==
    Done("success") => \A d \in Doms : active[d] = {Away(d)}

=============================================================================
