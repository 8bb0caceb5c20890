---------------------------- MODULE DeviceCache ----------------------------
(***************************************************************************)
(* PCI_device_handler of pci_device_handler.cpp under concurrent tasks of  *)
(* one daemon: Device_cache::get_devices fills its entry under the mutex,  *)
(* hands out a copy and orders it by the hints of the devices without the  *)
(* mutex; attach tries device after device; detach resets the hints.       *)
(*                                                                         *)
(* One host and one PCI-id, that is one entry of the cache, and one domain *)
(* per task thread.  libvirt is external and gives a device to one domain  *)
(* only.  The daemon of another node attaches devices of this host, too,   *)
(* when it migrates a domain here: neither cache nor hints know of that.   *)
(***************************************************************************)
EXTENDS Integers, FiniteSets

CONSTANTS
    Threads,    \* task threads, each with a domain of its own
    Devices,    \* the devices of the PCI-id on the host
    Faults,     \* what may fail: "list", "describe", "refuse", "detach"
    MaxCalls    \* bound: number of operations

Free == "free"

Other == "other daemon"

ASSUME Parameters ==
    /\ {Free, Other} \cap Threads = {}
    /\ IsFiniteSet(Devices)
    /\ Faults \subseteq {"list", "describe", "refuse", "detach"}
    /\ MaxCalls \in Nat

VARIABLES
    may,      \* the faults of this behaviour
    owner,    \* libvirt: the domain that has each device
    cache,    \* Device_cache::devices, the devices found
    hint,     \* Device::attached_hint
    calls,    \* number of operations so far
    pc,       \* where each thread is
    todo,     \* devices the thread still has to attach
    vec,      \* the devices the thread has copied and not yet tried or detached
    marked,   \* those of vec that the sort has put behind the others
    cur,      \* the device of the libvirt call in progress
    raced,    \* a hint has changed while the thread was sorting
    missed    \* history: cached devices free, and not refused, all through the call

shared == <<may, owner, cache, hint>>

thread == <<pc, todo, vec, marked, cur>>

vars == <<may, owner, cache, hint, calls, pc, todo, vec, marked, cur, raced, missed>>

States ==
    {"idle", "get", "sort", "try", "attached", "refused", "detach", "unhint", "detached",
     "failed", "undefined"}

TypeOK ==
    /\ owner \in [Devices -> Threads \cup {Free, Other}]
    /\ cache \subseteq Devices
    /\ hint \in [Devices -> BOOLEAN]
    /\ calls \in 0 .. MaxCalls
    /\ pc \in [Threads -> States]
    /\ todo \in [Threads -> 0 .. Cardinality(Devices)]
    /\ vec \in [Threads -> SUBSET Devices]
    /\ marked \in [Threads -> SUBSET Devices]
    /\ raced \in [Threads -> BOOLEAN]
    /\ missed \in [Threads -> SUBSET Devices]

\* The daemon starts, with domains on the host that got devices before.
Init ==
    /\ may \in {{}, Faults}
    /\ owner \in [Devices -> Threads \cup {Free, Other}]
    /\ cache = {}
    /\ hint = [d \in Devices |-> FALSE]
    /\ calls = 0
    /\ pc = [t \in Threads |-> "idle"]
    /\ todo = [t \in Threads |-> 0]
    /\ vec = [t \in Threads |-> {}]
    /\ marked = [t \in Threads |-> {}]
    /\ cur = [t \in Threads |-> Free]
    /\ raced = [t \in Threads |-> FALSE]
    /\ missed = [t \in Threads |-> {}]

-----------------------------------------------------------------------------

Owned(t) == {d \in Devices : owner[d] = t}

\* No thread has run out of its vector: the process is alive.
Alive == \A t \in Threads : pc[t] # "undefined"

At(t, state) == Alive /\ pc[t] = state

Goto(t, state) == pc' = [pc EXCEPT ![t] = state]

\* The device d gets the owner o.
Give(d, o) ==
    /\ owner' = [owner EXCEPT ![d] = o]
    /\ missed' = [t \in Threads |-> missed[t] \ {d}]

\* The hint of the device at hand is set while others may be comparing hints.
SetHint(t, value) ==
    /\ hint' = [hint EXCEPT ![cur[t]] = value]
    /\ cur' = [cur EXCEPT ![t] = Free]
    /\ raced' = [x \in Threads |->
                   \/ raced[x]
                   \/ pc[x] = "sort" /\ cur[t] \in vec[x] /\ hint[cur[t]] # value]

\* What the search may find: a device whose description cannot be read is
\* skipped.
Found == IF "describe" \in may THEN SUBSET Devices ELSE {Devices}

\* The part of get_devices under the mutex: only an empty entry is searched for.
MutNeverSearch == cache' = cache

Filled == IF cache = {} THEN cache' \in Found ELSE cache' = cache

\* The copy of the cache goes out of scope.
Forget(t) ==
    /\ vec' = [vec EXCEPT ![t] = {}]
    /\ marked' = [marked EXCEPT ![t] = {}]
    /\ missed' = [missed EXCEPT ![t] = {}]

-----------------------------------------------------------------------------
(* PCI_device_handler::attach *)

\* start asks for n devices of this PCI-id.
Start(t, n) ==
    /\ At(t, "idle")
    /\ calls < MaxCalls
    /\ Owned(t) = {}
    /\ calls' = calls + 1
    /\ todo' = [todo EXCEPT ![t] = n]
    /\ Goto(t, "get")
    /\ UNCHANGED <<shared, vec, marked, cur, raced, missed>>

\* get_devices, up to the copy: an exception, no device, or a vector.
GetDevices(t) ==
    /\ At(t, "get")
    /\ \/ /\ "list" \in may /\ cache = {}
          /\ Goto(t, "failed")
          /\ UNCHANGED <<cache, vec, missed>>
       \/ /\ Filled
          /\ vec' = [vec EXCEPT ![t] = cache']
          /\ missed' = [missed EXCEPT ![t] = {d \in cache' : owner[d] = Free}]
          /\ Goto(t, IF cache' = {} THEN "failed" ELSE "sort")
    /\ UNCHANGED <<may, owner, hint, calls, todo, marked, cur, raced>>

\* The order depends on hints read one by one.  When they change meanwhile
\* the comparison is not an order: std::sort leaves any order or leaves the
\* vector.
Sort(t) ==
    /\ At(t, "sort")
    /\ \/ /\ ~raced[t]
          /\ marked' = [marked EXCEPT ![t] = {d \in vec[t] : hint[d]}]
          /\ Goto(t, "try")
       \/ /\ raced[t]
          /\ \E behind \in SUBSET vec[t] : marked' = [marked EXCEPT ![t] = behind]
          /\ Goto(t, "try")
       \/ raced[t] /\ Goto(t, "undefined") /\ UNCHANGED marked
    /\ raced' = [raced EXCEPT ![t] = FALSE]
    /\ UNCHANGED <<shared, calls, todo, vec, cur, missed>>

\* The devices that may come next in the vector.
MutOnlyUnmarked(t) == vec[t] \ marked[t]

Upcoming(t) == IF vec[t] \subseteq marked[t] THEN vec[t] ELSE vec[t] \ marked[t]

\* virDomainAttachDevice: a device that is free becomes the domain's, unless
\* libvirt refuses.
Try(t, d) ==
    /\ At(t, "try")
    /\ d \in Upcoming(t)
    /\ cur' = [cur EXCEPT ![t] = d]
    /\ vec' = [vec EXCEPT ![t] = @ \ {d}]
    /\ \/ owner[d] = Free /\ Give(d, t) /\ Goto(t, "attached")
       \/ /\ owner[d] # Free \/ "refuse" \in may
          /\ missed' = [missed EXCEPT ![t] = @ \ {d}]
          /\ Goto(t, "refused")
          /\ UNCHANGED owner
    /\ UNCHANGED <<may, cache, hint, calls, todo, marked, raced>>

\* The hint is set whether the device was attached or not; the loop over the
\* devices ends with the first success.
MutPostTest(t) ==
    /\ At(t, "attached")
    /\ SetHint(t, TRUE)
    /\ todo' = [todo EXCEPT ![t] = @ - 1]
    /\ Goto(t, IF todo[t] = 0 THEN "idle" ELSE "get")
    /\ Forget(t)
    /\ UNCHANGED <<may, owner, cache, calls>>

Attached(t) ==
    /\ At(t, "attached")
    /\ SetHint(t, TRUE)
    /\ todo' = [todo EXCEPT ![t] = @ - 1]
    /\ Goto(t, IF todo[t] = 1 THEN "idle" ELSE "get")
    /\ Forget(t)
    /\ UNCHANGED <<may, owner, cache, calls>>

Refused(t) ==
    /\ At(t, "refused")
    /\ SetHint(t, TRUE)
    /\ Goto(t, IF Upcoming(t) = {} THEN "failed" ELSE "try")
    /\ UNCHANGED <<may, owner, cache, calls, todo, vec, marked, missed>>

-----------------------------------------------------------------------------
(* PCI_device_handler::detach and Migrate_devices_guard *)

\* The addresses come from the domain's XML; the devices to detach are those
\* of them that the cache knows, the number of devices is that of the addresses.
BeginDetach(t) ==
    /\ At(t, "idle")
    /\ calls < MaxCalls
    /\ calls' = calls + 1
    /\ \/ /\ may # {}
          /\ Goto(t, "failed")
          /\ UNCHANGED <<cache, vec, todo>>
       \/ /\ IF Owned(t) = {} THEN cache' = cache ELSE Filled
          /\ vec' = [vec EXCEPT ![t] = Owned(t) \cap cache']
          /\ todo' = [todo EXCEPT ![t] = Cardinality(Owned(t))]
          /\ Goto(t, "detach")
    /\ UNCHANGED <<may, owner, hint, marked, cur, raced, missed>>

\* virDomainDetachDevice; that it fails is only logged.
DetachDevice(t, d) ==
    /\ At(t, "detach")
    /\ d \in vec[t]
    /\ cur' = [cur EXCEPT ![t] = d]
    /\ vec' = [vec EXCEPT ![t] = @ \ {d}]
    /\ owner' = [owner EXCEPT ![d] = Free] \/ ("detach" \in may /\ UNCHANGED owner)
    /\ Goto(t, "unhint")
    /\ UNCHANGED <<may, cache, hint, calls, todo, marked, raced, missed>>

Unhint(t) ==
    /\ At(t, "unhint")
    /\ SetHint(t, FALSE)
    /\ Goto(t, "detach")
    /\ UNCHANGED <<may, owner, cache, calls, todo, vec, marked, missed>>

Detached(t) ==
    /\ At(t, "detach")
    /\ vec[t] = {}
    /\ Goto(t, "detached")
    /\ UNCHANGED <<shared, calls, todo, vec, marked, cur, raced, missed>>

\* Migrate_devices_guard::reattach on this host: the migration failed.
Reattach(t) ==
    /\ At(t, "detached")
    /\ Goto(t, IF todo[t] = 0 THEN "idle" ELSE "get")
    /\ UNCHANGED <<shared, calls, todo, vec, marked, cur, raced, missed>>

\* The domain is stopped, or runs on another host from now on; devices that
\* did not detach go back to the host.
Leave(t) ==
    /\ At(t, "detached")
    /\ owner' = [d \in Devices |-> IF owner[d] = t THEN Free ELSE owner[d]]
    /\ todo' = [todo EXCEPT ![t] = 0]
    /\ Goto(t, "idle")
    /\ UNCHANGED <<may, cache, hint, calls, vec, marked, cur, raced, missed>>

\* The exception becomes an error result; the thread takes another task.
Report(t) ==
    /\ At(t, "failed")
    /\ Goto(t, "idle")
    /\ todo' = [todo EXCEPT ![t] = 0]
    /\ Forget(t)
    /\ UNCHANGED <<shared, calls, cur, raced>>

\* The daemon of another node migrates a domain to or from this host.
OtherDaemon(d) ==
    /\ Alive
    /\ \/ owner[d] = Free /\ Give(d, Other)
       \/ owner[d] = Other /\ owner' = [owner EXCEPT ![d] = Free] /\ UNCHANGED missed
    /\ UNCHANGED <<may, cache, hint, calls, thread, raced>>

Call(t) ==
    \/ GetDevices(t) \/ Sort(t) \/ Attached(t) \/ Refused(t)
    \/ \E d \in Devices : Try(t, d) \/ DetachDevice(t, d)
    \/ Unhint(t) \/ Detached(t)

Next ==
    \/ \E t \in Threads : Call(t) \/ BeginDetach(t) \/ Reattach(t) \/ Leave(t) \/ Report(t)
    \/ \E t \in Threads, n \in 1 .. Cardinality(Devices) : Start(t, n)
    \/ \E d \in Devices : OtherDaemon(d)

Spec == Init /\ [][Next]_vars

-----------------------------------------------------------------------------
(* Properties. *)

\* pci_device_handler.hpp on the hint: "Nevertheless the device might still be
\* tried to attach but has lower priority."  However stale the hints and the
\* copy are, attach fails only if every device of the cache was in use, or
\* was refused by libvirt, at some moment of the call.
FailsOnlyWhenTaken ==
    \A t \in Threads : pc[t] = "failed" => missed[t] = {}

\* Without a failing libvirt call nothing stays attached to a domain that is
\* about to migrate or to stop: the cache knows every device, those included
\* that another daemon, or this one before a restart, has attached.
DetachedMeansBare ==
    \A t \in Threads : may = {} /\ pc[t] = "detached" => Owned(t) = {}

=============================================================================
