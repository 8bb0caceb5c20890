------------------------- MODULE DeviceCacheProofs -------------------------
(***************************************************************************)
(* What attach and detach promise whatever the hints say, for any number   *)
(* of task threads, devices and operations.                                *)
(***************************************************************************)
EXTENDS DeviceCache, FiniteSetTheorems, TLAPS

\* attach has a copy of the cache; detach is at work or done.
Trying == {"sort", "try", "attached", "refused", "undefined"}

Detaching == {"detach", "unhint", "detached"}

\* The part of TypeOK the proofs need.
Shape ==
    /\ owner \in [Devices -> Threads \cup {Free, Other}]
    /\ cache \subseteq Devices
    /\ pc \in [Threads -> States]
    /\ vec \in [Threads -> SUBSET Devices]
    /\ missed \in [Threads -> SUBSET Devices]

\* Without faults a search finds every device.
CacheInv == may = {} => cache \in {{}, Devices}

\* A device that was free all along is still to be tried, and one that is
\* still attached is still to be detached.
ThreadInv(t) ==
    /\ pc[t] \in Trying => missed[t] \subseteq vec[t]
    /\ pc[t] \notin Trying => missed[t] = {}
    /\ may = {} /\ pc[t] \in Detaching => Owned(t) \subseteq vec[t]
    /\ pc[t] = "detached" => vec[t] = {}

Inv == Shape /\ CacheInv /\ \A t \in Threads : ThreadInv(t)

\* What a step of a thread must not do to the others.
LEMMA OthersKeep ==
    ASSUME Inv, Shape', CacheInv', may' = may,
           NEW t \in Threads, ThreadInv(t)',
           \A x \in Threads \ {t} :
             /\ pc'[x] = pc[x] /\ vec'[x] = vec[x]
             /\ missed'[x] \subseteq missed[x] /\ Owned(x)' \subseteq Owned(x)
    PROVE  Inv'
  <1>1. ASSUME NEW x \in Threads \ {t}
        PROVE  ThreadInv(x)'
    BY <1>1 DEF Inv, ThreadInv
  <1> QED
    BY <1>1 DEF Inv

\* Without faults the devices of a filled entry are all devices.
LEMMA FilledAll ==
    ASSUME Inv, Filled, may' = may
    PROVE  CacheInv' /\ cache' \subseteq Devices /\ (may = {} => cache' = Devices)
  BY DEF Inv, Shape, CacheInv, Filled, Found

LEMMA InitInv == Init => Inv
  BY DEF Init, Inv, Shape, CacheInv, ThreadInv, Trying, Detaching, States, Owned, Free, Other

LEMMA StartInv ==
    ASSUME Inv, NEW t \in Threads, NEW n \in 1 .. Cardinality(Devices), Start(t, n)
    PROVE  Inv'
  <1>1. Shape' /\ CacheInv' /\ may' = may
    BY DEF Inv, Shape, CacheInv, Start, shared, Goto, States
  <1>2. ThreadInv(t)'
    BY DEF Inv, Shape, ThreadInv, Start, shared, At, Goto, Trying, Detaching
  <1> QED
    BY <1>1, <1>2, OthersKeep DEF Inv, Shape, Start, shared, Goto, Owned

LEMMA GetDevicesInv ==
    ASSUME Inv, NEW t \in Threads, GetDevices(t)
    PROVE  Inv'
  <1>1. may' = may /\ owner' = owner
    BY DEF GetDevices
  <1>2. CASE Goto(t, "failed") /\ UNCHANGED <<cache, vec, missed>>
    <2>1. Shape' /\ CacheInv'
      BY <1>1, <1>2 DEF Inv, Shape, CacheInv, Goto, States
    <2>2. ThreadInv(t)'
      BY <1>2 DEF Inv, Shape, ThreadInv, GetDevices, At, Goto, Trying, Detaching
    <2> QED
      BY <1>1, <1>2, <2>1, <2>2, OthersKeep DEF Inv, Shape, Goto, Owned
  <1>3. CASE /\ Filled
             /\ vec' = [vec EXCEPT ![t] = cache']
             /\ missed' = [missed EXCEPT ![t] = {d \in cache' : owner[d] = Free}]
             /\ Goto(t, IF cache' = {} THEN "failed" ELSE "sort")
    <2>1. CacheInv' /\ cache' \subseteq Devices
      BY <1>1, <1>3, FilledAll
    <2>2. Shape'
      BY <1>1, <1>3, <2>1 DEF Inv, Shape, Goto, States
    <2>3. ThreadInv(t)'
      BY <1>3, <2>1 DEF Inv, Shape, ThreadInv, Goto, Trying, Detaching
    <2> QED
      BY <1>1, <1>3, <2>1, <2>2, <2>3, OthersKeep DEF Inv, Shape, Goto, Owned
  <1> QED
    BY <1>2, <1>3 DEF GetDevices

LEMMA SortInv ==
    ASSUME Inv, NEW t \in Threads, Sort(t)
    PROVE  Inv'
  <1>1. UNCHANGED <<may, owner, cache, vec, missed>> /\ pc[t] = "sort"
    BY DEF Sort, shared, At
  <1>2. PICK s \in {"try", "undefined"} : pc' = [pc EXCEPT ![t] = s]
    BY DEF Sort, Goto
  <1>3. Shape' /\ CacheInv'
    BY <1>1, <1>2 DEF Inv, Shape, CacheInv, States
  <1>4. ThreadInv(t)'
    BY <1>1, <1>2 DEF Inv, Shape, ThreadInv, Trying, Detaching
  <1> QED
    BY <1>1, <1>2, <1>3, <1>4, OthersKeep DEF Inv, Shape, Owned

LEMMA TryInv ==
    ASSUME Inv, NEW t \in Threads, NEW d \in Devices, Try(t, d)
    PROVE  Inv'
  <1>1. UNCHANGED <<may, cache>> /\ pc[t] = "try" /\ vec' = [vec EXCEPT ![t] = @ \ {d}]
    BY DEF Try, At
  <1>2. CASE Give(d, t) /\ Goto(t, "attached")
    <2>1. Shape' /\ CacheInv'
      BY <1>1, <1>2 DEF Inv, Shape, CacheInv, Give, Goto, States
    <2>2. ThreadInv(t)'
      BY <1>1, <1>2 DEF Inv, Shape, ThreadInv, Give, Goto, Trying, Detaching
    <2>3. \A x \in Threads \ {t} : Owned(x)' \subseteq Owned(x)
      BY <1>2 DEF Inv, Shape, Give, Owned
    <2> QED
      BY <1>1, <1>2, <2>1, <2>2, <2>3, OthersKeep DEF Inv, Shape, Give, Goto
  <1>3. CASE /\ missed' = [missed EXCEPT ![t] = @ \ {d}]
             /\ Goto(t, "refused") /\ UNCHANGED owner
    <2>1. Shape' /\ CacheInv'
      BY <1>1, <1>3 DEF Inv, Shape, CacheInv, Goto, States
    <2>2. ThreadInv(t)'
      BY <1>1, <1>3 DEF Inv, Shape, ThreadInv, Goto, Trying, Detaching
    <2> QED
      BY <1>1, <1>3, <2>1, <2>2, OthersKeep DEF Inv, Shape, Goto, Owned
  <1> QED
    BY <1>2, <1>3 DEF Try

\* The copy is forgotten at the end of an attach and after an exception.
LEMMA ForgetInv ==
    ASSUME Inv, NEW t \in Threads, Forget(t), UNCHANGED <<may, owner, cache>>,
           NEW s \in {"idle", "get"}, Goto(t, s)
    PROVE  Inv'
  <1>1. Shape' /\ CacheInv'
    BY DEF Inv, Shape, CacheInv, Forget, Goto, States
  <1>2. ThreadInv(t)'
    BY DEF Inv, Shape, ThreadInv, Forget, Goto, Trying, Detaching
  <1> QED
    BY <1>1, <1>2, OthersKeep DEF Inv, Shape, Forget, Goto, Owned

LEMMA AttachedInv ==
    ASSUME Inv, NEW t \in Threads, Attached(t) \/ Report(t)
    PROVE  Inv'
  <1>1. Forget(t) /\ UNCHANGED <<may, owner, cache>>
    BY DEF Attached, Report, shared
  <1>2. \E s \in {"idle", "get"} : Goto(t, s)
    BY DEF Attached, Report
  <1> QED
    BY <1>1, <1>2, ForgetInv

\* The loop over the devices ends without success only when none is left.
LEMMA RefusedInv ==
    ASSUME Inv, NEW t \in Threads, Refused(t)
    PROVE  Inv'
  <1>1. UNCHANGED <<may, owner, cache, vec, missed>> /\ pc[t] = "refused"
    BY DEF Refused, At
  <1>2. PICK s \in {"failed", "try"} :
            pc' = [pc EXCEPT ![t] = s] /\ (s = "failed" => Upcoming(t) = {})
    BY DEF Refused, Goto
  <1>3. Upcoming(t) = {} => vec[t] = {}
    BY DEF Upcoming
  <1>4. Shape' /\ CacheInv'
    BY <1>1, <1>2 DEF Inv, Shape, CacheInv, States
  <1>5. ThreadInv(t)'
    BY <1>1, <1>2, <1>3 DEF Inv, Shape, ThreadInv, Trying, Detaching
  <1> QED
    BY <1>1, <1>2, <1>4, <1>5, OthersKeep DEF Inv, Shape, Owned

LEMMA BeginDetachInv ==
    ASSUME Inv, NEW t \in Threads, BeginDetach(t)
    PROVE  Inv'
  <1>1. UNCHANGED <<may, owner, missed>> /\ pc[t] = "idle"
    BY DEF BeginDetach, At
  <1>2. CASE Goto(t, "failed") /\ UNCHANGED <<cache, vec>>
    <2>1. Shape' /\ CacheInv'
      BY <1>1, <1>2 DEF Inv, Shape, CacheInv, Goto, States
    <2>2. ThreadInv(t)'
      BY <1>1, <1>2 DEF Inv, Shape, ThreadInv, Goto, Trying, Detaching
    <2> QED
      BY <1>1, <1>2, <2>1, <2>2, OthersKeep DEF Inv, Shape, Goto, Owned
  <1>3. CASE /\ IF Owned(t) = {} THEN cache' = cache ELSE Filled
             /\ vec' = [vec EXCEPT ![t] = Owned(t) \cap cache']
             /\ Goto(t, "detach")
    <2>1. CacheInv' /\ cache' \subseteq Devices /\ (may = {} => Owned(t) \subseteq cache')
      <3>1. CASE Owned(t) = {}
        BY <1>1, <1>3, <3>1 DEF Inv, Shape, CacheInv
      <3>2. CASE Owned(t) # {}
        BY <1>1, <1>3, <3>2, FilledAll DEF Owned
      <3> QED
        BY <3>1, <3>2
    <2>2. Shape'
      BY <1>1, <1>3, <2>1 DEF Inv, Shape, Goto, States, Owned
    <2>3. Owned(t)' = Owned(t)
      BY <1>1 DEF Owned
    <2>4. ThreadInv(t)'
      BY <1>1, <1>3, <2>1, <2>3 DEF Inv, Shape, ThreadInv, Goto, Trying, Detaching
    <2> QED
      BY <1>1, <1>3, <2>1, <2>2, <2>4, OthersKeep DEF Inv, Shape, Goto, Owned
  <1> QED
    BY <1>2, <1>3 DEF BeginDetach

LEMMA DetachDeviceInv ==
    ASSUME Inv, NEW t \in Threads, NEW d \in Devices, DetachDevice(t, d)
    PROVE  Inv'
  <1>1. /\ UNCHANGED <<may, cache, missed>> /\ pc[t] = "detach"
        /\ vec' = [vec EXCEPT ![t] = @ \ {d}] /\ pc' = [pc EXCEPT ![t] = "unhint"]
    BY DEF DetachDevice, At, Goto
  <1>2. owner' = [owner EXCEPT ![d] = Free] \/ ("detach" \in may /\ owner' = owner)
    BY DEF DetachDevice
  <1>3. Shape' /\ CacheInv'
    BY <1>1, <1>2 DEF Inv, Shape, CacheInv, States
  <1>4. Free \notin Threads
    BY Parameters
  <1>5. \A x \in Threads : Owned(x)' \subseteq Owned(x) /\ (may = {} => d \notin Owned(x)')
    BY <1>2, <1>4 DEF Inv, Shape, Owned
  <1>6. ThreadInv(t)'
    BY <1>1, <1>5 DEF Inv, Shape, ThreadInv, Trying, Detaching
  <1> QED
    BY <1>1, <1>3, <1>5, <1>6, OthersKeep DEF Inv, Shape

LEMMA DetachStepInv ==
    ASSUME Inv, NEW t \in Threads, Unhint(t) \/ Detached(t) \/ Reattach(t)
    PROVE  Inv'
  <1>1. UNCHANGED <<may, owner, cache, vec, missed>>
    BY DEF Unhint, Detached, Reattach, shared
  <1>2. PICK s \in {"detach", "detached", "idle", "get"} :
            /\ pc' = [pc EXCEPT ![t] = s]
            /\ s \in {"detach", "detached"} => pc[t] \in {"unhint", "detach"}
            /\ s = "detached" => vec[t] = {}
    BY DEF Unhint, Detached, Reattach, At, Goto
  <1>3. pc[t] \in Detaching
    BY DEF Unhint, Detached, Reattach, At, Detaching
  <1>4. Shape' /\ CacheInv'
    BY <1>1, <1>2 DEF Inv, Shape, CacheInv, States
  <1>5. Owned(t)' = Owned(t)
    BY <1>1 DEF Owned
  <1>6. ThreadInv(t)'
    BY <1>1, <1>2, <1>3, <1>5 DEF Inv, Shape, ThreadInv, Trying, Detaching
  <1> QED
    BY <1>1, <1>2, <1>4, <1>6, OthersKeep DEF Inv, Shape, Owned

LEMMA LeaveInv ==
    ASSUME Inv, NEW t \in Threads, Leave(t)
    PROVE  Inv'
  <1>1. /\ UNCHANGED <<may, cache, vec, missed>> /\ pc[t] = "detached"
        /\ pc' = [pc EXCEPT ![t] = "idle"]
        /\ owner' = [d \in Devices |-> IF owner[d] = t THEN Free ELSE owner[d]]
    BY DEF Leave, At, Goto
  <1>2. Shape' /\ CacheInv'
    BY <1>1 DEF Inv, Shape, CacheInv, States
  <1>3. ThreadInv(t)'
    BY <1>1 DEF Inv, Shape, ThreadInv, Trying, Detaching
  <1>4. Free \notin Threads
    BY Parameters
  <1>5. \A x \in Threads : Owned(x)' \subseteq Owned(x)
    BY <1>1, <1>4 DEF Owned
  <1> QED
    BY <1>1, <1>2, <1>3, <1>5, OthersKeep DEF Inv, Shape

LEMMA OtherDaemonInv ==
    ASSUME Inv, NEW d \in Devices, OtherDaemon(d)
    PROVE  Inv'
  <1>1. UNCHANGED <<may, cache, pc, vec>>
    BY DEF OtherDaemon, thread
  <1>2. PICK o \in {Free, Other} : owner' = [owner EXCEPT ![d] = o]
    BY DEF OtherDaemon, Give
  <1>3. /\ missed' \in [Threads -> SUBSET Devices]
        /\ \A t \in Threads : missed'[t] \subseteq missed[t]
    BY DEF Inv, Shape, OtherDaemon, Give
  <1>4. Shape' /\ CacheInv'
    BY <1>1, <1>2, <1>3 DEF Inv, Shape, CacheInv
  <1>5. {Free, Other} \cap Threads = {}
    BY Parameters
  <1>6. \A t \in Threads : Owned(t)' \subseteq Owned(t)
    BY <1>2, <1>5 DEF Inv, Shape, Owned
  <1>7. ASSUME NEW t \in Threads
        PROVE  ThreadInv(t)'
    BY <1>1, <1>3, <1>6, <1>7 DEF Inv, ThreadInv
  <1> QED
    BY <1>4, <1>7 DEF Inv

LEMMA StutterInv == Inv /\ UNCHANGED vars => Inv'
  BY DEF Inv, Shape, CacheInv, ThreadInv, Owned, vars

LEMMA NextInv == Inv /\ [Next]_vars => Inv'
  <1> SUFFICES ASSUME Inv, [Next]_vars
               PROVE  Inv'
    OBVIOUS
  <1>1. ASSUME NEW t \in Threads, Call(t)
        PROVE  Inv'
    BY <1>1, GetDevicesInv, SortInv, AttachedInv, RefusedInv, TryInv, DetachDeviceInv,
       DetachStepInv DEF Call
  <1>2. ASSUME NEW t \in Threads, BeginDetach(t) \/ Reattach(t) \/ Leave(t) \/ Report(t)
        PROVE  Inv'
    BY <1>2, BeginDetachInv, DetachStepInv, LeaveInv, AttachedInv
  <1> QED
    BY <1>1, <1>2, StartInv, OtherDaemonInv, StutterInv DEF Next

LEMMA Invariance == Spec => []Inv
  BY InitInv, NextInv, PTL DEF Spec

\* PCI_device_handler::attach gives up only when every device of its copy was
\* in use, or was refused, at some moment of the call, however stale the copy
\* and the hints were and whatever order the sort left.
THEOREM AttachNeverMissesADevice == Spec => []FailsOnlyWhenTaken
  <1>1. Inv => FailsOnlyWhenTaken
    BY DEF Inv, ThreadInv, FailsOnlyWhenTaken, Trying
  <1> QED
    BY <1>1, Invariance, PTL

\* Without a failing call of libvirt PCI_device_handler::detach leaves no
\* device attached, those included the daemon has never attached itself.
THEOREM DetachLeavesNothing == Spec => []DetachedMeansBare
  <1>1. Inv => DetachedMeansBare
    BY DEF Inv, ThreadInv, DetachedMeansBare, Detaching
  <1> QED
    BY <1>1, Invariance, PTL

-----------------------------------------------------------------------------
(* Types: what Shape leaves out. *)

\* attach is at work.
Attaching == {"get", "sort", "try", "attached", "refused"}

Counts ==
    /\ calls \in 0 .. MaxCalls
    /\ todo \in [Threads -> 0 .. Cardinality(Devices)]

\* The loop of attach is entered for a device that is still to be attached:
\* its counter never goes below zero.
CountInv == Counts /\ \A t \in Threads : pc[t] \in Attaching => todo[t] # 0

HintInv ==
    /\ hint \in [Devices -> BOOLEAN]
    /\ raced \in [Threads -> BOOLEAN]
    /\ marked \in [Threads -> SUBSET Devices]

LEMMA SetHintType ==
    ASSUME HintInv, NEW t \in Threads, NEW value \in BOOLEAN, SetHint(t, value)
    PROVE  hint' \in [Devices -> BOOLEAN] /\ raced' \in [Threads -> BOOLEAN]
  <1>1. hint' \in [Devices -> BOOLEAN]
    BY DEF HintInv, SetHint
  <1>2. raced' \in [Threads -> BOOLEAN]
    BY Zenon DEF SetHint
  <1> QED
    BY <1>1, <1>2

LEMMA HintNext ==
    ASSUME Inv, HintInv, [Next]_vars
    PROVE  HintInv'
  <1>1. ASSUME UNCHANGED <<hint, raced, marked>>
        PROVE  HintInv'
    BY <1>1 DEF HintInv
  <1>2. ASSUME NEW t \in Threads, Attached(t) \/ Refused(t) \/ Unhint(t)
        PROVE  HintInv'
    <2>1. SetHint(t, TRUE) \/ SetHint(t, FALSE)
      BY <1>2 DEF Attached, Refused, Unhint
    <2>2. marked' \in [Threads -> SUBSET Devices]
      BY <1>2 DEF HintInv, Attached, Refused, Unhint, Forget
    <2> QED
      BY <2>1, <2>2, SetHintType DEF HintInv
  <1>3. ASSUME NEW t \in Threads, Sort(t)
        PROVE  HintInv'
    <2>1. hint' = hint /\ raced' = [raced EXCEPT ![t] = FALSE] /\ vec[t] \subseteq Devices
      BY <1>3 DEF Sort, shared, Inv, Shape
    <2>2. marked' = marked \/ \E behind \in SUBSET vec[t] : marked' = [marked EXCEPT ![t] = behind]
      BY <1>3 DEF Sort
    <2> QED
      BY <2>1, <2>2 DEF HintInv
  <1>4. ASSUME NEW t \in Threads, Report(t)
        PROVE  HintInv'
    BY <1>4 DEF HintInv, Report, shared, Forget
  <1>5. ASSUME NEW t \in Threads,
               \/ GetDevices(t) \/ Detached(t) \/ BeginDetach(t) \/ Reattach(t) \/ Leave(t)
               \/ \E d \in Devices : Try(t, d) \/ DetachDevice(t, d)
        PROVE  HintInv'
    BY <1>1, <1>5 DEF GetDevices, Detached, BeginDetach, Reattach, Leave, Try, DetachDevice, shared
  <1>6. ASSUME NEW t \in Threads, NEW n \in 1 .. Cardinality(Devices), Start(t, n)
        PROVE  HintInv'
    BY <1>1, <1>6 DEF Start, shared
  <1>7. ASSUME NEW d \in Devices, OtherDaemon(d)
        PROVE  HintInv'
    BY <1>1, <1>7 DEF OtherDaemon, thread
  <1>8. CASE UNCHANGED vars
    BY <1>1, <1>8 DEF vars
  <1> QED
    BY <1>2, <1>3, <1>4, <1>5, <1>6, <1>7, <1>8 DEF Next, Call

\* The counters after a step of thread t that leaves it in state s with n
\* devices to attach.
LEMMA CountsKeep ==
    ASSUME Inv, CountInv, NEW t \in Threads, NEW s \in States, Goto(t, s),
           NEW n \in 0 .. Cardinality(Devices), todo' = [todo EXCEPT ![t] = n],
           s \in Attaching => n # 0, calls' \in 0 .. MaxCalls
    PROVE  CountInv'
  BY DEF Inv, Shape, CountInv, Counts, Goto

LEMMA CountNext ==
    ASSUME Inv, CountInv, [Next]_vars
    PROVE  CountInv'
  <1>0. Cardinality(Devices) \in Nat /\ MaxCalls \in Nat
    BY Parameters, FS_CardinalityType
  <1>1. \A t \in Threads : todo[t] \in 0 .. Cardinality(Devices) /\ todo = [todo EXCEPT ![t] = todo[t]]
    BY DEF CountInv, Counts
  <1>2. ASSUME NEW t \in Threads, NEW s \in States, Goto(t, s), UNCHANGED <<calls, todo>>,
               s \in Attaching => todo[t] # 0
        PROVE  CountInv'
    BY <1>1, <1>2, CountsKeep DEF CountInv, Counts
  <1>3. ASSUME NEW t \in Threads,
               \/ GetDevices(t) \/ Sort(t) \/ Refused(t)
               \/ \E d \in Devices : Try(t, d) \/ DetachDevice(t, d)
               \/ Unhint(t) \/ Detached(t) \/ Reattach(t)
        PROVE  CountInv'
    <2>1. UNCHANGED <<calls, todo>>
      BY <1>3 DEF GetDevices, Sort, Refused, Try, DetachDevice, Unhint, Detached, Reattach
    <2>2. PICK s \in States :
              Goto(t, s) /\ (s \in Attaching => pc[t] \in Attaching \/ todo[t] # 0)
      BY <1>3 DEF GetDevices, Sort, Refused, Try, DetachDevice, Unhint, Detached, Reattach, At,
                  States, Attaching
    <2>3. s \in Attaching => todo[t] # 0
      BY <2>2 DEF CountInv
    <2> QED
      BY <1>2, <2>1, <2>2, <2>3
  <1>4. ASSUME NEW t \in Threads, Attached(t)
        PROVE  CountInv'
    <2>1. todo[t] \in 1 .. Cardinality(Devices) /\ todo' = [todo EXCEPT ![t] = todo[t] - 1]
      BY <1>0, <1>1, <1>4 DEF Attached, At, CountInv, Attaching
    <2>2. todo[t] - 1 \in 0 .. Cardinality(Devices) /\ (todo[t] # 1 => todo[t] - 1 # 0)
      BY <1>0, <2>1
    <2>3. PICK s \in {"idle", "get"} : Goto(t, s) /\ (s = "get" => todo[t] # 1)
      BY <1>4 DEF Attached
    <2>4. calls' \in 0 .. MaxCalls /\ s \in States /\ (s \in Attaching => s = "get")
      BY <1>4 DEF Attached, CountInv, Counts, States, Attaching
    <2> QED
      BY <2>1, <2>2, <2>3, <2>4, CountsKeep
  <1>5. ASSUME NEW t \in Threads, BeginDetach(t)
        PROVE  CountInv'
    <2>1. calls' \in 0 .. MaxCalls
      BY <1>0, <1>5 DEF BeginDetach, CountInv, Counts
    <2>2. Cardinality(Owned(t)) \in 0 .. Cardinality(Devices)
      <3>1. Owned(t) \in SUBSET Devices
        BY DEF Owned
      <3>2. IsFiniteSet(Owned(t)) /\ Cardinality(Owned(t)) <= Cardinality(Devices)
        BY <3>1, Parameters, FS_Subset
      <3>3. Cardinality(Owned(t)) \in Nat
        BY <3>2, FS_CardinalityType
      <3> QED
        BY <1>0, <3>2, <3>3
    <2>3. PICK s \in {"failed", "detach"}, n \in {todo[t], Cardinality(Owned(t))} :
              Goto(t, s) /\ todo' = [todo EXCEPT ![t] = n]
      BY <1>1, <1>5 DEF BeginDetach
    <2>4. s \in States \ Attaching /\ n \in 0 .. Cardinality(Devices)
      BY <1>1, <2>2 DEF States, Attaching
    <2> QED
      BY <2>1, <2>3, <2>4, CountsKeep
  <1>6. ASSUME NEW t \in Threads, Leave(t) \/ Report(t)
        PROVE  CountInv'
    <2>1. Goto(t, "idle") /\ todo' = [todo EXCEPT ![t] = 0] /\ calls' \in 0 .. MaxCalls
      BY <1>6 DEF Leave, Report, CountInv, Counts
    <2>2. "idle" \in States /\ "idle" \notin Attaching /\ 0 \in 0 .. Cardinality(Devices)
      BY <1>0 DEF States, Attaching
    <2> QED
      BY <2>1, <2>2, CountsKeep
  <1>7. ASSUME NEW t \in Threads, NEW n \in 1 .. Cardinality(Devices), Start(t, n)
        PROVE  CountInv'
    <2>1. Goto(t, "get") /\ todo' = [todo EXCEPT ![t] = n] /\ calls' \in 0 .. MaxCalls
      BY <1>0, <1>7 DEF Start, CountInv, Counts
    <2>2. n \in 0 .. Cardinality(Devices) /\ n # 0
      BY <1>0
    <2> QED
      BY <2>1, <2>2, CountsKeep DEF States
  <1>8. ASSUME UNCHANGED <<pc, calls, todo>>
        PROVE  CountInv'
    BY <1>8 DEF CountInv, Counts
  <1>9. ASSUME NEW d \in Devices, OtherDaemon(d)
        PROVE  CountInv'
    BY <1>8, <1>9 DEF OtherDaemon, thread
  <1>10. CASE UNCHANGED vars
    BY <1>8, <1>10 DEF vars
  <1> QED
    BY <1>3, <1>4, <1>5, <1>6, <1>7, <1>9, <1>10 DEF Next, Call

LEMMA TypeInit == Init => CountInv /\ HintInv
  <1>1. Init => CountInv
    BY Parameters, FS_CardinalityType DEF Init, CountInv, Counts, Attaching
  <1>2. Init => HintInv
    BY DEF Init, HintInv
  <1> QED
    BY <1>1, <1>2

\* The variables stay in their types: in particular attach counts the devices
\* it still has to attach down to zero and not beyond, and detach never asks
\* for more devices than the host has.
THEOREM TypeCorrect == Spec => []TypeOK
  <1>1. Inv /\ CountInv /\ HintInv => TypeOK
    BY DEF Inv, Shape, CountInv, Counts, HintInv, TypeOK
  <1> QED
    BY <1>1, InitInv, NextInv, TypeInit, CountNext, HintNext, PTL DEF Spec

=============================================================================
