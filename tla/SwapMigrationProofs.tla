------------------------- MODULE SwapMigrationProofs -------------------------
(***************************************************************************)
(* The swap of two domains for all sizes, amounts of free memory and sets  *)
(* of failing calls: no domain is ever active twice, success means two     *)
(* intact domains, and an early failure is undone.                         *)
(***************************************************************************)
EXTENDS SwapMigration, FiniteSetTheorems, TLAPS

-----------------------------------------------------------------------------
(* The inductive invariant. *)

\* Where a domain is, and where its guards believe it to be.
Fresh(d) ==
    active[d] = {Home(d)} /\ target[d] = Home(d) /\ ~state[d].paused

Moved(d) == active[d] = {Away(d)} /\ target[d] = Away(d)

Halted(d) == active[d] = {} /\ target[d] = Home(d)

\* The guards of "b" follow those of "a".
Place(d) == IF d = "a" THEN 0 ELSE 1

\* The first built guards have done their work on d and the others have not.
Prepared(d) ==
    /\ state[d].quiet <=> built >= 1 + Place(d)
    /\ state[d].pci <=> built < 3 + Place(d)
    /\ state[d].ivshmem <=> built < 5 + Place(d)
    /\ state[d].paused => d \in vcpu /\ built >= 7 + Place(d)

\* Only what happens before a domain is touched may fail.
OnlyEarly == faults \subseteq Early

AtHome == active \in [Doms -> {{}, {"source"}, {"destination"}}]

ExcUnwinds == (exc => pc = "unwind") /\ (pc # "idle" => result = "none")

ThreadsJoined == \A d \in Doms : mig[d] = "running" => pc = "parallel"

\* A domain whose device did not detach does not leave its host.
DeviceStuck ==
    /\ stuck # {} => "detach_pci" \in faults
    /\ \A d \in stuck : mig[d] # "done"
    /\ pc = "parallel" => \A d \in Doms : mig[d] # "none"
    /\ pc \in {"migrate", "redefine", "delete", "revert", "cleanup"} => snap \notin stuck
    /\ pc \in {"redefine", "delete", "revert", "cleanup"} => Other(snap) \notin stuck
    /\ pc = "unwind" /\ ~exc => \A d \in stuck : mig[d] = "failed"

BeforeChoice ==
    pc = "build" \/ (pc = "idle" /\ result = "none") =>
        /\ snap = "none" /\ saved = {}
        /\ \A d \in Doms : Fresh(d) /\ mig[d] = "none"
        /\ pc = "idle" => built = 0 /\ \A d \in Doms : state[d] = Intact

InParallel ==
    pc = "parallel" =>
        /\ snap = "none"
        /\ \A d \in Doms : IF mig[d] = "done" THEN Moved(d) ELSE Fresh(d)

ThroughSnapshot ==
    pc \in {"snapshot", "migrate", "redefine", "delete", "revert", "cleanup"} =>
        /\ snap \in Doms
        /\ pc = "snapshot" => saved = {} /\ Fresh(snap)
        /\ pc \in {"snapshot", "migrate"} => Fresh(Other(snap))
        /\ pc \in {"redefine", "delete", "revert", "cleanup"} => Moved(Other(snap))
        /\ pc \in {"migrate", "redefine", "delete", "revert"} => Halted(snap)
        /\ pc \in {"migrate", "redefine"} => saved = {Home(snap)}
        /\ pc = "delete" => saved \in {{Home(snap)}, Hosts}
        /\ pc = "delete" /\ OnlyEarly => saved = Hosts
        /\ pc = "revert" => saved \in {{}, {Away(snap)}}
        /\ pc = "revert" /\ OnlyEarly => saved = {Away(snap)}
        /\ pc = "cleanup" => active[snap] = {Away(snap)} /\ saved = {Away(snap)}

Unwinding ==
    pc = "unwind" =>
        /\ ~exc => \A d \in Doms : active[d] = {target[d]}
        /\ ~exc /\ snap # "none" => saved = {} /\ \A d \in Doms : Moved(d)
        /\ exc /\ OnlyEarly => \A d \in Doms : Fresh(d)

GuardsInStep ==
    /\ pc \notin {"idle", "build", "unwind"} => built = Len(Guards)
    /\ pc # "idle" /\ (~exc \/ OnlyEarly) => \A d \in Doms : Prepared(d)

SwapInv ==
    /\ TypeOK /\ AtHome /\ ExcUnwinds /\ ThreadsJoined /\ DeviceStuck /\ BeforeChoice
    /\ InParallel /\ ThroughSnapshot /\ Unwinding /\ GuardsInStep
    /\ SuccessMeansIntact /\ RestoredOnEarlyError

-----------------------------------------------------------------------------
(* Facts about the constants. *)

LEMMA DomFacts ==
    ASSUME NEW d \in Doms
    PROVE  /\ Home(d) \in Hosts /\ Away(d) \in Hosts /\ Home(d) # Away(d)
           /\ Other(d) \in Doms /\ Other(d) # d /\ Hosts = {Home(d), Away(d)}
           /\ Doms = {d, Other(d)} /\ d # "none"
  BY DEF Doms, Hosts, Home, Away, Other

LEMMA GuardFacts ==
    /\ Len(Guards) = 8
    /\ Guards[1] = <<"pscom", "a">> /\ Guards[2] = <<"pscom", "b">>
    /\ Guards[3] = <<"pci", "a">> /\ Guards[4] = <<"pci", "b">>
    /\ Guards[5] = <<"ivshmem", "a">> /\ Guards[6] = <<"ivshmem", "b">>
    /\ Guards[7] = <<"repin", "a">> /\ Guards[8] = <<"repin", "b">>
  BY DEF Guards

\* Guard n is the guard of a domain of a kind, and the kinds come in pairs.
KindPlace(kind) ==
    CASE kind = "pscom" -> 1 [] kind = "pci" -> 3 [] kind = "ivshmem" -> 5 [] kind = "repin" -> 7

LEMMA GuardAt ==
    ASSUME NEW n \in 1 .. 8
    PROVE  /\ Guards[n][2] \in Doms
           /\ Guards[n][1] \in {"pscom", "pci", "ivshmem", "repin"}
           /\ n = KindPlace(Guards[n][1]) + Place(Guards[n][2])
<1>1. n = 1 \/ n = 2 \/ n = 3 \/ n = 4 \/ n = 5 \/ n = 6 \/ n = 7 \/ n = 8
  OBVIOUS
<1> QED
  BY <1>1, GuardFacts DEF Doms, KindPlace, Place

\* The state of a domain.
StateType == [paused : BOOLEAN, quiet : BOOLEAN, pci : BOOLEAN, ivshmem : BOOLEAN]

LEMMA IntactState ==
    ASSUME NEW s \in StateType,
           ~s.paused, ~s.quiet, s.pci, s.ivshmem
    PROVE  s = Intact
  BY DEF Intact, StateType

LEMMA InitInv == Init => SwapInv
<1> SUFFICES ASSUME Init PROVE SwapInv
  OBVIOUS
<1>1. TypeOK
  <2>1. faults \in SUBSET AllFaults /\ pc \in Stages /\ built \in 0 .. Len(Guards)
    BY GuardFacts, Parameters DEF Init, Parameters, Stages
  <2>2. target \in [Doms -> Hosts] /\ active \in [Doms -> SUBSET Hosts]
    BY DEF Init, Home, Hosts
  <2>3. state \in [Doms -> [paused : BOOLEAN, quiet : BOOLEAN,
                           pci : BOOLEAN, ivshmem : BOOLEAN]]
    BY DEF Init, Intact
  <2> QED
    BY <2>1, <2>2, <2>3 DEF Init, TypeOK
<1>2. AtHome
  BY DEF Init, AtHome, Home
<1>3. \A d \in Doms : Fresh(d) /\ state[d] = Intact
  BY DEF Init, Fresh, Intact
<1> QED
  BY <1>1, <1>2, <1>3 DEF Init, SwapInv, ExcUnwinds, ThreadsJoined, DeviceStuck, BeforeChoice,
     InParallel, ThroughSnapshot, Unwinding, GuardsInStep, SuccessMeansIntact, RestoredOnEarlyError,
     Done

LEMMA NoneStuck == SwapInv /\ OnlyEarly => stuck = {}
  BY DEF SwapInv, DeviceStuck, OnlyEarly, Early

LEMMA BeginInv == SwapInv /\ Begin => SwapInv'
  BY GuardFacts, NoneStuck
     DEF Begin, Goto, input, world, SwapInv, TypeOK, AtHome, ExcUnwinds, ThreadsJoined, DeviceStuck,
         BeforeChoice, InParallel, ThroughSnapshot, Unwinding, GuardsInStep, SuccessMeansIntact,
         RestoredOnEarlyError, Done, Fresh, Intact, Doms, Hosts, Home, Stages, Prepared, Place, May, OnlyEarly

LEMMA JoinInv == SwapInv /\ Join => SwapInv'
  BY GuardFacts DEF Join, Goto, input, world, SwapInv, TypeOK, AtHome, ExcUnwinds, ThreadsJoined, DeviceStuck, BeforeChoice,
     InParallel, ThroughSnapshot, Unwinding, GuardsInStep, SuccessMeansIntact, RestoredOnEarlyError,
     Done, Fresh, Moved, Intact, Doms, Hosts, Home, Stages, Prepared, Place, May, OnlyEarly

LEMMA FinishInv == SwapInv /\ Finish => SwapInv'
<1> SUFFICES ASSUME SwapInv, Finish PROVE SwapInv'
  OBVIOUS
<1>1. ASSUME NEW d \in Doms, ~exc \/ OnlyEarly
      PROVE  state[d] = Intact
  <2>1. Prepared(d) /\ built = 0
    BY <1>1 DEF SwapInv, GuardsInStep, Finish
  <2>2. ~state[d].paused /\ ~state[d].quiet /\ state[d].pci /\ state[d].ivshmem
    BY <2>1 DEF Prepared, Place
  <2> QED
    BY <2>2, IntactState DEF SwapInv, TypeOK, StateType
<1>2. TypeOK'
  BY DEF SwapInv, TypeOK, Finish, Stages, input, world
<1>3. SuccessMeansIntact'
  BY <1>1 DEF SwapInv, Unwinding, DeviceStuck, SuccessMeansIntact, Done, Finish, world, Moved
<1>4. RestoredOnEarlyError'
  BY <1>1, NoneStuck DEF SwapInv, Unwinding, RestoredOnEarlyError, Done, Finish, world, input, Fresh,
     OnlyEarly
<1> QED
  BY <1>2, <1>3, <1>4 DEF SwapInv, Finish, AtHome, ExcUnwinds, ThreadsJoined, DeviceStuck, BeforeChoice,
     InParallel, ThroughSnapshot, Unwinding, GuardsInStep, world, input


\* A call that throws before a guard is destroyed.
LEMMA ThrowInv ==
    ASSUME SwapInv, Throw, UNCHANGED <<input, snap, world>>,
           pc \in {"build", "snapshot", "migrate", "redefine", "delete", "revert", "cleanup"},
           OnlyEarly => pc = "build"
    PROVE  SwapInv'
<1>1. TypeOK'
  BY DEF SwapInv, TypeOK, Throw, Stages, input, world
<1>2. Unwinding'
  BY DEF SwapInv, BeforeChoice, Unwinding, Throw, world, input, Fresh, OnlyEarly
<1>3. GuardsInStep'
  BY DEF SwapInv, GuardsInStep, ExcUnwinds, Throw, world, input, Prepared, OnlyEarly
<1> QED
  BY <1>1, <1>2, <1>3 DEF SwapInv, Throw, AtHome, ExcUnwinds, ThreadsJoined, DeviceStuck, BeforeChoice,
     InParallel, ThroughSnapshot, world, input, SuccessMeansIntact, RestoredOnEarlyError, Done

LEMMA FailsInv ==
    ASSUME SwapInv, NEW fault, Fails(fault), fault \notin Early \/ pc = "build",
           pc \in {"build", "snapshot", "migrate", "redefine", "delete", "revert", "cleanup"}
    PROVE  SwapInv'
  BY ThrowInv DEF Fails, May, OnlyEarly

LEMMA RefusedInv ==
    ASSUME SwapInv, NEW d, Refused(d), pc \in {"snapshot", "migrate"}
    PROVE  SwapInv'
<1>1. ~OnlyEarly
  BY DEF Refused, SwapInv, DeviceStuck, OnlyEarly, Early
<1> QED
  BY <1>1, ThrowInv DEF Refused

LEMMA GuardedFacts ==
    ASSUME NEW s \in StateType, NEW kind \in {"pscom", "pci", "ivshmem", "repin"}
    PROVE  /\ Guarded(kind, s) \in StateType
           /\ Guarded(kind, s).quiet <=> s.quiet \/ kind = "pscom"
           /\ Guarded(kind, s).pci <=> s.pci /\ kind # "pci"
           /\ Guarded(kind, s).ivshmem <=> s.ivshmem /\ kind # "ivshmem"
           /\ Guarded(kind, s).paused = s.paused
<1>1. CASE kind = "pscom"
  BY <1>1 DEF Guarded, StateType
<1>2. CASE kind = "pci"
  BY <1>2 DEF Guarded, StateType
<1>3. CASE kind = "ivshmem"
  BY <1>3 DEF Guarded, StateType
<1>4. CASE kind = "repin"
  BY <1>4 DEF Guarded, StateType
<1> QED
  BY <1>1, <1>2, <1>3, <1>4

\* What a constructor changes.
LEMMA PreparedNext ==
    ASSUME SwapInv, pc = "build", built < Len(Guards), built' = built + 1, vcpu' = vcpu,
           state' = [state EXCEPT ![Guards[built + 1][2]] = Guarded(Guards[built + 1][1], @)],
           NEW d \in Doms
    PROVE  Prepared(d)' /\ state'[d].paused = state[d].paused
<1> DEFINE kind == Guards[built + 1][1]
           e    == Guards[built + 1][2]
<1>1. built \in 0 .. 7 /\ Prepared(d)
  BY GuardFacts DEF SwapInv, TypeOK, GuardsInStep, ExcUnwinds
<1>2. /\ e \in Doms /\ kind \in {"pscom", "pci", "ivshmem", "repin"}
      /\ built + 1 = KindPlace(kind) + Place(e)
  BY <1>1, GuardAt
<1>3. state' = [state EXCEPT ![e] = Guarded(kind, @)]
  OBVIOUS
<1>4. Place(d) \in 0 .. 1 /\ Place(e) \in 0 .. 1 /\ (Place(d) = Place(e) <=> d = e)
  BY <1>2 DEF Place, Doms
<1>t. state \in [Doms -> StateType]
  BY DEF SwapInv, TypeOK, StateType
<1> HIDE DEF kind, e
<1>5. state'[d] = IF d = e THEN Guarded(kind, state[d]) ELSE state[d]
  BY <1>3, <1>t
<1>6. /\ state'[d].quiet <=> state[d].quiet \/ (d = e /\ kind = "pscom")
      /\ state'[d].pci <=> state[d].pci /\ ~(d = e /\ kind = "pci")
      /\ state'[d].ivshmem <=> state[d].ivshmem /\ ~(d = e /\ kind = "ivshmem")
      /\ state'[d].paused = state[d].paused
  <2>1. CASE d = e
    <3>1. state[d] \in StateType
      BY <1>t
    <3> QED
      BY <1>2, <1>5, <2>1, <3>1, GuardedFacts
  <2>2. CASE d # e
    BY <1>5, <2>2
  <2> QED
    BY <2>1, <2>2
<1>7. /\ kind = "pscom" => KindPlace(kind) = 1
      /\ kind = "pci" => KindPlace(kind) = 3
      /\ kind = "ivshmem" => KindPlace(kind) = 5
      /\ kind = "repin" => KindPlace(kind) = 7
  BY DEF KindPlace
<1>8. /\ built + 1 >= 1 + Place(d) <=> built >= 1 + Place(d) \/ (d = e /\ kind = "pscom")
      /\ built + 1 < 3 + Place(d) <=> built < 3 + Place(d) /\ ~(d = e /\ kind = "pci")
      /\ built + 1 < 5 + Place(d) <=> built < 5 + Place(d) /\ ~(d = e /\ kind = "ivshmem")
      /\ built >= 7 + Place(d) => built + 1 >= 7 + Place(d)
  BY <1>1, <1>2, <1>4, <1>7
<1> QED
  BY <1>1, <1>6, <1>8 DEF Prepared

LEMMA ConstructInv == SwapInv /\ Construct => SwapInv'
<1> SUFFICES ASSUME SwapInv, Construct PROVE SwapInv'
  OBVIOUS
<1> DEFINE kind == Guards[built + 1][1]
           d    == Guards[built + 1][2]
<1>1. /\ built \in 0 .. 7 /\ pc = "build" /\ ~exc /\ result = "none"
      /\ d \in Doms /\ kind \in {"pscom", "pci", "ivshmem", "repin"}
  <2>1. built \in 0 .. 7 /\ pc = "build" /\ ~exc /\ result = "none"
    BY GuardFacts DEF SwapInv, TypeOK, ExcUnwinds, Construct
  <2> QED
    BY <2>1, GuardAt
<1>t. state \in [Doms -> StateType]
  BY DEF SwapInv, TypeOK, StateType
<1>f. /\ UNCHANGED <<size, free, faults, vcpu, snap, saved, mig, target, active>>
      /\ \A e \in Doms : Fresh(e)
  BY <1>1 DEF Construct, input, SwapInv, BeforeChoice
<1>2. CASE /\ built' = built + 1
           /\ state' = [state EXCEPT ![d] = Guarded(kind, @)]
           /\ \/ UNCHANGED stuck
              \/ kind = "pci" /\ May("detach_pci") /\ stuck' = stuck \cup {d}
           /\ UNCHANGED <<pc, exc, result>>
  <2>1. \A e \in Doms : Prepared(e)' /\ state'[e].paused = state[e].paused
    BY <1>1, <1>2, <1>f, GuardFacts, PreparedNext
  <2>2. TypeOK'
    <3>1. state' \in [Doms -> StateType]
      <4>1. Guarded(kind, state[d]) \in StateType
        BY <1>1, <1>t, GuardedFacts
      <4> HIDE DEF d, kind
      <4> QED
        BY <4>1, <1>1, <1>2, <1>t
    <3> QED
      BY <1>1, <1>2, <1>f, <3>1, GuardFacts DEF SwapInv, TypeOK, StateType
  <2>3. \A e \in Doms : Fresh(e)'
    BY <1>f, <2>1 DEF Fresh
  <2>4. DeviceStuck'
    <3>1. \A e \in Doms : mig[e] = "none"
      BY <1>1 DEF SwapInv, BeforeChoice
    <3>2. stuck' \subseteq Doms
      BY <2>2 DEF TypeOK
    <3>3. stuck' = stuck \/ "detach_pci" \in faults
      BY <1>2 DEF May
    <3> QED
      BY <1>1, <1>2, <1>f, <3>1, <3>2, <3>3 DEF SwapInv, DeviceStuck
  <2> QED
    BY <1>1, <1>2, <1>f, <2>1, <2>2, <2>3, <2>4 DEF SwapInv, AtHome, ExcUnwinds, ThreadsJoined,
       BeforeChoice, InParallel, ThroughSnapshot, Unwinding, GuardsInStep, SuccessMeansIntact,
       RestoredOnEarlyError, Done
<1>3. CASE /\ kind # "repin" /\ May(kind)
           /\ \E q \in BOOLEAN :
                /\ q => kind = "pscom"
                /\ state' = [state EXCEPT ![d].quiet = @ \/ q]
           /\ Throw /\ UNCHANGED stuck
  <2>1. PICK q \in BOOLEAN : /\ q => kind = "pscom"
                             /\ state' = [state EXCEPT ![d].quiet = @ \/ q]
    BY <1>3
  <2>2. OnlyEarly => q = FALSE
    BY <1>3, <2>1 DEF OnlyEarly, Early, May
  <2> HIDE DEF d, kind
  <2>3. state' \in [Doms -> StateType] /\ \A e \in Doms : state'[e].paused = state[e].paused
    BY <1>1, <1>t, <2>1 DEF StateType
  <2>4. OnlyEarly => \A e \in Doms : /\ state'[e].quiet <=> state[e].quiet
                                     /\ state'[e].pci = state[e].pci
                                     /\ state'[e].ivshmem = state[e].ivshmem
    BY <1>1, <1>t, <2>1, <2>2 DEF StateType
  <2>5. TypeOK'
    BY <1>1, <1>3, <1>f, <2>3 DEF SwapInv, TypeOK, StateType, Throw, Stages
  <2>6. \A e \in Doms : Fresh(e)'
    BY <1>f, <2>3 DEF Fresh
  <2>7. OnlyEarly => \A e \in Doms : Prepared(e)'
    BY <1>1, <1>3, <1>f, <2>3, <2>4 DEF SwapInv, GuardsInStep, Prepared, Throw
  <2> QED
    BY <1>1, <1>3, <1>f, <2>5, <2>6, <2>7 DEF SwapInv, AtHome, ExcUnwinds, ThreadsJoined, DeviceStuck,
       BeforeChoice, InParallel, ThroughSnapshot, Unwinding, GuardsInStep, SuccessMeansIntact,
       RestoredOnEarlyError, Done, Throw, OnlyEarly
<1> QED
  BY <1>2, <1>3 DEF Construct

LEMMA ChooseInv == SwapInv /\ Choose => SwapInv'
<1> SUFFICES ASSUME SwapInv, Choose PROVE SwapInv'
  OBVIOUS
<1>1. /\ pc = "build" /\ built = Len(Guards) /\ ~exc /\ result = "none" /\ snap = "none" /\ saved = {}
      /\ \A d \in Doms : Fresh(d) /\ Prepared(d)
  BY DEF SwapInv, Choose, ExcUnwinds, BeforeChoice, GuardsInStep
<1>2. CASE snap' = Smaller /\ Goto("snapshot") /\ UNCHANGED <<input, world>>
  <2>1. snap' \in Doms
    BY <1>2 DEF Smaller, Doms
  <2> QED
    BY <1>1, <1>2, <2>1, DomFacts DEF Goto, input, world, SwapInv, TypeOK, Stages, AtHome, ExcUnwinds,
       ThreadsJoined, DeviceStuck, BeforeChoice, InParallel, ThroughSnapshot, Unwinding, GuardsInStep,
       SuccessMeansIntact, RestoredOnEarlyError, Done, Fresh, Prepared
<1>3. CASE /\ mig' = [d \in Doms |-> "running"] /\ Goto("parallel")
           /\ UNCHANGED <<input, snap, saved, target, active, stuck, state>>
  BY <1>1, <1>3 DEF Goto, input, SwapInv, TypeOK, Stages, AtHome, ExcUnwinds,
     ThreadsJoined, DeviceStuck, BeforeChoice, InParallel, ThroughSnapshot, Unwinding, GuardsInStep,
     SuccessMeansIntact, RestoredOnEarlyError, Done, Fresh, Prepared
<1>4. CASE Throw /\ UNCHANGED <<input, snap, world>>
  BY <1>1, <1>4, ThrowInv
<1>5. CASE Fails("memory")
  BY <1>1, <1>5, FailsInv
<1> QED
  BY <1>2, <1>3, <1>4, <1>5 DEF Choose

-----------------------------------------------------------------------------
(* The two ways to swap. *)

\* A domain comes up paused or running.
LEMMA PausedFacts ==
    ASSUME SwapInv, NEW d \in Doms, state' = [state EXCEPT ![d].paused = d \in vcpu]
    PROVE  /\ state' \in [Doms -> StateType]
           /\ state'[d].paused <=> d \in vcpu
           /\ state'[d].quiet = state[d].quiet /\ state'[d].pci = state[d].pci
           /\ state'[d].ivshmem = state[d].ivshmem
           /\ \A e \in Doms \ {d} : state'[e] = state[e]
<1> DEFINE p == d \in vcpu
<1>1. state \in [Doms -> StateType]
  BY DEF SwapInv, TypeOK, StateType
<1>2. state' = [state EXCEPT ![d].paused = p]
  BY Zenon
<1>3. p \in BOOLEAN
  OBVIOUS
<1> HIDE DEF p
<1>4. /\ state' \in [Doms -> StateType]
      /\ state'[d].paused = p
      /\ state'[d].quiet = state[d].quiet /\ state'[d].pci = state[d].pci
      /\ state'[d].ivshmem = state[d].ivshmem
      /\ \A e \in Doms \ {d} : state'[e] = state[e]
  BY <1>1, <1>2, <1>3 DEF StateType
<1> QED
  BY <1>4 DEF p

\* A domain arrives: it and its guards have moved, the other one is as it was.
LEMMA ArriveFacts ==
    ASSUME SwapInv, NEW d \in Doms, Arrive(d), UNCHANGED <<vcpu, built>>, built = Len(Guards),
           \A e \in Doms : Prepared(e)
    PROVE  /\ state' \in [Doms -> StateType] /\ target' \in [Doms -> Hosts]
           /\ active' \in [Doms -> SUBSET Hosts] /\ AtHome'
           /\ Moved(d)'
           /\ \A e \in Doms : Prepared(e)'
           /\ \A e \in Doms \ {d} : /\ active'[e] = active[e] /\ target'[e] = target[e]
                                    /\ state'[e] = state[e]
<1>1. /\ state \in [Doms -> StateType] /\ target \in [Doms -> Hosts]
      /\ active \in [Doms -> SUBSET Hosts]
      /\ active \in [Doms -> {{}, {"source"}, {"destination"}}]
  BY DEF SwapInv, TypeOK, AtHome, StateType
<1>2. /\ active' = [active EXCEPT ![d] = {Away(d)}]
      /\ state' = [state EXCEPT ![d].paused = d \in vcpu]
      /\ target' = [target EXCEPT ![d] = Away(d)]
  BY DEF Arrive
<1>3. Away(d) \in {"source", "destination"} /\ Away(d) \in Hosts
  BY DEF Away, Hosts
<1>4. active' \in [Doms -> SUBSET Hosts] /\ AtHome' /\ target' \in [Doms -> Hosts] /\ Moved(d)'
  BY <1>1, <1>2, <1>3 DEF AtHome, Moved
<1>5. /\ state' \in [Doms -> StateType]
      /\ state'[d].paused <=> d \in vcpu
      /\ state'[d].quiet = state[d].quiet /\ state'[d].pci = state[d].pci
      /\ state'[d].ivshmem = state[d].ivshmem
  BY <1>2, PausedFacts
<1>6. \A e \in Doms \ {d} : /\ active'[e] = active[e] /\ target'[e] = target[e]
                            /\ state'[e] = state[e]
  <2>1. \A e \in Doms \ {d} : state'[e] = state[e]
    BY <1>2, PausedFacts
  <2>2. ASSUME NEW e \in Doms \ {d}
        PROVE  active'[e] = active[e] /\ target'[e] = target[e]
    BY <1>1, <1>2 DEF Arrive
  <2> QED
    BY <2>1, <2>2
<1>7. built >= 7 + Place(d)
  BY GuardFacts DEF Place
<1>8. \A e \in Doms : Prepared(e)'
  BY <1>5, <1>6, <1>7 DEF Prepared
<1> QED
  BY <1>4, <1>5, <1>6, <1>8

LEMMA ThreadMigratesInv == SwapInv /\ (\E d \in Doms : ThreadMigrates(d)) => SwapInv'
<1> SUFFICES ASSUME SwapInv, NEW d \in Doms, ThreadMigrates(d) PROVE SwapInv'
  OBVIOUS
<1>1. /\ pc = "parallel" /\ built = Len(Guards) /\ ~exc /\ mig[d] = "running"
      /\ \A e \in Doms : Prepared(e)
  BY DEF SwapInv, ThreadMigrates, ThreadsJoined, DeviceStuck, ExcUnwinds, GuardsInStep
<1>2. UNCHANGED <<size, free, faults, vcpu, pc, built, exc, result, snap, saved, stuck>>
  BY DEF ThreadMigrates, input, progress
<1>3. CASE d \notin stuck /\ Arrive(d) /\ mig' = [mig EXCEPT ![d] = "done"]
  <2>1. /\ state' \in [Doms -> StateType] /\ target' \in [Doms -> Hosts]
        /\ active' \in [Doms -> SUBSET Hosts] /\ AtHome'
        /\ Moved(d)' /\ \A e \in Doms : Prepared(e)'
        /\ \A e \in Doms \ {d} : /\ active'[e] = active[e] /\ target'[e] = target[e]
                                 /\ state'[e] = state[e]
    BY <1>1, <1>2, <1>3, ArriveFacts
  <2>2. TypeOK'
    BY <1>2, <1>3, <2>1 DEF SwapInv, TypeOK, StateType
  <2>3. mig'[d] = "done" /\ \A e \in Doms \ {d} : mig'[e] = mig[e]
    BY <1>3 DEF SwapInv, TypeOK
  <2>4. InParallel'
    BY <1>1, <1>2, <2>1, <2>3 DEF SwapInv, InParallel, Moved, Fresh
  <2>5. DeviceStuck'
    <3>1. stuck \subseteq Doms
      BY DEF SwapInv, TypeOK
    <3> QED
      BY <1>1, <1>2, <1>3, <2>3, <3>1 DEF SwapInv, DeviceStuck
  <2> QED
    BY <1>1, <1>2, <2>1, <2>2, <2>4, <2>5 DEF SwapInv, ExcUnwinds, ThreadsJoined, BeforeChoice,
       ThroughSnapshot, Unwinding, GuardsInStep, SuccessMeansIntact, RestoredOnEarlyError, Done
<1>4. CASE mig' = [mig EXCEPT ![d] = "failed"] /\ UNCHANGED <<active, state, target>>
  BY <1>1, <1>2, <1>4 DEF SwapInv, TypeOK, AtHome, ExcUnwinds, ThreadsJoined, DeviceStuck, BeforeChoice,
     InParallel, ThroughSnapshot, Unwinding, GuardsInStep, SuccessMeansIntact, RestoredOnEarlyError,
     Done, Fresh, Moved, Prepared
<1> QED
  BY <1>3, <1>4 DEF ThreadMigrates

LEMMA TakeSnapshotInv == SwapInv /\ TakeSnapshot => SwapInv'
<1> SUFFICES ASSUME SwapInv, TakeSnapshot PROVE SwapInv'
  OBVIOUS
<1>1. /\ pc = "snapshot" /\ built = Len(Guards) /\ ~exc /\ snap \in Doms
      /\ Fresh(snap) /\ Fresh(Other(snap)) /\ \A e \in Doms : Prepared(e)
  BY DEF SwapInv, TakeSnapshot, ThroughSnapshot, ExcUnwinds, GuardsInStep
<1>2. CASE /\ snap \notin stuck /\ saved' = {Home(snap)} /\ active' = [active EXCEPT ![snap] = {}]
           /\ Goto("migrate") /\ UNCHANGED <<input, snap, mig, target, stuck, state>>
  <2>1. /\ Home(snap) \in Hosts /\ Other(snap) \in Doms \ {snap}
    BY <1>1, DomFacts
  <2>2. TypeOK' /\ AtHome'
    BY <1>1, <1>2, <2>1 DEF SwapInv, TypeOK, AtHome, Goto, input, Stages
  <2>3. Halted(snap)' /\ Fresh(Other(snap))'
    BY <1>1, <1>2, <2>1 DEF SwapInv, TypeOK, Halted, Fresh
  <2> QED
    BY <1>1, <1>2, <2>2, <2>3 DEF SwapInv, Goto, input, ExcUnwinds, ThreadsJoined, DeviceStuck, BeforeChoice,
       InParallel, ThroughSnapshot, Unwinding, GuardsInStep, SuccessMeansIntact,
       RestoredOnEarlyError, Done, Prepared
<1>3. CASE Fails("snapshot")
  BY <1>1, <1>3, FailsInv DEF Early
<1>4. CASE Refused(snap)
  BY <1>1, <1>4, RefusedInv
<1> QED
  BY <1>2, <1>3, <1>4 DEF TakeSnapshot

LEMMA MigrateOtherInv == SwapInv /\ MigrateOther => SwapInv'
<1> SUFFICES ASSUME SwapInv, MigrateOther PROVE SwapInv'
  OBVIOUS
<1>1. /\ pc = "migrate" /\ built = Len(Guards) /\ ~exc /\ snap \in Doms
      /\ Halted(snap) /\ saved = {Home(snap)} /\ \A e \in Doms : Prepared(e)
  BY DEF SwapInv, MigrateOther, ThroughSnapshot, ExcUnwinds, GuardsInStep
<1>2. CASE /\ Other(snap) \notin stuck /\ Arrive(Other(snap)) /\ Goto("redefine")
           /\ UNCHANGED <<input, snap, saved, mig, stuck>>
  <2>1. /\ Other(snap) \in Doms /\ Other(snap) # snap
    BY <1>1, DomFacts
  <2>2. /\ state' \in [Doms -> StateType] /\ target' \in [Doms -> Hosts]
        /\ active' \in [Doms -> SUBSET Hosts] /\ AtHome'
        /\ Moved(Other(snap))' /\ \A e \in Doms : Prepared(e)'
        /\ active'[snap] = active[snap] /\ target'[snap] = target[snap]
    <3>1. UNCHANGED <<vcpu, built, snap>>
      BY <1>2 DEF Goto, input
    <3> DEFINE d == Other(snap)
    <3>2. /\ state' \in [Doms -> StateType] /\ target' \in [Doms -> Hosts]
          /\ active' \in [Doms -> SUBSET Hosts] /\ AtHome'
          /\ active'[d] = {Away(d)} /\ target'[d] = Away(d) /\ \A e \in Doms : Prepared(e)'
          /\ active'[snap] = active[snap] /\ target'[snap] = target[snap]
      <4>1. d \in Doms /\ snap \in Doms \ {d} /\ Arrive(d)
        BY <1>1, <1>2, <2>1
      <4> HIDE DEF d
      <4> QED
        BY <1>1, <3>1, <4>1, ArriveFacts DEF Moved
    <3> QED
      BY <3>1, <3>2 DEF Moved
  <2>3. TypeOK'
    BY <1>2, <2>2 DEF SwapInv, TypeOK, StateType, Goto, input, Stages
  <2> QED
    BY <1>1, <1>2, <2>2, <2>3 DEF SwapInv, Goto, input, ExcUnwinds, ThreadsJoined, DeviceStuck, BeforeChoice,
       InParallel, ThroughSnapshot, Unwinding, GuardsInStep, SuccessMeansIntact,
       RestoredOnEarlyError, Done, Halted
<1>3. CASE Fails("migrate")
  BY <1>1, <1>3, FailsInv DEF Early
<1>4. CASE Refused(Other(snap))
  BY <1>1, <1>4, RefusedInv
<1> QED
  BY <1>2, <1>3, <1>4 DEF MigrateOther

\* A step of func that only the snapshot and the stage can tell.
LEMMA SnapshotStep ==
    ASSUME SwapInv, NEW next \in {"delete", "revert"}, Goto(next), saved' \in SUBSET Hosts,
           UNCHANGED <<input, snap, mig, target, active, stuck, state>>,
           pc \in {"redefine", "delete"},
           next = "delete" => saved' \in {{Home(snap)}, Hosts} /\ (OnlyEarly => saved' = Hosts),
           next = "revert" => saved' \in {{}, {Away(snap)}} /\ (OnlyEarly => saved' = {Away(snap)})
    PROVE  SwapInv'
  BY DEF SwapInv, Goto, input, TypeOK, Stages, AtHome, ExcUnwinds, ThreadsJoined, DeviceStuck, BeforeChoice,
     InParallel, ThroughSnapshot, Unwinding, GuardsInStep, SuccessMeansIntact, RestoredOnEarlyError,
     Done, Halted, Moved, Prepared, OnlyEarly

LEMMA RedefineInv == SwapInv /\ RedefineSnapshot => SwapInv'
<1> SUFFICES ASSUME SwapInv, RedefineSnapshot PROVE SwapInv'
  OBVIOUS
<1>1. pc = "redefine" /\ snap \in Doms /\ saved = {Home(snap)}
  BY DEF SwapInv, RedefineSnapshot, ThroughSnapshot
<1>2. CASE /\ saved' = saved \cup {Away(snap)} \/ (May("redefine") /\ UNCHANGED saved)
           /\ Goto("delete") /\ UNCHANGED <<input, snap, mig, target, active, stuck, state>>
  <2>1. Hosts = {Home(snap), Away(snap)}
    BY <1>1, DomFacts
  <2>2. saved' \in {{Home(snap)}, Hosts} /\ (OnlyEarly => saved' = Hosts)
    BY <1>1, <1>2, <2>1 DEF May, OnlyEarly, Early
  <2>3. saved' \in SUBSET Hosts
    BY <2>1, <2>2
  <2> QED
    BY <1>1, <1>2, <2>2, <2>3, SnapshotStep
<1>3. CASE Fails("find")
  BY <1>1, <1>3, FailsInv DEF Early
<1> QED
  BY <1>2, <1>3 DEF RedefineSnapshot

LEMMA DeleteInv == SwapInv /\ DeleteSnapshot => SwapInv'
<1> SUFFICES ASSUME SwapInv, DeleteSnapshot PROVE SwapInv'
  OBVIOUS
<1>1. /\ pc = "delete" /\ snap \in Doms /\ saved \in {{Home(snap)}, Hosts}
      /\ OnlyEarly => saved = Hosts
  BY DEF SwapInv, DeleteSnapshot, ThroughSnapshot
<1>2. CASE /\ saved' = saved \ {Home(snap)} /\ Goto("revert")
           /\ UNCHANGED <<input, snap, mig, target, active, stuck, state>>
  <2>1. Hosts = {Home(snap), Away(snap)} /\ Home(snap) # Away(snap)
    BY <1>1, DomFacts
  <2>2. saved' \in {{}, {Away(snap)}} /\ (OnlyEarly => saved' = {Away(snap)})
    BY <1>1, <1>2, <2>1
  <2>3. saved' \in SUBSET Hosts
    BY <2>1, <2>2
  <2> QED
    BY <1>1, <1>2, <2>2, <2>3, SnapshotStep
<1>3. CASE Fails("delete")
  BY <1>1, <1>3, FailsInv DEF Early
<1> QED
  BY <1>2, <1>3 DEF DeleteSnapshot

LEMMA RevertInv == SwapInv /\ RevertToSnapshot => SwapInv'
<1> SUFFICES ASSUME SwapInv, RevertToSnapshot PROVE SwapInv'
  OBVIOUS
<1>1. /\ pc = "revert" /\ built = Len(Guards) /\ ~exc /\ snap \in Doms
      /\ Halted(snap) /\ Moved(Other(snap)) /\ \A e \in Doms : Prepared(e)
      /\ saved \in {{}, {Away(snap)}} /\ (OnlyEarly => saved = {Away(snap)})
  BY DEF SwapInv, RevertToSnapshot, ThroughSnapshot, ExcUnwinds, GuardsInStep
<1>2. CASE /\ saved # {}
           /\ active' = [active EXCEPT ![snap] = @ \cup {Away(snap)}]
           /\ state' = [state EXCEPT ![snap].paused = snap \in vcpu]
           /\ Goto("cleanup") /\ UNCHANGED <<input, snap, saved, mig, target, stuck>>
  <2>1. /\ Other(snap) \in Doms /\ Other(snap) # snap
        /\ Away(snap) \in Hosts /\ Away(snap) \in {"source", "destination"}
    BY <1>1, DomFacts DEF Away
  <2>2. active' = [active EXCEPT ![snap] = {Away(snap)}]
    BY <1>1, <1>2 DEF Halted, SwapInv, TypeOK
  <2>3. /\ active' \in [Doms -> SUBSET Hosts] /\ AtHome'
        /\ active'[snap] = {Away(snap)} /\ active'[Other(snap)] = active[Other(snap)]
    BY <1>1, <2>1, <2>2 DEF SwapInv, TypeOK, AtHome
  <2>5. /\ state' \in [Doms -> StateType]
        /\ state'[snap].paused <=> snap \in vcpu
        /\ state'[snap].quiet = state[snap].quiet /\ state'[snap].pci = state[snap].pci
        /\ state'[snap].ivshmem = state[snap].ivshmem
        /\ \A e \in Doms \ {snap} : state'[e] = state[e]
    BY <1>1, <1>2, PausedFacts
  <2>6. built >= 7 + Place(snap) /\ built' = built /\ vcpu' = vcpu
    BY <1>1, <1>2, GuardFacts DEF Place, Goto, input
  <2>7. \A e \in Doms : Prepared(e)'
    BY <1>1, <2>5, <2>6 DEF Prepared
  <2>8. TypeOK'
    BY <1>2, <2>3, <2>5 DEF SwapInv, TypeOK, StateType, Goto, input, Stages
  <2> QED
    BY <1>1, <1>2, <2>3, <2>7, <2>8 DEF SwapInv, Goto, input, ExcUnwinds, ThreadsJoined, DeviceStuck,
       BeforeChoice, InParallel, ThroughSnapshot, Unwinding, GuardsInStep, SuccessMeansIntact,
       RestoredOnEarlyError, Done, Moved
<1>3. CASE saved = {} /\ Throw /\ UNCHANGED <<input, snap, world>>
  BY <1>1, <1>3, ThrowInv
<1>4. CASE Fails("revert")
  BY <1>1, <1>4, FailsInv DEF Early
<1> QED
  BY <1>2, <1>3, <1>4 DEF RevertToSnapshot

LEMMA DeleteRemoteInv == SwapInv /\ DeleteRemoteSnapshot => SwapInv'
<1> SUFFICES ASSUME SwapInv, DeleteRemoteSnapshot PROVE SwapInv'
  OBVIOUS
<1>1. /\ pc = "cleanup" /\ built = Len(Guards) /\ ~exc /\ snap \in Doms
      /\ Moved(Other(snap)) /\ \A e \in Doms : Prepared(e)
      /\ active[snap] = {Away(snap)}
  BY DEF SwapInv, DeleteRemoteSnapshot, ThroughSnapshot, ExcUnwinds, GuardsInStep
<1>2. CASE /\ saved' = {} /\ target' = [target EXCEPT ![snap] = Away(snap)]
           /\ Goto("unwind") /\ UNCHANGED <<input, snap, mig, active, stuck, state>>
  <2>1. /\ Other(snap) \in Doms /\ Other(snap) # snap /\ Away(snap) \in Hosts
        /\ Doms = {snap, Other(snap)}
    BY <1>1, DomFacts
  <2>2. target' \in [Doms -> Hosts] /\ target'[snap] = Away(snap)
        /\ target'[Other(snap)] = target[Other(snap)]
    BY <1>1, <1>2, <2>1 DEF SwapInv, TypeOK
  <2>3. \A d \in Doms : Moved(d)'
    BY <1>1, <1>2, <2>1, <2>2 DEF Moved
  <2>4. TypeOK'
    BY <1>2, <2>2 DEF SwapInv, TypeOK, Goto, input, Stages
  <2>5. DeviceStuck'
    <3>1. stuck = {}
      BY <1>1, <2>1 DEF SwapInv, DeviceStuck, TypeOK
    <3> QED
      BY <1>2, <3>1 DEF Goto, DeviceStuck
  <2> QED
    BY <1>1, <1>2, <2>3, <2>4, <2>5 DEF SwapInv, Goto, input, AtHome, ExcUnwinds, ThreadsJoined,
       BeforeChoice, InParallel, ThroughSnapshot, Unwinding, GuardsInStep, SuccessMeansIntact,
       RestoredOnEarlyError, Done, Moved, Prepared
<1>3. CASE Fails("delete")
  BY <1>1, <1>3, FailsInv DEF Early
<1> QED
  BY <1>2, <1>3 DEF DeleteRemoteSnapshot

-----------------------------------------------------------------------------
(* The destructors. *)

LEMMA ReleasedFacts ==
    ASSUME SwapInv, NEW d \in Doms, NEW kind \in {"pscom", "pci", "ivshmem", "repin"}
    PROVE  /\ Released(kind, d) \in StateType
           /\ Released(kind, d).quiet <=> state[d].quiet /\ kind # "pscom"
           /\ Released(kind, d).pci <=> state[d].pci \/ kind = "pci"
           /\ Released(kind, d).ivshmem <=> state[d].ivshmem \/ kind = "ivshmem"
           /\ Released(kind, d).paused <=> state[d].paused /\ ~(kind = "repin" /\ d \in vcpu)
<1> DEFINE s == state[d]
           p == s.paused /\ d \notin vcpu
<1>1. s \in StateType
  BY DEF SwapInv, TypeOK, StateType
<1>2. p \in BOOLEAN
  OBVIOUS
<1>3. CASE kind = "pscom"
  <2>1. Released(kind, d) = [s EXCEPT !.quiet = FALSE]
    BY <1>3 DEF Released
  <2> HIDE DEF s
  <2>2. /\ Released(kind, d) \in StateType /\ ~Released(kind, d).quiet
        /\ Released(kind, d).pci = s.pci /\ Released(kind, d).ivshmem = s.ivshmem
        /\ Released(kind, d).paused = s.paused
    BY <1>1, <2>1 DEF StateType
  <2> QED
    BY <1>3, <2>2 DEF s
<1>4. CASE kind = "pci"
  <2>1. Released(kind, d) = [s EXCEPT !.pci = TRUE]
    BY <1>4 DEF Released
  <2> HIDE DEF s
  <2>2. /\ Released(kind, d) \in StateType /\ Released(kind, d).pci
        /\ Released(kind, d).quiet = s.quiet /\ Released(kind, d).ivshmem = s.ivshmem
        /\ Released(kind, d).paused = s.paused
    BY <1>1, <2>1 DEF StateType
  <2> QED
    BY <1>4, <2>2 DEF s
<1>5. CASE kind = "ivshmem"
  <2>1. Released(kind, d) = [s EXCEPT !.ivshmem = TRUE]
    BY <1>5 DEF Released
  <2> HIDE DEF s
  <2>2. /\ Released(kind, d) \in StateType /\ Released(kind, d).ivshmem
        /\ Released(kind, d).quiet = s.quiet /\ Released(kind, d).pci = s.pci
        /\ Released(kind, d).paused = s.paused
    BY <1>1, <2>1 DEF StateType
  <2> QED
    BY <1>5, <2>2 DEF s
<1>6. CASE kind = "repin"
  <2>1. Released(kind, d) = [s EXCEPT !.paused = p]
    BY <1>6 DEF Released
  <2> HIDE DEF s, p
  <2>2. /\ Released(kind, d) \in StateType /\ Released(kind, d).paused = p
        /\ Released(kind, d).quiet = s.quiet /\ Released(kind, d).pci = s.pci
        /\ Released(kind, d).ivshmem = s.ivshmem
    BY <1>1, <1>2, <2>1 DEF StateType
  <2> QED
    BY <1>6, <2>2 DEF s, p
<1> QED
  BY <1>3, <1>4, <1>5, <1>6

\* What a destructor that does its work changes.
LEMMA PreparedBack ==
    ASSUME SwapInv, pc = "unwind", built > 0, built' = built - 1, vcpu' = vcpu,
           state' = [state EXCEPT ![Guards[built][2]] = Released(Guards[built][1], Guards[built][2])],
           NEW d \in Doms
    PROVE  (Prepared(d) => Prepared(d)') /\ (state'[d].paused => state[d].paused)
<1> DEFINE kind == Guards[built][1]
           e    == Guards[built][2]
<1>1. built \in 1 .. 8
  BY GuardFacts DEF SwapInv, TypeOK
<1>2. /\ e \in Doms /\ kind \in {"pscom", "pci", "ivshmem", "repin"}
      /\ built = KindPlace(kind) + Place(e)
  BY <1>1, GuardAt
<1>3. state' = [state EXCEPT ![e] = Released(kind, e)]
  OBVIOUS
<1>4. Place(d) \in 0 .. 1 /\ Place(e) \in 0 .. 1 /\ (Place(d) = Place(e) <=> d = e)
  BY <1>2 DEF Place, Doms
<1>t. state \in [Doms -> StateType]
  BY DEF SwapInv, TypeOK, StateType
<1> HIDE DEF kind, e
<1>5. state'[d] = IF d = e THEN Released(kind, d) ELSE state[d]
  BY <1>3, <1>t
<1>6. /\ state'[d].quiet <=> state[d].quiet /\ ~(d = e /\ kind = "pscom")
      /\ state'[d].pci <=> state[d].pci \/ (d = e /\ kind = "pci")
      /\ state'[d].ivshmem <=> state[d].ivshmem \/ (d = e /\ kind = "ivshmem")
      /\ state'[d].paused <=> state[d].paused /\ ~(d = e /\ kind = "repin" /\ d \in vcpu)
  <2>1. CASE d = e
    BY <1>2, <1>5, <2>1, ReleasedFacts
  <2>2. CASE d # e
    BY <1>5, <2>2
  <2> QED
    BY <2>1, <2>2
<1>7. /\ kind = "pscom" => KindPlace(kind) = 1
      /\ kind = "pci" => KindPlace(kind) = 3
      /\ kind = "ivshmem" => KindPlace(kind) = 5
      /\ kind = "repin" => KindPlace(kind) = 7
  BY DEF KindPlace
<1>8. /\ built = 1 + Place(d) <=> d = e /\ kind = "pscom"
      /\ built = 3 + Place(d) <=> d = e /\ kind = "pci"
      /\ built = 5 + Place(d) <=> d = e /\ kind = "ivshmem"
      /\ built = 7 + Place(d) <=> d = e /\ kind = "repin"
  <2> DEFINE p == Place(d)
             r == Place(e)
  <2>0. p \in 0 .. 1 /\ r \in 0 .. 1 /\ (p = r <=> d = e)
    BY <1>4
  <2> HIDE DEF p, r
  <2>1. CASE kind = "pscom"
    <3>1. built = 1 + r
      BY <1>2, <1>7, <2>1 DEF r
    <3> QED
      BY <2>0, <2>1, <3>1 DEF p
  <2>2. CASE kind = "pci"
    <3>1. built = 3 + r
      BY <1>2, <1>7, <2>2 DEF r
    <3> QED
      BY <2>0, <2>2, <3>1 DEF p
  <2>3. CASE kind = "ivshmem"
    <3>1. built = 5 + r
      BY <1>2, <1>7, <2>3 DEF r
    <3> QED
      BY <2>0, <2>3, <3>1 DEF p
  <2>4. CASE kind = "repin"
    <3>1. built = 7 + r
      BY <1>2, <1>7, <2>4 DEF r
    <3> QED
      BY <2>0, <2>4, <3>1 DEF p
  <2> QED
    BY <1>2, <2>1, <2>2, <2>3, <2>4
<1>9. /\ built - 1 >= 1 + Place(d) <=> built >= 1 + Place(d) /\ built # 1 + Place(d)
      /\ built - 1 < 3 + Place(d) <=> built < 3 + Place(d) \/ built = 3 + Place(d)
      /\ built - 1 < 5 + Place(d) <=> built < 5 + Place(d) \/ built = 5 + Place(d)
      /\ built - 1 >= 7 + Place(d) <=> built >= 7 + Place(d) /\ built # 7 + Place(d)
  BY <1>1, <1>4
<1> QED
  BY <1>6, <1>8, <1>9 DEF Prepared

\* When only early calls fail, every destructor can do its work.
LEMMA AllReleased ==
    ASSUME SwapInv, pc = "unwind", built > 0, OnlyEarly
    PROVE  LET kind == Guards[built][1]
               d    == Guards[built][2]
           IN  CanRelease(kind, d) /\ ~MayNotRelease(kind, d)
<1> DEFINE kind == Guards[built][1]
           d    == Guards[built][2]
<1>1. built \in 1 .. 8
  BY GuardFacts DEF SwapInv, TypeOK
<1>2. /\ d \in Doms /\ kind \in {"pscom", "pci", "ivshmem", "repin"}
      /\ built = KindPlace(kind) + Place(d)
  BY <1>1, GuardAt
<1> HIDE DEF kind, d
<1>3. active[d] = {target[d]} /\ Prepared(d)
  BY <1>2 DEF SwapInv, Unwinding, GuardsInStep, Fresh
<1>4. kind = "pscom" => ~state[d].paused
  <2>1. kind = "pscom" => built = 1 + Place(d) /\ Place(d) \in 0 .. 1
    BY <1>2 DEF KindPlace, Place
  <2> QED
    BY <1>3, <2>1 DEF Prepared
<1>5. Here(d) /\ (kind = "pscom" => Runs(d))
  BY <1>3, <1>4 DEF Here, Runs
<1>6. CanRelease(kind, d)
  BY <1>2, <1>5 DEF CanRelease
<1>7. ~MayNotRelease(kind, d)
  BY <1>2 DEF MayNotRelease, May, OnlyEarly, Early
<1> QED
  BY <1>6, <1>7 DEF kind, d

LEMMA DestroyInv == SwapInv /\ Destroy => SwapInv'
<1> SUFFICES ASSUME SwapInv, Destroy PROVE SwapInv'
  OBVIOUS
<1> DEFINE kind == Guards[built][1]
           d    == Guards[built][2]
<1>1. pc = "unwind" /\ built > 0 /\ built' = built - 1 /\ result = "none"
  BY DEF SwapInv, ExcUnwinds, Destroy
<1>2. UNCHANGED <<size, free, faults, vcpu, pc, result, snap, saved, mig, target, active, stuck>>
  BY DEF Destroy, input
<1>3. built \in 1 .. 8 /\ built' \in 0 .. Len(Guards)
  BY <1>1, GuardFacts DEF SwapInv, TypeOK
<1>4. d \in Doms /\ kind \in {"pscom", "pci", "ivshmem", "repin"}
  BY <1>3, GuardAt
<1>5. CASE /\ CanRelease(kind, d)
           /\ state' = [state EXCEPT ![d] = Released(kind, d)] /\ UNCHANGED exc
  <2>1. \A e \in Doms : (Prepared(e) => Prepared(e)') /\ (state'[e].paused => state[e].paused)
    BY <1>1, <1>2, <1>5, PreparedBack
  <2>2. state' \in [Doms -> StateType]
    <3>1. Released(kind, d) \in StateType
      BY <1>4, ReleasedFacts
    <3>2. state \in [Doms -> StateType]
      BY DEF SwapInv, TypeOK, StateType
    <3> HIDE DEF d, kind
    <3> QED
      BY <1>4, <1>5, <3>1, <3>2
  <2>3. TypeOK'
    BY <1>2, <1>3, <1>5, <2>2 DEF SwapInv, TypeOK, StateType
  <2>4. \A e \in Doms : Fresh(e) => Fresh(e)'
    BY <1>2, <2>1 DEF Fresh
  <2>5. Unwinding'
    BY <1>1, <1>2, <1>5, <2>4 DEF SwapInv, Unwinding, Moved, OnlyEarly
  <2>6. GuardsInStep'
    BY <1>1, <1>2, <1>5, <2>1 DEF SwapInv, GuardsInStep, OnlyEarly
  <2> QED
    BY <1>1, <1>2, <1>5, <2>3, <2>5, <2>6 DEF SwapInv, AtHome, ExcUnwinds, ThreadsJoined, DeviceStuck,
       BeforeChoice, InParallel, ThroughSnapshot, SuccessMeansIntact, RestoredOnEarlyError, Done
<1>6. CASE /\ ~CanRelease(kind, d) \/ MayNotRelease(kind, d)
           /\ exc' = TRUE /\ UNCHANGED state
  <2>1. ~OnlyEarly
    BY <1>1, <1>6, AllReleased
  <2>2. TypeOK'
    BY <1>2, <1>3, <1>6 DEF SwapInv, TypeOK
  <2> QED
    BY <1>1, <1>2, <1>6, <2>1, <2>2 DEF SwapInv, AtHome, ExcUnwinds, ThreadsJoined, DeviceStuck,
       BeforeChoice, InParallel, ThroughSnapshot, Unwinding, GuardsInStep, SuccessMeansIntact,
       RestoredOnEarlyError, Done, OnlyEarly
<1> QED
  BY <1>5, <1>6 DEF Destroy

-----------------------------------------------------------------------------
(* The theorems. *)

LEMMA NextInv == SwapInv /\ [Next]_vars => SwapInv'
<1>1. ASSUME SwapInv, UNCHANGED vars PROVE SwapInv'
  BY <1>1 DEF vars, input, progress, world, SwapInv, TypeOK, AtHome, ExcUnwinds, ThreadsJoined, DeviceStuck,
     BeforeChoice, InParallel, ThroughSnapshot, Unwinding, GuardsInStep, SuccessMeansIntact,
     RestoredOnEarlyError, Done, Fresh, Moved, Halted, Prepared, OnlyEarly
<1> QED
  BY <1>1, BeginInv, ConstructInv, ChooseInv, JoinInv, TakeSnapshotInv, MigrateOtherInv,
     RedefineInv, DeleteInv, RevertInv, DeleteRemoteInv, DestroyInv, FinishInv, ThreadMigratesInv
     DEF Next, TaskStep

LEMMA AlwaysInv == Spec => []SwapInv
  BY InitInv, NextInv, PTL DEF Spec

\* Every variable keeps its type through the whole of swap_migration: in
\* particular the count of constructed guards never leaves 0 .. 8.
THEOREM TypeCorrect == Spec => []TypeOK
<1>1. SwapInv => TypeOK
  BY DEF SwapInv
<1> QED
  BY <1>1, AlwaysInv, PTL

\* Whatever calls fail and however the two migration threads interleave, no
\* domain is ever active on two hosts: the snapshot halts a domain before it
\* is restored at the destination, and a migration moves it in one step.
THEOREM NeverTwice == Spec => []OneHome
<1>1. SwapInv => OneHome
  <2> SUFFICES ASSUME SwapInv, NEW d \in Doms PROVE Cardinality(active[d]) <= 1
    BY DEF OneHome
  <2>1. active[d] = {} \/ active[d] = {"source"} \/ active[d] = {"destination"}
    BY DEF SwapInv, AtHome
  <2>2. Cardinality({}) = 0 /\ Cardinality({"source"}) = 1 /\ Cardinality({"destination"}) = 1
    BY FS_EmptySet, FS_Singleton
  <2> QED
    BY <2>1, <2>2
<1> QED
  BY <1>1, AlwaysInv, PTL

\* A swap_migration that reports success leaves both domains active, resumed
\* and with devices and processes, for every set of calls that may fail; one
\* that took a snapshot has swapped the domains and left no snapshot.
THEOREM SuccessIsIntact == Spec => []SuccessMeansIntact
<1>1. SwapInv => SuccessMeansIntact
  BY DEF SwapInv
<1> QED
  BY <1>1, AlwaysInv, PTL

\* If only lookups, detaching and the memory query can fail, an error leaves
\* both domains at home and as they were: the destructors of swap_migration
\* undo exactly the constructors that ran.
THEOREM EarlyErrorUndone == Spec => []RestoredOnEarlyError
<1>1. SwapInv => RestoredOnEarlyError
  BY DEF SwapInv
<1> QED
  BY <1>1, AlwaysInv, PTL

=============================================================================
