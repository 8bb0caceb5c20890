------------------------------ MODULE Evacuate ------------------------------
(***************************************************************************)
(* Node evacuation of libvirt_hypervisor.cpp: get_evacuate_tasks lists the *)
(* active domains and fills the static deque dest_caps in the loop thread; *)
(* then one asynchronous task per domain picks a destination from that     *)
(* deque (get_next_destination) and migrates its domain.                   *)
(*                                                                         *)
(* A migration is a call that moves the domain or fails (module Migrate    *)
(* has its inside); libvirt on the destinations is external and known by   *)
(* its number of CPUs and of active domains.                               *)
(***************************************************************************)
EXTENDS Integers, Sequences, FiniteSets

CONSTANTS
    Domains,       \* the domains of the evacuated node
    Hosts,         \* the possible destinations
    Local,         \* the evacuated node
    Destinations,  \* "destinations" of the evacuate task: a sequence of hosts
    Cpus,          \* number of CPUs of each host
    MaxLoad,       \* bound: other domains active on a host
    MaxRounds,     \* bound: number of evacuate messages
    Modes,         \* the modes the scheduler asks for
    Overbookings,  \* the values of "overbooking" the scheduler asks for
    Overlap        \* TRUE: the scheduler does not wait for the last result

None == "none"

Rounds == 1 .. MaxRounds

AllModes == {"compact", "scatter", "auto", "other"}

ASSUME Parameters ==
    /\ IsFiniteSet(Domains)
    /\ Local \notin Hosts
    /\ None \notin Hosts
    /\ Destinations \in Seq(Hosts)
    /\ Cpus \in [Hosts -> Nat]
    /\ MaxLoad \in Nat
    /\ MaxRounds \in Nat
    /\ Modes \subseteq AllModes
    /\ Overbookings \subseteq BOOLEAN
    /\ Overlap \in BOOLEAN

\* The message lists no destination twice.
ASSUME DistinctDestinations ==
    \A i, j \in DOMAIN Destinations :
        Destinations[i] = Destinations[j] => i = j

VARIABLES
    round,      \* number of evacuate messages so far
    req,        \* mode and overbooking of each round
    filled,     \* number of destinations whose capacity was read
    stage,      \* where init_destinations_capacities is: idle or fill
    dest_caps,  \* the static deque of hosts and capacities
    pc,         \* where the task of each round and domain is
    dest,       \* the destination of each task, or None
    where,      \* the host that runs each domain
    load        \* the number of other active domains on each host

vars == <<round, req, filled, stage, dest_caps, pc, dest, where, load>>

Entry == [host : Hosts, cap : Int]

TaskStates ==
    {"none", "listed", "check", "take", "migrate", "moved", "failed",
     "refused", "undefined"}

\* The states of a task whose thread still has something to do.
Busy == {"check", "take", "migrate"}

TypeOK ==
    /\ round \in 0 .. MaxRounds
    /\ req \in [Rounds -> [mode : AllModes, ob : BOOLEAN]]
    /\ filled \in 0 .. Len(Destinations)
    /\ stage \in {"idle", "fill"}
    /\ dest_caps \in Seq(Entry)
    /\ pc \in [Rounds -> [Domains -> TaskStates]]
    /\ dest \in [Rounds -> [Domains -> Hosts \cup {None}]]
    /\ where \in [Domains -> Hosts \cup {Local}]
    /\ load \in [Hosts -> Nat]

Init ==
    /\ round = 0
    /\ req = [r \in Rounds |-> [mode |-> "auto", ob |-> TRUE]]
    /\ filled = 0
    /\ stage = "idle"
    /\ dest_caps = <<>>
    /\ pc = [r \in Rounds |-> [d \in Domains |-> "none"]]
    /\ dest = [r \in Rounds |-> [d \in Domains |-> None]]
    /\ where = [d \in Domains |-> Local]
    /\ load \in [Hosts -> 0 .. MaxLoad]

-----------------------------------------------------------------------------
(* get_evacuate_tasks, in the thread of Task_handler::loop. *)

ActiveDomains(h) == {d \in Domains : where[d] = h}

\* get_capacity: CPUs of the host minus its active domains.
Capacity(h) == Cpus[h] - (load[h] + Cardinality(ActiveDomains(h)))

Quiet == \A r \in Rounds, d \in Domains : pc[r][d] \notin Busy

\* One task per active local domain, then dest_caps.clear(), without the
\* mutex.  A failing connection leaves everything as it was.
Request(mode, ob) ==
    /\ stage = "idle"
    /\ round < MaxRounds
    /\ Overlap \/ Quiet
    /\ round' = round + 1
    /\ req' = [req EXCEPT ![round + 1] = [mode |-> mode, ob |-> ob]]
    /\ \/ /\ stage' = "fill"
          /\ filled' = 0
          /\ dest_caps' = <<>>
          /\ pc' = [pc EXCEPT ![round + 1] =
                      [d \in Domains |-> IF where[d] = Local THEN "listed" ELSE "none"]]
       \/ UNCHANGED <<stage, filled, dest_caps, pc>>
    /\ UNCHANGED <<dest, where, load>>

\* emplace_back of the next destination with its capacity.
EmplaceBack ==
    /\ stage = "fill"
    /\ filled < Len(Destinations)
    /\ filled' = filled + 1
    /\ LET h == Destinations[filled + 1]
       IN  dest_caps' = Append(dest_caps, [host |-> h, cap |-> Capacity(h)])
    /\ UNCHANGED <<round, req, stage, pc, dest, where, load>>

\* get_capacity throws: the deque stays half filled, no task is started.
Unreachable ==
    /\ stage = "fill"
    /\ filled < Len(Destinations)
    /\ stage' = "idle"
    /\ pc' = [pc EXCEPT ![round] = [d \in Domains |-> "none"]]
    /\ UNCHANGED <<round, req, filled, dest_caps, dest, where, load>>

Full(n) == dest_caps[n].cap < 1

\* remove_if and erase: one full host at a time, without the mutex.
DropFull(n) ==
    /\ stage = "fill"
    /\ filled = Len(Destinations)
    /\ ~req[round].ob
    /\ Full(n)
    /\ dest_caps' = SubSeq(dest_caps, 1, n - 1) \o SubSeq(dest_caps, n + 1, Len(dest_caps))
    /\ UNCHANGED <<round, req, filled, stage, pc, dest, where, load>>

\* get_evacuate_tasks returns and std::async launches the tasks: they do not
\* inherit the setting that would defer them.
Launch ==
    /\ stage = "fill"
    /\ filled = Len(Destinations)
    /\ req[round].ob \/ \A n \in DOMAIN dest_caps : ~Full(n)
    /\ stage' = "idle"
    /\ pc' = [pc EXCEPT ![round] =
                [d \in Domains |-> IF @[d] = "listed" THEN "check" ELSE @[d]]]
    /\ UNCHANGED <<round, req, filled, dest_caps, dest, where, load>>

-----------------------------------------------------------------------------
(* evacuate, in the thread of one task. *)

At(r, d, state) == pc[r][d] = state

Goto(r, d, state) == pc' = [pc EXCEPT ![r][d] = state]

\* connect("") throws, or get_next_destination tests dest_caps.empty()
\* before it takes the mutex.
Check(r, d) ==
    /\ At(r, d, "check")
    /\ \/ Goto(r, d, "failed")
       \/ dest_caps = <<>> /\ Goto(r, d, "refused")
       \/ dest_caps # <<>> /\ Goto(r, d, "take")
    /\ UNCHANGED <<round, req, filled, stage, dest_caps, dest, where, load>>

Rotate(dc) == Append(Tail(dc), Head(dc))

Permuted(dc) ==
    {[i \in DOMAIN dc |-> dc[p[i]]] :
        p \in {f \in [DOMAIN dc -> DOMAIN dc] :
                 \A i, j \in DOMAIN dc : f[i] = f[j] => i = j}}

MutAscending(dc) == \A i, j \in DOMAIN dc : i < j => dc[i].cap <= dc[j].cap

Descending(dc) == \A i, j \in DOMAIN dc : i < j => dc[i].cap >= dc[j].cap

\* std::sort by descending capacity is not stable.
Sorted(dc) == {q \in Permuted(dc) : Descending(q)}

\* What get_next_destination leaves of the deque dc, whose front has just
\* lost one unit of capacity.
MutSwapped(dc, mode, ob) ==
    CASE mode = "compact" -> {IF ob THEN dc ELSE Rotate(dc)}
      [] mode = "scatter" -> {IF Head(dc).cap < 1 /\ ~ob THEN Tail(dc) ELSE dc}
      [] OTHER            -> {dc}

MutOffByOne(dc, mode, ob) ==
    CASE mode = "compact" -> {IF Head(dc).cap >= 0 THEN dc
                              ELSE IF ob THEN Rotate(dc) ELSE Tail(dc)}
      [] mode = "scatter" -> {IF Head(dc).cap < 0 /\ ~ob THEN Tail(dc) ELSE Rotate(dc)}
      [] mode = "auto"    -> Sorted(dc)
      [] OTHER            -> {dc}

MutDropEarly(dc, mode, ob) ==
    CASE mode = "compact" -> {IF Head(dc).cap >= 2 THEN dc
                              ELSE IF ob THEN Rotate(dc) ELSE Tail(dc)}
      [] mode = "scatter" -> {IF Head(dc).cap < 2 /\ ~ob THEN Tail(dc) ELSE Rotate(dc)}
      [] mode = "auto"    -> Sorted(dc)
      [] OTHER            -> {dc}

Rearranged(dc, mode, ob) ==
    CASE mode = "compact" -> {IF Head(dc).cap >= 1 THEN dc
                              ELSE IF ob THEN Rotate(dc) ELSE Tail(dc)}
      [] mode = "scatter" -> {IF Head(dc).cap < 1 /\ ~ob THEN Tail(dc) ELSE Rotate(dc)}
      [] mode = "auto"    -> Sorted(dc)
      [] OTHER            -> {dc}

\* The part of get_next_destination under the mutex.  front() of a deque that
\* became empty since the check is undefined behaviour.
Take(r, d) ==
    /\ At(r, d, "take")
    /\ \/ /\ dest_caps = <<>>
          /\ Goto(r, d, "undefined")
          /\ UNCHANGED <<dest_caps, dest>>
       \/ /\ dest_caps # <<>>
          /\ dest_caps' \in Rearranged([dest_caps EXCEPT ![1].cap = @ - 1],
                                       req[r].mode, req[r].ob)
          /\ dest' = [dest EXCEPT ![r][d] = dest_caps[1].host]
          /\ Goto(r, d, "migrate")
    /\ UNCHANGED <<round, req, filled, stage, where, load>>

\* migrate returns, or throws before or after the domain has moved; a failed
\* migration is not retried and its unit of capacity is not given back.
Migrate(r, d) ==
    /\ At(r, d, "migrate")
    /\ \/ /\ where[d] = Local
          /\ where' = [where EXCEPT ![d] = dest[r][d]]
          /\ Goto(r, d, "moved") \/ Goto(r, d, "failed")
       \/ /\ Goto(r, d, "failed")
          /\ UNCHANGED where
    /\ UNCHANGED <<round, req, filled, stage, dest_caps, dest, load>>

-----------------------------------------------------------------------------

Next ==
    \/ \E mode \in Modes, ob \in Overbookings : Request(mode, ob)
    \/ EmplaceBack
    \/ Unreachable
    \/ \E n \in DOMAIN dest_caps : DropFull(n)
    \/ Launch
    \/ \E r \in Rounds, d \in Domains : Check(r, d)
    \/ \E r \in Rounds, d \in Domains : Take(r, d)
    \/ \E r \in Rounds, d \in Domains : Migrate(r, d)

Spec == Init /\ [][Next]_vars

-----------------------------------------------------------------------------
(* Properties. *)

\* The number of domains the latest round has sent to h.
Assigned(h) == Cardinality({d \in Domains : dest[round][d] = h})

\* The capacity of h when the latest round began, if rounds do not overlap.
Room(h) ==
    Cpus[h] - (load[h] + Cardinality({d \in ActiveDomains(h) : dest[round][d] # h}))

Listed == {Destinations[n] : n \in DOMAIN Destinations}

\* Every request so far forbids overbooking, in a mode that drops full hosts,
\* and came when the tasks of the one before had ended.
StrictSoFar ==
    /\ ~Overlap
    /\ \A r \in 1 .. round : ~req[r].ob /\ req[r].mode \in {"compact", "scatter"}

\* mqtt-spec.md on overbooking: "allow an overbooking of the destination
\* nodes"; as long as it has not been allowed, no host that received a domain
\* runs more domains than it has CPUs, however the tasks of the evacuations
\* interleave and whichever migrations fail.
NoOverbooking ==
    StrictSoFar =>
        \A h \in Hosts :
            ActiveDomains(h) # {} => load[h] + Cardinality(ActiveDomains(h)) <= Cpus[h]

\* A task is turned away, or runs into an empty deque, only when every
\* destination has been given as many domains as it had room for.
RefusedOnlyWhenFull ==
    round > 0 =>
        \A d \in Domains :
            pc[round][d] \in {"refused", "undefined"} =>
                \A h \in Listed : Assigned(h) >= Room(h)

\* Mode scatter: "equally distribute the domains to the provided
\* destinations".  No destination is more than one domain ahead of one that
\* is still in the deque.
ScatterEven ==
    round > 0 /\ req[round].mode = "scatter" =>
        \A h \in Listed, n \in DOMAIN dest_caps :
            Assigned(h) <= Assigned(dest_caps[n].host) + 1

\* Mode compact: "fill up destination by destination".  A destination is used
\* only when those before it in the message are full.
CompactFill ==
    round > 0 /\ req[round].mode = "compact" =>
        \A i, j \in DOMAIN Destinations :
            i < j /\ Assigned(Destinations[j]) > 0 =>
                Assigned(Destinations[i]) >= Room(Destinations[i])

\* The first destination that dest_caps starts with: it is picked before
\* the deque is sorted for the first time.
PickedUnsorted(h) ==
    \E n \in DOMAIN Destinations :
        /\ h = Destinations[n]
        /\ \A i \in 1 .. n - 1 : ~req[round].ob /\ Room(Destinations[i]) < 1

\* h is the emptiest destination in the deque, up to the domain it got last.
Level(h) ==
    \A n \in DOMAIN dest_caps :
        LET g == dest_caps[n].host
        IN  Room(g) - Assigned(g) <= Room(h) - Assigned(h) + 1

\* Mode auto levels the destinations like water, the first pick excepted.
AutoLevels ==
    round > 0 /\ req[round].mode = "auto" =>
        \A h \in Listed :
            Assigned(h) > (IF PickedUnsorted(h) THEN 1 ELSE 0) => Level(h)

\* The comment in get_next_destination, "Lock for thread safety": no task
\* calls front() on an empty deque.
NoUndefined == \A r \in Rounds, d \in Domains : pc[r][d] # "undefined"

=============================================================================
