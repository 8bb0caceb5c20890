--------------------------- MODULE EvacuateProofs ---------------------------
(***************************************************************************)
(* Proofs about Evacuate for any finite set of domains, any destinations,  *)
(* any capacities and any number of evacuations.                           *)
(***************************************************************************)
EXTENDS Evacuate, SequenceTheorems, FiniteSetTheorems, TLAPS

-----------------------------------------------------------------------------
(* Type correctness. *)

\* The front entry after --dest_caps.front().second.
Decremented(dc) == [dc EXCEPT ![1].cap = @ - 1]

LEMMA DecrementedFacts ==
    ASSUME NEW dc \in Seq(Entry), dc # <<>>
    PROVE  /\ Decremented(dc) \in Seq(Entry)
           /\ Decremented(dc) # <<>>
           /\ Len(Decremented(dc)) = Len(dc)
           /\ Len(dc) \in Nat \ {0}
           /\ Decremented(dc)[1].host = dc[1].host
           /\ Decremented(dc)[1].cap = dc[1].cap - 1
           /\ \A i \in 2 .. Len(dc) : Decremented(dc)[i] = dc[i]
<1>1. Len(dc) \in Nat \ {0} /\ dc[1] \in Entry
  BY EmptySeq, ElementOfSeq
<1>2. [dc[1] EXCEPT !.cap = @ - 1] \in Entry
  BY <1>1 DEF Entry
<1>3. Decremented(dc) = [dc EXCEPT ![1] = [dc[1] EXCEPT !.cap = @ - 1]]
  BY <1>1, LenProperties DEF Decremented
<1>4. /\ Decremented(dc) \in Seq(Entry)
      /\ Len(Decremented(dc)) = Len(dc)
      /\ \A i \in 2 .. Len(dc) : Decremented(dc)[i] = dc[i]
      /\ Decremented(dc)[1] = [dc[1] EXCEPT !.cap = @ - 1]
  BY <1>1, <1>2, <1>3, ExceptSeq
<1>5. Decremented(dc) # <<>>
  BY <1>1, <1>4, EmptySeq
<1> QED
  BY <1>1, <1>4, <1>5 DEF Entry

\* Rotation keeps the entries and their number.
LEMMA RotateFacts ==
    ASSUME NEW dc \in Seq(Entry), dc # <<>>
    PROVE  /\ Rotate(dc) \in Seq(Entry)
           /\ Len(Rotate(dc)) = Len(dc)
           /\ Len(dc) \in Nat \ {0}
           /\ \A i \in 1 .. Len(dc) - 1 : Rotate(dc)[i] = dc[i + 1]
           /\ Rotate(dc)[Len(dc)] = dc[1]
<1>1. /\ Tail(dc) \in Seq(Entry) /\ Head(dc) \in Entry
      /\ Len(Tail(dc)) = Len(dc) - 1
      /\ \A i \in 1 .. Len(Tail(dc)) : Tail(dc)[i] = dc[i + 1]
      /\ Len(dc) \in Nat \ {0} /\ Head(dc) = dc[1]
  BY HeadTailProperties, EmptySeq
<1> QED
  BY <1>1, AppendProperties DEF Rotate

\* Sorting yields a deque.
LEMMA SortedType ==
    ASSUME NEW dc \in Seq(Entry), NEW q \in Sorted(dc)
    PROVE  q \in Seq(Entry)
<1>1. dc \in [1 .. Len(dc) -> Entry] /\ Len(dc) \in Nat /\ DOMAIN dc = 1 .. Len(dc)
  BY LenProperties
<1>2. PICK p \in [DOMAIN dc -> DOMAIN dc] : q = [i \in DOMAIN dc |-> dc[p[i]]]
  BY DEF Sorted, Permuted
<1>3. q \in [1 .. Len(dc) -> Entry]
  BY <1>1, <1>2
<1> QED
  BY <1>1, <1>3, SeqDef

LEMMA RearrangedType ==
    ASSUME NEW dc \in Seq(Entry), dc # <<>>, NEW mode \in AllModes,
           NEW ob \in BOOLEAN, NEW q \in Rearranged(dc, mode, ob)
    PROVE  q \in Seq(Entry)
<1>1. Tail(dc) \in Seq(Entry) /\ Rotate(dc) \in Seq(Entry)
  BY HeadTailProperties, RotateFacts
<1>2. CASE mode = "compact"
  BY <1>1, <1>2 DEF Rearranged
<1>3. CASE mode = "scatter"
  BY <1>1, <1>3 DEF Rearranged
<1>4. CASE mode = "auto"
  BY <1>4, SortedType DEF Rearranged
<1>5. CASE mode = "other"
  BY <1>5 DEF Rearranged
<1> QED
  BY <1>2, <1>3, <1>4, <1>5 DEF AllModes

\* The place of the entry that follows the erased entry n at or before i.
LEMMA EraseIndex ==
    ASSUME NEW m \in Nat, NEW n \in 1 .. m, NEW i \in 1 .. m - 1, i >= n
    PROVE  /\ ~(i <= n - 1) /\ ~(i < n)
           /\ i - (n - 1) \in 1 .. m - n /\ n + (i - (n - 1)) = i + 1
  OBVIOUS

\* Erasing entry n keeps the others, in their order.
LEMMA EraseFacts ==
    ASSUME NEW dc \in Seq(Entry), NEW n \in DOMAIN dc, NEW q,
           q = SubSeq(dc, 1, n - 1) \o SubSeq(dc, n + 1, Len(dc))
    PROVE  /\ q \in Seq(Entry)
           /\ Len(q) = Len(dc) - 1
           /\ \A i \in 1 .. Len(q) : q[i] = IF i < n THEN dc[i] ELSE dc[i + 1]
<1>1. Len(dc) \in Nat /\ n \in 1 .. Len(dc)
  BY LenProperties
<1> DEFINE a == SubSeq(dc, 1, n - 1)
           b == SubSeq(dc, n + 1, Len(dc))
<1>2. /\ a \in Seq(Entry) /\ Len(a) = n - 1
      /\ \A i \in 1 .. n - 1 : a[i] = dc[i]
  BY <1>1, SubSeqProperties
<1>3. /\ b \in Seq(Entry) /\ Len(b) = Len(dc) - n
      /\ \A i \in 1 .. Len(dc) - n : b[i] = dc[n + i]
  <2>1. /\ n + 1 \in Int /\ Len(dc) \in Int
        /\ \A i \in n + 1 .. Len(dc) : dc[i] \in Entry
    BY <1>1, ElementOfSeq
  <2>2. /\ b \in Seq(Entry)
        /\ Len(b) = IF n + 1 <= Len(dc) THEN Len(dc) - (n + 1) + 1 ELSE 0
        /\ \A i \in 1 .. Len(dc) - (n + 1) + 1 : b[i] = dc[n + 1 + i - 1]
    BY <2>1, SubSeqProperties
  <2>3. Len(dc) - (n + 1) + 1 = Len(dc) - n
    BY <1>1
  <2> HIDE DEF b
  <2>4. Len(b) = Len(dc) - n
    <3>1. CASE n + 1 <= Len(dc)
      BY <2>2, <2>3, <3>1
    <3>2. CASE n = Len(dc)
      BY <1>1, <2>2, <3>2
    <3> QED
      BY <1>1, <3>1, <3>2
  <2>5. ASSUME NEW i \in 1 .. Len(dc) - n
        PROVE  b[i] = dc[n + i]
    <3>1. n + 1 + i - 1 = n + i
      BY <1>1
    <3>2. b[i] = dc[n + 1 + i - 1]
      BY <2>2, <2>3
    <3> QED
      BY <3>1, <3>2
  <2> QED
    BY <2>2, <2>4, <2>5
<1> HIDE DEF a, b
<1>c. /\ a \o b \in Seq(Entry) /\ Len(a \o b) = Len(a) + Len(b)
      /\ \A i \in 1 .. Len(a) + Len(b) :
            (a \o b)[i] = IF i <= Len(a) THEN a[i] ELSE b[i - Len(a)]
  BY <1>2, <1>3, ConcatProperties
<1>4. /\ a \o b \in Seq(Entry) /\ Len(a \o b) = Len(dc) - 1
      /\ \A i \in 1 .. Len(dc) - 1 :
            (a \o b)[i] = IF i <= n - 1 THEN a[i] ELSE b[i - (n - 1)]
  <2>1. n - 1 + (Len(dc) - n) = Len(dc) - 1
    BY <1>1
  <2> QED
    BY <1>c, <1>2, <1>3, <2>1
<1>5. q = a \o b
  BY DEF a, b
<1>6. ASSUME NEW i \in 1 .. Len(q)
      PROVE  q[i] = IF i < n THEN dc[i] ELSE dc[i + 1]
  <2>1. CASE i < n
    BY <1>1, <1>2, <1>3, <1>4, <1>5, <2>1
  <2>2. CASE i >= n
    <3> DEFINE k == i - (n - 1)
    <3>i. i \in 1 .. Len(dc) - 1
      BY <1>4, <1>5
    <3>1. /\ i \in 1 .. Len(dc) - 1 /\ ~(i <= n - 1) /\ ~(i < n)
          /\ k \in 1 .. Len(dc) - n /\ n + k = i + 1
      BY <1>1, <2>2, <3>i, EraseIndex
    <3>2. q[i] = b[k]
      BY <1>4, <1>5, <3>1
    <3> HIDE DEF k
    <3>3. b[k] = dc[n + k]
      BY <1>3, <3>1
    <3> QED
      BY <3>1, <3>2, <3>3
  <2> QED
    BY <1>1, <2>1, <2>2
<1> QED
  BY <1>4, <1>5, <1>6

LEMMA CapacityType ==
    ASSUME TypeOK, NEW h \in Hosts
    PROVE  Capacity(h) \in Int /\ IsFiniteSet(ActiveDomains(h))
<1>1. ActiveDomains(h) \in SUBSET Domains
  BY DEF ActiveDomains
<1>2. IsFiniteSet(ActiveDomains(h)) /\ Cardinality(ActiveDomains(h)) \in Nat
  BY <1>1, Parameters, FS_Subset, FS_CardinalityType DEF Parameters
<1> QED
  BY <1>2, Parameters DEF Capacity, TypeOK, Parameters

\* Assigning one element of a table, as in pc and dest.
LEMMA TableExcept ==
    ASSUME NEW A, NEW B, NEW C, NEW f \in [A -> [B -> C]],
           NEW a \in A, NEW b \in B, NEW c \in C,
           NEW g, g = [f EXCEPT ![a][b] = c]
    PROVE  /\ g \in [A -> [B -> C]]
           /\ \A x \in A, y \in B : g[x][y] = IF x = a /\ y = b THEN c ELSE f[x][y]
<1>1. g = [f EXCEPT ![a] = [f[a] EXCEPT ![b] = c]]
  OBVIOUS
<1>2. [f[a] EXCEPT ![b] = c] \in [B -> C]
  OBVIOUS
<1> QED
  BY <1>1, <1>2

\* A task that goes to a state leaves the other tasks where they are.
LEMMA GotoFacts ==
    ASSUME TypeOK, NEW r \in Rounds, NEW d \in Domains, NEW state \in TaskStates,
           Goto(r, d, state)
    PROVE  /\ pc' \in [Rounds -> [Domains -> TaskStates]]
           /\ \A x \in Rounds, y \in Domains :
                pc'[x][y] = IF x = r /\ y = d THEN state ELSE pc[x][y]
BY TableExcept DEF Goto, TypeOK

\* The latest round is a round once there has been one.
RoundStarted == stage = "fill" => round \in Rounds

\* A task that migrates has a destination.
DestSet ==
    \A r \in Rounds, d \in Domains : pc[r][d] = "migrate" => dest[r][d] \in Hosts

\* The inductive strengthening of TypeOK.
TypeInv == TypeOK /\ RoundStarted /\ DestSet

LEMMA TypeInit == Init => TypeInv
<1>1. Len(Destinations) \in Nat
  BY Parameters, LenProperties DEF Parameters
<1> QED
  BY <1>1, Parameters, EmptySeq
     DEF Init, TypeInv, TypeOK, RoundStarted, DestSet, Parameters, AllModes, TaskStates

LEMMA RequestType ==
    ASSUME TypeInv, NEW mode \in Modes, NEW ob \in Overbookings, Request(mode, ob)
    PROVE  TypeInv'
<1>d. Len(Destinations) \in Nat
  BY Parameters, LenProperties DEF Parameters
<1>t. TypeOK
  BY DEF TypeInv
<1>1. round + 1 \in Rounds /\ round' \in 0 .. MaxRounds
  BY <1>t, Parameters DEF Request, TypeOK, Rounds, Parameters
<1>2. req' \in [Rounds -> [mode : AllModes, ob : BOOLEAN]]
  BY <1>t, <1>1, Parameters DEF Request, TypeOK, Parameters
<1> DEFINE row == [d \in Domains |-> IF where[d] = Local THEN "listed" ELSE "none"]
<1>3. row \in [Domains -> TaskStates] /\ \A d \in Domains : row[d] # "migrate"
  BY DEF TaskStates
<1>4. UNCHANGED pc \/ pc' = [pc EXCEPT ![round + 1] = row]
  BY DEF Request
<1> HIDE DEF row
<1>5. pc' \in [Rounds -> [Domains -> TaskStates]]
  BY <1>t, <1>1, <1>3, <1>4 DEF TypeOK
<1>6. \A r \in Rounds, d \in Domains : pc'[r][d] = "migrate" => pc[r][d] = "migrate"
  BY <1>t, <1>1, <1>3, <1>4 DEF TypeOK
<1>7. dest_caps' \in Seq(Entry)
  BY <1>t, EmptySeq DEF Request, TypeOK
<1>8. filled' \in 0 .. Len(Destinations)
  BY <1>t, <1>d DEF Request, TypeOK
<1>9. TypeOK'
  BY <1>t, <1>1, <1>2, <1>5, <1>7, <1>8 DEF Request, TypeOK
<1> QED
  BY <1>1, <1>6, <1>9 DEF Request, TypeInv, RoundStarted, DestSet

LEMMA TakeType ==
    ASSUME TypeInv, NEW r \in Rounds, NEW d \in Domains, Take(r, d)
    PROVE  TypeInv'
<1>t. TypeOK /\ DestSet
  BY DEF TypeInv
<1>1. CASE dest_caps = <<>>
  <2>1. /\ Goto(r, d, "undefined")
        /\ UNCHANGED <<round, req, filled, stage, dest_caps, dest, where, load>>
    BY <1>1 DEF Take
  <2>2. /\ pc' \in [Rounds -> [Domains -> TaskStates]]
        /\ \A x \in Rounds, y \in Domains :
             pc'[x][y] = IF x = r /\ y = d THEN "undefined" ELSE pc[x][y]
    BY <2>1, <1>t, GotoFacts DEF TaskStates
  <2>3. DestSet'
    BY <1>t, <2>1, <2>2 DEF DestSet
  <2>4. TypeOK'
    BY <1>t, <2>1, <2>2 DEF TypeOK
  <2>5. RoundStarted'
    BY <2>1 DEF TypeInv, RoundStarted
  <2> QED
    BY <2>3, <2>4, <2>5 DEF TypeInv
<1>2. CASE dest_caps # <<>>
  <2>1. dest_caps' \in Rearranged(Decremented(dest_caps), req[r].mode, req[r].ob)
    BY <1>2 DEF Take, Decremented
  <2>2. Decremented(dest_caps) \in Seq(Entry) /\ Decremented(dest_caps) # <<>>
    BY <1>2, <1>t, DecrementedFacts DEF TypeOK
  <2>3. req[r].mode \in AllModes /\ req[r].ob \in BOOLEAN
    BY <1>t DEF TypeOK
  <2>4. dest_caps' \in Seq(Entry)
    BY <2>1, <2>2, <2>3, RearrangedType
  <2>5. dest_caps[1] \in Entry
    BY <1>2, <1>t, EmptySeq, ElementOfSeq DEF TypeOK
  <2>6. dest_caps[1].host \in Hosts
    BY <2>5 DEF Entry
  <2>7. /\ dest' \in [Rounds -> [Domains -> Hosts \cup {None}]]
        /\ \A x \in Rounds, y \in Domains :
             dest'[x][y] = IF x = r /\ y = d THEN dest_caps[1].host ELSE dest[x][y]
    <3>1. dest' = [dest EXCEPT ![r][d] = dest_caps[1].host]
      BY <1>2 DEF Take
    <3>2. dest \in [Rounds -> [Domains -> Hosts \cup {None}]]
      BY <1>t DEF TypeOK
    <3>3. dest_caps[1].host \in Hosts \cup {None}
      BY <2>6
    <3> QED
      BY <3>1, <3>2, <3>3, TableExcept
  <2>8. /\ pc' \in [Rounds -> [Domains -> TaskStates]]
        /\ \A x \in Rounds, y \in Domains :
             pc'[x][y] = IF x = r /\ y = d THEN "migrate" ELSE pc[x][y]
    BY <1>2, <1>t, GotoFacts DEF Take, TaskStates
  <2>9. DestSet'
    BY <1>t, <2>6, <2>7, <2>8 DEF DestSet
  <2> QED
    BY <1>t, <2>4, <2>7, <2>8, <2>9 DEF Take, TypeInv, TypeOK, RoundStarted
<1> QED
  BY <1>1, <1>2

LEMMA MigrateType ==
    ASSUME TypeInv, NEW r \in Rounds, NEW d \in Domains, Migrate(r, d)
    PROVE  TypeInv'
<1>t. TypeOK /\ DestSet
  BY DEF TypeInv
<1>1. where' \in [Domains -> Hosts \cup {Local}]
  BY <1>t DEF Migrate, At, TypeOK, DestSet
<1>2. /\ pc' \in [Rounds -> [Domains -> TaskStates]]
      /\ \A x \in Rounds, y \in Domains : pc'[x][y] = "migrate" => pc[x][y] = "migrate"
  BY <1>t, GotoFacts DEF Migrate, TaskStates
<1> QED
  BY <1>t, <1>1, <1>2 DEF Migrate, TypeInv, TypeOK, RoundStarted, DestSet

LEMMA TypeNext ==
    ASSUME TypeInv, [Next]_vars
    PROVE  TypeInv'
<1>t. TypeOK /\ RoundStarted /\ DestSet
  BY DEF TypeInv
<1>d. Len(Destinations) \in Nat /\ Destinations \in [1 .. Len(Destinations) -> Hosts]
  BY Parameters, LenProperties DEF Parameters
<1>1. CASE EmplaceBack
  <2> DEFINE h == Destinations[filled + 1]
  <2>1. filled' \in 0 .. Len(Destinations) /\ h \in Hosts
    BY <1>1, <1>d, <1>t DEF EmplaceBack, TypeOK
  <2>2. [host |-> h, cap |-> Capacity(h)] \in Entry
    BY <1>t, <2>1, CapacityType DEF Entry
  <2>3. dest_caps' \in Seq(Entry)
    BY <1>1, <1>t, <2>2, AppendProperties DEF EmplaceBack, TypeOK
  <2> QED
    BY <1>1, <1>t, <2>1, <2>3 DEF EmplaceBack, TypeInv, TypeOK, RoundStarted, DestSet
<1>2. CASE Unreachable
  BY <1>2, <1>t DEF Unreachable, TypeInv, TypeOK, RoundStarted, DestSet, TaskStates
<1>3. ASSUME NEW n \in DOMAIN dest_caps, DropFull(n)
      PROVE  TypeInv'
  <2>1. dest_caps' \in Seq(Entry)
    BY <1>3, <1>t, EraseFacts DEF DropFull, TypeOK
  <2> QED
    BY <1>3, <1>t, <2>1 DEF DropFull, TypeInv, TypeOK, RoundStarted, DestSet
<1>4. CASE Launch
  BY <1>4, <1>t DEF Launch, TypeInv, TypeOK, RoundStarted, DestSet, TaskStates
<1>5. ASSUME NEW r \in Rounds, NEW d \in Domains, Check(r, d)
      PROVE  TypeInv'
  <2>1. /\ pc' \in [Rounds -> [Domains -> TaskStates]]
        /\ \A x \in Rounds, y \in Domains : pc'[x][y] = "migrate" => pc[x][y] = "migrate"
    BY <1>5, <1>t, GotoFacts DEF Check, TaskStates
  <2> QED
    BY <1>5, <1>t, <2>1 DEF Check, TypeInv, TypeOK, RoundStarted, DestSet
<1>6. CASE UNCHANGED vars
  BY <1>6, <1>t DEF vars, TypeInv, TypeOK, RoundStarted, DestSet
<1> QED
  BY <1>1, <1>2, <1>3, <1>4, <1>5, <1>6, RequestType, TakeType, MigrateType DEF Next

\* Every variable of Evacuate keeps its type; a domain only ever moves to a
\* host.
THEOREM TypeCorrect == Spec => []TypeOK
<1>1. TypeInv /\ [Next]_vars => TypeInv'
  BY TypeNext
<1>2. TypeInv => TypeOK
  BY DEF TypeInv
<1> QED
  BY <1>1, <1>2, TypeInit, PTL DEF Spec

-----------------------------------------------------------------------------
(* No overbooking. *)

\* The domains that run on h or are on their way to it.
Committed(h) ==
    {d \in Domains :
        \/ where[d] = h
        \/ \E r \in Rounds : pc[r][d] = "migrate" /\ dest[r][d] = h}

\* The number of domains on h when all migrations under way succeed.
Demand(h) == load[h] + Cardinality(Committed(h))

\* A deque entry never promises more than its host has left.
CapsSafe ==
    \A h \in Hosts : \A i \in 1 .. Len(dest_caps) :
        dest_caps[i].host = h => dest_caps[i].cap + Demand(h) <= Cpus[h]

HostsDistinct ==
    \A i, j \in 1 .. Len(dest_caps) :
        dest_caps[i].host = dest_caps[j].host => i = j

\* While the deque is filled it holds the destinations read so far, and no
\* task of an earlier evacuation is alive.
FillSequential ==
    stage = "fill" =>
        /\ Quiet
        /\ \A i \in 1 .. Len(dest_caps) :
             \E n \in 1 .. filled : dest_caps[i].host = Destinations[n]

\* While tasks are alive every entry has capacity.
CapsPositive == ~Quiet => \A i \in 1 .. Len(dest_caps) : dest_caps[i].cap >= 1

\* Every request so far was a strict one, and only requested rounds have
\* tasks.
RequestsStrict ==
    \A r \in Rounds :
        /\ r <= round => ~req[r].ob /\ req[r].mode \in {"compact", "scatter"}
        /\ r > round => \A d \in Domains : pc[r][d] = "none"

\* A host that got or will get a domain has room for all of them.
CommittedFits == \A h \in Hosts : Committed(h) # {} => Demand(h) <= Cpus[h]

\* The inductive strengthening of NoOverbooking, as long as StrictSoFar holds.
StrictInv ==
    /\ TypeInv
    /\ CapsSafe
    /\ HostsDistinct
    /\ FillSequential
    /\ CapsPositive
    /\ RequestsStrict
    /\ CommittedFits

LEMMA CommittedFinite ==
    \A h \in Hosts : /\ IsFiniteSet(Committed(h)) /\ Cardinality(Committed(h)) \in Nat
                     /\ IsFiniteSet(Committed(h)') /\ Cardinality(Committed(h)') \in Nat
<1> SUFFICES ASSUME NEW h \in Hosts
             PROVE  /\ IsFiniteSet(Committed(h)) /\ Cardinality(Committed(h)) \in Nat
                    /\ IsFiniteSet(Committed(h)') /\ Cardinality(Committed(h)') \in Nat
  OBVIOUS
<1>1. Committed(h) \in SUBSET Domains /\ Committed(h)' \in SUBSET Domains
  BY DEF Committed
<1> QED
  BY <1>1, Parameters, FS_Subset, FS_CardinalityType DEF Parameters

LEMMA DemandType ==
    ASSUME TypeOK, TypeOK', NEW h \in Hosts
    PROVE  Demand(h) \in Nat /\ Demand(h)' \in Nat /\ Cpus[h] \in Nat
BY CommittedFinite, Parameters DEF Demand, TypeOK, Parameters

\* Fewer commitments, less demand.
LEMMA DemandShrinks ==
    ASSUME TypeOK, TypeOK', load' = load, NEW h \in Hosts,
           Committed(h)' \subseteq Committed(h)
    PROVE  Demand(h)' <= Demand(h)
<1>1. Cardinality(Committed(h)') <= Cardinality(Committed(h))
  BY CommittedFinite, FS_Subset
<1> QED
  BY <1>1, CommittedFinite DEF Demand, TypeOK

\* One more commitment, at most one more in demand.
LEMMA DemandGrows ==
    ASSUME TypeOK, TypeOK', load' = load, NEW h \in Hosts, NEW d,
           Committed(h)' \subseteq Committed(h) \cup {d}
    PROVE  Demand(h)' <= Demand(h) + 1
<1>f. IsFiniteSet(Committed(h)) /\ Cardinality(Committed(h)) \in Nat
  BY CommittedFinite
<1> DEFINE n == Cardinality(Committed(h))
<1>a. /\ IsFiniteSet(Committed(h) \cup {d})
      /\ Cardinality(Committed(h) \cup {d}) = IF d \in Committed(h) THEN n ELSE n + 1
  BY <1>f, FS_AddElement
<1>1. /\ IsFiniteSet(Committed(h) \cup {d})
      /\ Cardinality(Committed(h) \cup {d}) <= n + 1
  BY <1>f, <1>a
<1>2. Cardinality(Committed(h)') <= Cardinality(Committed(h) \cup {d})
  BY <1>1, FS_Subset
<1>3. Cardinality(Committed(h) \cup {d}) \in Nat
  BY <1>1, FS_CardinalityType
<1> QED
  BY <1>1, <1>2, <1>3, CommittedFinite DEF Demand, TypeOK

\* A step that commits no host to more keeps the commitments within bounds.
LEMMA FitsKept ==
    ASSUME TypeOK, TypeOK', load' = load, CommittedFits,
           \A h \in Hosts : Committed(h)' \subseteq Committed(h)
    PROVE  CommittedFits' /\ \A h \in Hosts : Demand(h)' <= Demand(h)
<1>1. \A h \in Hosts : Demand(h)' <= Demand(h)
  BY DemandShrinks
<1> QED
  BY <1>1, DemandType DEF CommittedFits

\* ... and, when the deque stays, the entries too.
LEMMA CapsKept ==
    ASSUME TypeOK, TypeOK', dest_caps' = dest_caps, CapsSafe,
           \A h \in Hosts : Demand(h)' <= Demand(h)
    PROVE  CapsSafe'
<1> SUFFICES ASSUME NEW h \in Hosts, NEW i \in 1 .. Len(dest_caps), dest_caps[i].host = h
             PROVE  dest_caps[i].cap + Demand(h)' <= Cpus[h]
  BY DEF CapsSafe
<1>1. dest_caps[i] \in Entry
  BY ElementOfSeq DEF TypeOK
<1> QED
  BY <1>1, DemandType DEF CapsSafe, Entry

LEMMA RequestStrict ==
    ASSUME ~Overlap, StrictInv, TypeInv', NEW mode \in {"compact", "scatter"}, Request(mode, FALSE)
    PROVE  StrictInv'
<1>y. TypeOK /\ TypeOK'
  BY DEF StrictInv, TypeInv
<1>q. Quiet /\ round < MaxRounds
  BY DEF Request
<1>r. round + 1 \in Rounds
  BY <1>y, <1>q, Parameters DEF TypeOK, Rounds, Parameters
<1>t. TypeOK /\ TypeOK' /\ Quiet /\ round + 1 \in Rounds
  BY <1>y, <1>q, <1>r
<1> DEFINE row == [d \in Domains |-> IF where[d] = Local THEN "listed" ELSE "none"]
<1>1. UNCHANGED pc \/ pc' = [pc EXCEPT ![round + 1] = row]
  BY DEF Request
<1>2. \A d \in Domains : row[d] \notin Busy
  BY DEF Busy
<1> HIDE DEF row
<1>3. \A r \in Rounds, d \in Domains :
        pc'[r][d] = pc[r][d] \/ (r = round + 1 /\ pc'[r][d] \notin Busy)
  BY <1>t, <1>1, <1>2 DEF TypeOK
<1>4. Quiet'
  BY <1>t, <1>3 DEF Quiet
<1>5. \A h \in Hosts : Committed(h)' \subseteq Committed(h)
  BY <1>3 DEF Committed, Request, Busy
<1>6. CommittedFits' /\ \A h \in Hosts : Demand(h)' <= Demand(h)
  BY <1>t, <1>5, FitsKept DEF Request, StrictInv
<1>7. CapsSafe' /\ HostsDistinct' /\ FillSequential'
  <2>1. CASE UNCHANGED <<stage, dest_caps>>
    BY <1>t, <1>6, <2>1, CapsKept DEF StrictInv, HostsDistinct, FillSequential, Request
  <2>2. CASE dest_caps' = <<>>
    <3>1. Len(dest_caps') = 0
      BY <2>2, EmptySeq
    <3> QED
      BY <1>4, <3>1 DEF CapsSafe, HostsDistinct, FillSequential
  <2> QED
    BY <2>1, <2>2 DEF Request
<1>8. RequestsStrict'
  <2>1. round \in Nat /\ round' = round + 1
    BY <1>t, Parameters DEF Request, TypeOK, Parameters
  <2>2. /\ req'[round + 1] = [mode |-> mode, ob |-> FALSE]
        /\ \A r \in Rounds : r # round + 1 => req'[r] = req[r]
    BY <1>t DEF Request, TypeOK
  <2> QED
    BY <1>t, <1>3, <2>1, <2>2 DEF StrictInv, RequestsStrict, Rounds
<1> QED
  BY <1>4, <1>6, <1>7, <1>8 DEF StrictInv, CapsPositive

\* Steps that fill the deque happen while no task is alive: what is committed
\* to a host runs there.
LEMMA QuietCommitted ==
    ASSUME Quiet, NEW h \in Hosts
    PROVE  Committed(h) = ActiveDomains(h)
BY DEF Quiet, Busy, Committed, ActiveDomains

LEMMA EmplaceBackStrict ==
    ASSUME StrictInv, TypeInv', EmplaceBack
    PROVE  StrictInv'
<1>t. TypeOK /\ TypeOK' /\ Quiet
  BY DEF StrictInv, TypeInv, FillSequential, EmplaceBack
<1>d. /\ Len(Destinations) \in Nat /\ DOMAIN Destinations = 1 .. Len(Destinations)
      /\ filled \in 0 .. Len(Destinations) - 1
      /\ Destinations[filled + 1] \in Hosts
  BY <1>t, Parameters, LenProperties, ElementOfSeq DEF Parameters, EmplaceBack, TypeOK
<1> DEFINE h == Destinations[filled + 1]
           e == [host |-> h, cap |-> Capacity(h)]
<1>1. UNCHANGED <<pc, dest, where, load, round, req, stage>> /\ filled' = filled + 1
  BY DEF EmplaceBack
<1>2. Quiet' /\ \A g \in Hosts : Committed(g)' = Committed(g) /\ Demand(g)' = Demand(g)
  BY <1>t, <1>1 DEF Quiet, Committed, Demand
<1>3. e \in Entry
  BY <1>t, <1>d, CapacityType DEF Entry
<1>4. dest_caps' = Append(dest_caps, e)
  BY DEF EmplaceBack
<1>5. e.host = h /\ e.cap + Demand(h) <= Cpus[h]
  <2>1. Committed(h) = ActiveDomains(h)
    BY <1>t, <1>d, QuietCommitted
  <2>2. Demand(h) \in Nat /\ Cpus[h] \in Nat
    BY <1>t, <1>d, DemandType
  <2>3. e.cap = Cpus[h] - Demand(h)
    BY <2>1 DEF Demand, Capacity
  <2> QED
    BY <2>2, <2>3
<1> HIDE DEF h, e
<1>6. /\ Len(dest_caps) \in Nat /\ Len(dest_caps') = Len(dest_caps) + 1
      /\ \A i \in 1 .. Len(dest_caps) : dest_caps'[i] = dest_caps[i]
      /\ dest_caps'[Len(dest_caps) + 1] = e
  BY <1>t, <1>3, <1>4, AppendProperties, LenProperties DEF TypeOK
<1>7. CapsSafe'
  <2> SUFFICES ASSUME NEW g \in Hosts, NEW i \in 1 .. Len(dest_caps'), dest_caps'[i].host = g
               PROVE  dest_caps'[i].cap + Demand(g)' <= Cpus[g]
    BY DEF CapsSafe
  <2>1. CASE i \in 1 .. Len(dest_caps)
    BY <1>2, <1>6, <2>1 DEF StrictInv, CapsSafe
  <2>2. CASE i = Len(dest_caps) + 1
    BY <1>2, <1>5, <1>6, <2>2
  <2> QED
    BY <1>6, <2>1, <2>2
<1>8. HostsDistinct' /\ FillSequential'
  <2>1. \A i \in 1 .. Len(dest_caps) :
          \E n \in 1 .. filled : dest_caps[i].host = Destinations[n]
    BY DEF StrictInv, FillSequential, EmplaceBack
  <2>2. \A i \in 1 .. Len(dest_caps) : dest_caps[i].host # h
    BY <1>d, <2>1, DistinctDestinations DEF DistinctDestinations, h
  <2>3. HostsDistinct'
    BY <1>5, <1>6, <2>2 DEF StrictInv, HostsDistinct
  <2>4. \A i \in 1 .. Len(dest_caps') :
          \E n \in 1 .. filled' : dest_caps'[i].host = Destinations[n]
    BY <1>1, <1>d, <1>5, <1>6, <2>1 DEF h
  <2> QED
    BY <1>2, <2>3, <2>4 DEF FillSequential
<1>9. RequestsStrict' /\ CommittedFits'
  BY <1>1, <1>2 DEF StrictInv, RequestsStrict, CommittedFits
<1> QED
  BY <1>2, <1>7, <1>8, <1>9 DEF StrictInv, CapsPositive

LEMMA DropFullStrict ==
    ASSUME StrictInv, TypeInv', NEW n \in DOMAIN dest_caps, DropFull(n)
    PROVE  StrictInv'
<1>t. TypeOK /\ TypeOK' /\ Quiet
  BY DEF StrictInv, TypeInv, FillSequential, DropFull
<1>1. UNCHANGED <<pc, dest, where, load, round, req, stage, filled>>
  BY DEF DropFull
<1>2. Quiet' /\ \A g \in Hosts : Committed(g)' = Committed(g) /\ Demand(g)' = Demand(g)
  BY <1>t, <1>1 DEF Quiet, Committed, Demand
<1>3. /\ Len(dest_caps') = Len(dest_caps) - 1 /\ Len(dest_caps) \in Nat
      /\ \A i \in 1 .. Len(dest_caps') :
           dest_caps'[i] = IF i < n THEN dest_caps[i] ELSE dest_caps[i + 1]
  <2>1. dest_caps \in Seq(Entry) /\ Len(dest_caps) \in Nat
    BY <1>t, LenProperties DEF TypeOK
  <2>2. dest_caps' = SubSeq(dest_caps, 1, n - 1) \o SubSeq(dest_caps, n + 1, Len(dest_caps))
    BY DEF DropFull
  <2> QED
    BY <2>1, <2>2, EraseFacts
<1>4. n \in 1 .. Len(dest_caps)
  BY <1>t, LenProperties DEF TypeOK
<1>5. CapsSafe'
  <2> SUFFICES ASSUME NEW g \in Hosts, NEW i \in 1 .. Len(dest_caps'), dest_caps'[i].host = g
               PROVE  dest_caps'[i].cap + Demand(g)' <= Cpus[g]
    BY DEF CapsSafe
  <2>1. PICK j \in 1 .. Len(dest_caps) : dest_caps'[i] = dest_caps[j]
    <3>1. dest_caps'[i] = dest_caps[i] \/ dest_caps'[i] = dest_caps[i + 1]
      BY <1>3
    <3>2. i \in 1 .. Len(dest_caps) /\ i + 1 \in 1 .. Len(dest_caps)
      BY <1>3
    <3> QED
      BY <3>1, <3>2
  <2> QED
    BY <1>2, <2>1 DEF StrictInv, CapsSafe
<1>6. HostsDistinct'
  <2> SUFFICES ASSUME NEW i \in 1 .. Len(dest_caps'), NEW j \in 1 .. Len(dest_caps'),
                      dest_caps'[i].host = dest_caps'[j].host
               PROVE  i = j
    BY DEF HostsDistinct
  <2> DEFINE k(x) == IF x < n THEN x ELSE x + 1
  <2>1. /\ k(i) \in 1 .. Len(dest_caps) /\ k(j) \in 1 .. Len(dest_caps)
        /\ dest_caps'[i] = dest_caps[k(i)] /\ dest_caps'[j] = dest_caps[k(j)]
    <3>1. i \in 1 .. Len(dest_caps) - 1 /\ j \in 1 .. Len(dest_caps) - 1
      BY <1>3
    <3>2. k(i) \in 1 .. Len(dest_caps) /\ k(j) \in 1 .. Len(dest_caps)
      BY <1>3, <1>4, <3>1
    <3>3. dest_caps'[i] = dest_caps[k(i)]
      BY <1>3
    <3>4. dest_caps'[j] = dest_caps[k(j)]
      BY <1>3
    <3> QED
      BY <3>2, <3>3, <3>4
  <2> HIDE DEF k
  <2>2. k(i) = k(j)
    BY <2>1 DEF StrictInv, HostsDistinct
  <2> QED
    BY <1>3, <1>4, <2>2 DEF k
<1>7. FillSequential'
  <2>1. \A i \in 1 .. Len(dest_caps) :
          \E m \in 1 .. filled : dest_caps[i].host = Destinations[m]
    BY DEF StrictInv, FillSequential, DropFull
  <2>2. \A i \in 1 .. Len(dest_caps') :
          \E j \in 1 .. Len(dest_caps) : dest_caps'[i] = dest_caps[j]
    BY <1>3, <1>4
  <2> QED
    BY <1>1, <1>2, <2>1, <2>2 DEF FillSequential
<1>8. RequestsStrict' /\ CommittedFits'
  BY <1>1, <1>2 DEF StrictInv, RequestsStrict, CommittedFits
<1> QED
  BY <1>2, <1>5, <1>6, <1>7, <1>8 DEF StrictInv, CapsPositive

\* Steps that leave the deque, the requests and the filling alone.
LEMMA DequeKept ==
    ASSUME StrictInv, TypeInv', load' = load,
           UNCHANGED <<round, req, dest_caps>>,
           \A h \in Hosts : Committed(h)' \subseteq Committed(h),
           \A r \in Rounds, d \in Domains : pc[r][d] = "none" => pc'[r][d] = "none",
           FillSequential', CapsPositive'
    PROVE  StrictInv'
<1>t. TypeOK /\ TypeOK'
  BY DEF StrictInv, TypeInv
<1>1. CommittedFits' /\ \A h \in Hosts : Demand(h)' <= Demand(h)
  BY <1>t, FitsKept DEF StrictInv
<1>2. CapsSafe' /\ HostsDistinct'
  BY <1>t, <1>1, CapsKept DEF StrictInv, HostsDistinct
<1>3. RequestsStrict'
  BY DEF StrictInv, RequestsStrict
<1> QED
  BY <1>1, <1>2, <1>3 DEF StrictInv

LEMMA UnreachableStrict ==
    ASSUME StrictInv, TypeInv', Unreachable
    PROVE  StrictInv'
<1>t. TypeOK /\ round \in Rounds /\ Quiet
  BY DEF StrictInv, TypeInv, RoundStarted, FillSequential, Unreachable
<1>1. \A r \in Rounds, d \in Domains : pc'[r][d] = pc[r][d] \/ pc'[r][d] = "none"
  BY <1>t DEF Unreachable, TypeOK
<1>2. \A h \in Hosts : Committed(h)' \subseteq Committed(h)
  BY <1>1 DEF Committed, Unreachable
<1>3. Quiet'
  BY <1>t, <1>1 DEF Quiet, Busy
<1>4. FillSequential' /\ CapsPositive'
  BY <1>3 DEF FillSequential, CapsPositive, Unreachable
<1> QED
  BY <1>1, <1>2, <1>4, DequeKept DEF Unreachable

LEMMA LaunchStrict ==
    ASSUME StrictInv, TypeInv', Launch
    PROVE  StrictInv'
<1>t. TypeOK /\ round \in Rounds
  BY DEF StrictInv, TypeInv, RoundStarted, Launch
<1>1. \A r \in Rounds, d \in Domains :
        pc'[r][d] = pc[r][d] \/ (pc[r][d] = "listed" /\ pc'[r][d] = "check")
  BY <1>t DEF Launch, TypeOK
<1>2. \A h \in Hosts : Committed(h)' \subseteq Committed(h)
  BY <1>1 DEF Committed, Launch
<1>3. \A i \in 1 .. Len(dest_caps) : dest_caps[i].cap >= 1
  <2>1. ~req[round].ob
    BY <1>t DEF StrictInv, RequestsStrict, Rounds
  <2>2. \A i \in 1 .. Len(dest_caps) : ~(dest_caps[i].cap < 1)
    BY <1>t, <2>1, LenProperties DEF Launch, Full, TypeOK
  <2>3. \A i \in 1 .. Len(dest_caps) : dest_caps[i] \in Entry
    BY <1>t, ElementOfSeq DEF TypeOK
  <2> QED
    BY <2>2, <2>3 DEF Entry
<1>4. FillSequential' /\ CapsPositive'
  BY <1>3 DEF FillSequential, CapsPositive, Launch
<1> QED
  BY <1>1, <1>2, <1>4, DequeKept DEF Launch

\* A task that is alive belongs to a strict round and keeps the filling away.
LEMMA BusyFacts ==
    ASSUME StrictInv, NEW r \in Rounds, NEW d \in Domains, pc[r][d] \in Busy
    PROVE  /\ stage # "fill"
           /\ ~req[r].ob /\ req[r].mode \in {"compact", "scatter"}
           /\ \A i \in 1 .. Len(dest_caps) : dest_caps[i].cap >= 1
<1>1. ~Quiet
  BY DEF Quiet
<1>2. r \in Nat /\ round \in Nat
  BY Parameters DEF StrictInv, TypeInv, TypeOK, Rounds, Parameters
<1>3. r <= round
  BY <1>2 DEF StrictInv, RequestsStrict, Busy
<1> QED
  BY <1>1, <1>3 DEF StrictInv, FillSequential, CapsPositive, RequestsStrict

\* A task that goes on without touching the deque.
LEMMA TaskStrict ==
    ASSUME StrictInv, TypeInv', NEW r \in Rounds, NEW d \in Domains,
           pc[r][d] \in Busy, NEW state \in TaskStates, Goto(r, d, state),
           load' = load, UNCHANGED <<round, req, stage, filled, dest_caps>>,
           \A h \in Hosts : Committed(h)' \subseteq Committed(h)
    PROVE  StrictInv'
<1>1. /\ stage # "fill"
      /\ \A i \in 1 .. Len(dest_caps) : dest_caps[i].cap >= 1
  BY BusyFacts
<1>2. \A x \in Rounds, y \in Domains :
        pc'[x][y] = IF x = r /\ y = d THEN state ELSE pc[x][y]
  BY GotoFacts DEF StrictInv, TypeInv
<1>3. FillSequential' /\ CapsPositive'
  BY <1>1 DEF FillSequential, CapsPositive
<1> QED
  BY <1>2, <1>3, DequeKept DEF Busy

LEMMA CheckStrict ==
    ASSUME StrictInv, TypeInv', NEW r \in Rounds, NEW d \in Domains, Check(r, d)
    PROVE  StrictInv'
<1>1. PICK state \in {"failed", "refused", "take"} : Goto(r, d, state)
  BY DEF Check
<1>2. \A x \in Rounds, y \in Domains : pc'[x][y] = "migrate" => pc[x][y] = "migrate"
  BY <1>1, GotoFacts DEF StrictInv, TypeInv, TaskStates
<1>3. \A h \in Hosts : Committed(h)' \subseteq Committed(h)
  BY <1>2 DEF Committed, Check
<1> QED
  BY <1>1, <1>3, TaskStrict DEF Check, At, Busy, TaskStates

LEMMA MigrateStrict ==
    ASSUME StrictInv, TypeInv', NEW r \in Rounds, NEW d \in Domains, Migrate(r, d)
    PROVE  StrictInv'
<1>t. TypeOK /\ DestSet
  BY DEF StrictInv, TypeInv
<1>1. PICK state \in {"moved", "failed"} : Goto(r, d, state)
  BY DEF Migrate
<1>2. \A x \in Rounds, y \in Domains : pc'[x][y] = "migrate" => pc[x][y] = "migrate"
  BY <1>1, <1>t, GotoFacts DEF TaskStates
<1>3. pc[r][d] = "migrate"
  BY DEF Migrate, At
<1>4. ASSUME NEW h \in Hosts, NEW y \in Committed(h)'
      PROVE  y \in Committed(h)
  <2>1. y \in Domains /\ dest' = dest
    BY DEF Committed, Migrate
  <2>2. CASE where'[y] = h /\ where[y] # h
    BY <1>t, <1>3, <2>1, <2>2 DEF Migrate, Committed, TypeOK
  <2>3. CASE where[y] = h
    BY <2>1, <2>3 DEF Committed
  <2>4. CASE \E x \in Rounds : pc'[x][y] = "migrate" /\ dest'[x][y] = h
    BY <1>2, <2>1, <2>4 DEF Committed
  <2> QED
    BY <2>2, <2>3, <2>4 DEF Committed
<1> QED
  BY <1>1, <1>3, <1>4, TaskStrict DEF Migrate, Busy, TaskStates

\* What a strict mode leaves of the deque: entries of it, none twice, and none
\* without capacity.
LEMMA RearrangedStrict ==
    ASSUME NEW dc \in Seq(Entry), dc # <<>>, NEW mode \in {"compact", "scatter"},
           NEW q \in Rearranged(dc, mode, FALSE),
           \A i, j \in 1 .. Len(dc) : dc[i].host = dc[j].host => i = j,
           \A i \in 2 .. Len(dc) : dc[i].cap >= 1
    PROVE  /\ \A i \in 1 .. Len(q) : \E j \in 1 .. Len(dc) : q[i] = dc[j]
           /\ \A i, j \in 1 .. Len(q) : q[i].host = q[j].host => i = j
           /\ \A i \in 1 .. Len(q) : q[i].cap >= 1
<1>1. /\ Len(dc) \in Nat \ {0} /\ Head(dc) = dc[1] /\ dc[1] \in Entry
      /\ Len(Tail(dc)) = Len(dc) - 1
      /\ \A i \in 1 .. Len(Tail(dc)) : Tail(dc)[i] = dc[i + 1]
  BY HeadTailProperties, EmptySeq, ElementOfSeq
<1>2. CASE q = dc /\ dc[1].cap >= 1
  BY <1>1, <1>2
<1>3. CASE q = Tail(dc)
  BY <1>1, <1>3
<1>4. CASE q = Rotate(dc) /\ dc[1].cap >= 1
  <2>1. /\ Len(q) = Len(dc)
        /\ \A i \in 1 .. Len(dc) - 1 : q[i] = dc[i + 1]
        /\ q[Len(dc)] = dc[1]
    BY <1>4, RotateFacts
  <2> DEFINE k(i) == IF i = Len(dc) THEN 1 ELSE i + 1
  <2>l. Len(dc) \in Nat \ {0}
    BY <1>1
  <2>2. ASSUME NEW i \in 1 .. Len(q)
        PROVE  k(i) \in 1 .. Len(dc) /\ q[i] = dc[k(i)]
    <3>1. CASE i = Len(dc)
      BY <2>l, <2>1, <3>1
    <3>2. CASE i \in 1 .. Len(dc) - 1
      BY <2>l, <2>1, <3>2
    <3> QED
      BY <2>l, <2>1, <3>1, <3>2
  <2>3. \A i, j \in 1 .. Len(q) : k(i) = k(j) => i = j
    BY <2>l, <2>1
  <2>4. \A i \in 1 .. Len(dc) : dc[i].cap >= 1
    BY <1>1, <1>4
  <2> HIDE DEF k
  <2> QED
    BY <2>2, <2>3, <2>4
<1> QED
  BY <1>1, <1>2, <1>3, <1>4 DEF Rearranged, Entry

LEMMA TakeStrict ==
    ASSUME StrictInv, TypeInv', NEW r \in Rounds, NEW d \in Domains, Take(r, d)
    PROVE  StrictInv'
<1>t. TypeOK /\ TypeOK'
  BY DEF StrictInv, TypeInv
<1>b. pc[r][d] = "take" /\ pc[r][d] \in Busy
  BY DEF Take, At, Busy
<1>f. /\ stage # "fill"
      /\ ~req[r].ob /\ req[r].mode \in {"compact", "scatter"}
      /\ \A i \in 1 .. Len(dest_caps) : dest_caps[i].cap >= 1
  BY <1>b, BusyFacts
<1>1. CASE dest_caps = <<>>
  <2>1. Goto(r, d, "undefined") /\ UNCHANGED <<round, req, stage, filled, dest_caps, dest, where, load>>
    BY <1>1 DEF Take
  <2>2. \A x \in Rounds, y \in Domains : pc'[x][y] = "migrate" => pc[x][y] = "migrate"
    BY <1>t, <2>1, GotoFacts DEF TaskStates
  <2>3. \A h \in Hosts : Committed(h)' \subseteq Committed(h)
    BY <2>1, <2>2 DEF Committed
  <2> QED
    BY <1>b, <2>1, <2>3, TaskStrict DEF TaskStates
<1>2. CASE dest_caps # <<>>
  <2> DEFINE dc == Decremented(dest_caps)
  <2>e. dest_caps[1] \in Entry
    BY <1>2, <1>t, EmptySeq, ElementOfSeq DEF TypeOK
  <2>g. dest_caps[1].host \in Hosts /\ dest_caps[1].cap \in Int
    BY <2>e DEF Entry
  <2>p. PICK g \in Hosts : g = dest_caps[1].host
    BY <2>g
  <2>a. /\ Goto(r, d, "migrate")
        /\ dest' = [dest EXCEPT ![r][d] = g]
        /\ dest_caps' \in Rearranged(dc, req[r].mode, FALSE)
        /\ UNCHANGED <<round, req, stage, filled, where, load>>
    <3>1. req[r].ob = FALSE
      BY <1>f, <1>t DEF TypeOK
    <3> QED
      BY <1>2, <2>p, <3>1 DEF Take, Decremented
  <2>c. /\ dc \in Seq(Entry) /\ dc # <<>> /\ Len(dc) = Len(dest_caps)
        /\ Len(dest_caps) \in Nat \ {0}
        /\ dc[1].host = g /\ dc[1].cap = dest_caps[1].cap - 1
        /\ \A i \in 2 .. Len(dc) : dc[i] = dest_caps[i]
    BY <1>2, <1>t, <2>p, DecrementedFacts DEF TypeOK
  <2> HIDE DEF dc
  <2>h. \A i \in 1 .. Len(dc) : dc[i].host = dest_caps[i].host
    BY <2>c, <2>p
  <2>1. /\ \A i \in 1 .. Len(dest_caps') : \E j \in 1 .. Len(dc) : dest_caps'[i] = dc[j]
        /\ HostsDistinct'
        /\ \A i \in 1 .. Len(dest_caps') : dest_caps'[i].cap >= 1
    <3>1. \A i, j \in 1 .. Len(dc) : dc[i].host = dc[j].host => i = j
      BY <2>c, <2>h DEF StrictInv, HostsDistinct
    <3>2. \A i \in 2 .. Len(dc) : dc[i].cap >= 1
      BY <1>f, <2>c
    <3>3. /\ \A i \in 1 .. Len(dest_caps') : \E j \in 1 .. Len(dc) : dest_caps'[i] = dc[j]
          /\ \A i, j \in 1 .. Len(dest_caps') :
               dest_caps'[i].host = dest_caps'[j].host => i = j
          /\ \A i \in 1 .. Len(dest_caps') : dest_caps'[i].cap >= 1
      BY <1>f, <2>a, <2>c, <3>1, <3>2, RearrangedStrict
    <3> QED
      BY <3>3 DEF HostsDistinct
  <2>2. \A x \in Rounds, y \in Domains :
          pc'[x][y] = IF x = r /\ y = d THEN "migrate" ELSE pc[x][y]
    BY <1>t, <2>a, GotoFacts DEF TaskStates
  <2>3. \A x \in Rounds, y \in Domains :
          dest'[x][y] = IF x = r /\ y = d THEN g ELSE dest[x][y]
    <3>1. dest \in [Rounds -> [Domains -> Hosts \cup {None}]] /\ g \in Hosts \cup {None}
      BY <1>t, <2>g DEF TypeOK
    <3> QED
      BY <2>a, <3>1, TableExcept
  <2>4. /\ Committed(g)' \subseteq Committed(g) \cup {d}
        /\ \A h \in Hosts : h # g => Committed(h)' \subseteq Committed(h)
    BY <2>a, <2>2, <2>3 DEF Committed
  <2>5. Demand(g)' <= Demand(g) + 1 /\ \A h \in Hosts : h # g => Demand(h)' <= Demand(h)
    BY <1>t, <2>a, <2>g, <2>4, DemandGrows, DemandShrinks
  <2>6. dest_caps[1].cap + Demand(g) <= Cpus[g]
    BY <2>c, <2>p DEF StrictInv, CapsSafe
  <2>7. CapsSafe'
    <3> SUFFICES ASSUME NEW h \in Hosts, NEW i \in 1 .. Len(dest_caps'), dest_caps'[i].host = h
                 PROVE  dest_caps'[i].cap + Demand(h)' <= Cpus[h]
      BY DEF CapsSafe
    <3>1. PICK j \in 1 .. Len(dc) : dest_caps'[i] = dc[j]
      BY <2>1
    <3>2. Demand(h) \in Nat /\ Demand(h)' \in Nat /\ Cpus[h] \in Nat
      BY <1>t, DemandType
    <3>3. CASE j = 1
      BY <2>c, <2>g, <2>5, <2>6, <3>1, <3>2, <3>3
    <3>4. CASE j # 1
      <4>1. dc[j] = dest_caps[j] /\ j \in 1 .. Len(dest_caps)
        BY <2>c, <3>4
      <4>2. h # g
        BY <2>c, <2>p, <3>1, <3>4, <4>1 DEF StrictInv, HostsDistinct
      <4>e. dest_caps[j] \in Entry
        BY <1>t, <4>1, ElementOfSeq DEF TypeOK
      <4>3. dest_caps[j].cap \in Int
        BY <4>e DEF Entry
      <4> QED
        BY <2>5, <3>1, <3>2, <4>1, <4>2, <4>3 DEF StrictInv, CapsSafe
    <3> QED
      BY <3>3, <3>4
  <2>8. CommittedFits'
    <3> SUFFICES ASSUME NEW h \in Hosts, Committed(h)' # {}
                 PROVE  Demand(h)' <= Cpus[h]
      BY DEF CommittedFits
    <3>1. Demand(h) \in Nat /\ Demand(h)' \in Nat /\ Cpus[h] \in Nat
      BY <1>t, DemandType
    <3>2. CASE h = g
      BY <1>f, <2>c, <2>g, <2>5, <2>6, <3>1, <3>2
    <3>3. CASE h # g
      BY <2>4, <2>5, <3>1, <3>3 DEF StrictInv, CommittedFits
    <3> QED
      BY <3>2, <3>3
  <2>9. FillSequential' /\ CapsPositive' /\ RequestsStrict'
    <3>1. FillSequential' /\ CapsPositive'
      BY <1>f, <2>a, <2>1 DEF FillSequential, CapsPositive
    <3>2. RequestsStrict'
      BY <1>b, <2>a, <2>2 DEF StrictInv, RequestsStrict
    <3> QED
      BY <3>1, <3>2
  <2> QED
    BY <2>1, <2>7, <2>8, <2>9 DEF StrictInv
<1> QED
  BY <1>1, <1>2

LEMMA StrictInit == Init => StrictInv
<1> SUFFICES ASSUME Init PROVE StrictInv
  OBVIOUS
<1>1. TypeInv
  BY TypeInit
<1>2. Len(dest_caps) = 0 /\ Quiet
  BY EmptySeq DEF Init, Quiet, Busy
<1>3. \A h \in Hosts : Committed(h) = {}
  BY Parameters DEF Init, Committed, Parameters
<1>4. RequestsStrict
  BY Parameters DEF Init, RequestsStrict, Rounds, Parameters
<1> QED
  BY <1>1, <1>2, <1>3, <1>4
     DEF Init, StrictInv, CapsSafe, HostsDistinct, FillSequential, CapsPositive, CommittedFits

\* A round that is not strict stays in the history: a strict history was
\* strict one step earlier, and so is the request that ends it.
LEMMA StrictHistory ==
    ASSUME TypeInv, [Next]_vars, StrictSoFar'
    PROVE  /\ StrictSoFar
           /\ \A mode \in Modes, ob \in Overbookings :
                Request(mode, ob) => ob = FALSE /\ mode \in {"compact", "scatter"}
<1>t. TypeOK /\ round \in Nat
  BY Parameters DEF TypeInv, TypeOK, Parameters
<1>1. ASSUME NEW mode \in Modes, NEW ob \in Overbookings, Request(mode, ob)
      PROVE  StrictSoFar /\ ob = FALSE /\ mode \in {"compact", "scatter"}
  <2>1. round' = round + 1 /\ round < MaxRounds
    BY <1>1 DEF Request
  <2>2. round + 1 \in Rounds /\ 1 .. round \subseteq Rounds
    BY <1>t, <2>1, Parameters DEF Rounds, Parameters
  <2>3. /\ req'[round + 1] = [mode |-> mode, ob |-> ob]
        /\ \A r \in 1 .. round : req'[r] = req[r]
    BY <1>t, <1>1, <2>2 DEF Request, TypeOK
  <2>4. ~ob /\ mode \in {"compact", "scatter"}
    BY <1>t, <2>1, <2>3 DEF StrictSoFar
  <2>5. ob \in BOOLEAN
    BY Parameters DEF Parameters
  <2>6. StrictSoFar
    BY <1>t, <2>1, <2>3 DEF StrictSoFar
  <2> QED
    BY <2>4, <2>5, <2>6
<1>2. CASE UNCHANGED <<round, req>>
  <2>1. StrictSoFar
    BY <1>2 DEF StrictSoFar
  <2>2. ASSUME NEW mode, NEW ob, Request(mode, ob) PROVE FALSE
    BY <1>t, <1>2, <2>2 DEF Request
  <2> QED
    BY <2>1, <2>2
<1>3. UNCHANGED <<round, req>> \/ \E mode \in Modes, ob \in Overbookings : Request(mode, ob)
  BY DEF Next, vars, EmplaceBack, Unreachable, DropFull, Launch, Check, Take, Migrate
<1> QED
  BY <1>1, <1>2, <1>3

LEMMA StrictNext ==
    ASSUME TypeInv, StrictSoFar => StrictInv, [Next]_vars
    PROVE  StrictSoFar' => StrictInv'
<1> SUFFICES ASSUME StrictSoFar' PROVE StrictInv'
  OBVIOUS
<1>t. TypeInv'
  BY TypeNext
<1>s. StrictInv /\ ~Overlap
  BY StrictHistory DEF StrictSoFar
<1>1. CASE UNCHANGED vars
  BY <1>1, <1>s, <1>t DEF vars, StrictInv, CapsSafe, HostsDistinct, FillSequential, CapsPositive,
     RequestsStrict, CommittedFits, Committed, Demand, Quiet
<1>2. ASSUME NEW mode \in Modes, NEW ob \in Overbookings, Request(mode, ob)
      PROVE  StrictInv'
  <2>1. ob = FALSE /\ mode \in {"compact", "scatter"}
    BY <1>2, StrictHistory
  <2> QED
    BY <1>2, <1>s, <1>t, <2>1, RequestStrict
<1>3. CASE EmplaceBack \/ Unreachable \/ Launch \/ \E n \in DOMAIN dest_caps : DropFull(n)
  BY <1>3, <1>s, <1>t, EmplaceBackStrict, UnreachableStrict, DropFullStrict, LaunchStrict
<1>4. CASE \E r \in Rounds, d \in Domains : Check(r, d) \/ Take(r, d) \/ Migrate(r, d)
  BY <1>4, <1>s, <1>t, CheckStrict, TakeStrict, MigrateStrict
<1> QED
  BY <1>1, <1>2, <1>3, <1>4 DEF Next

\* As long as no request has allowed overbooking or used a mode that does not
\* drop full hosts, no evacuation overbooks a host: for any number of domains,
\* hosts and rounds, any capacities, any interleaving of the tasks and any
\* pattern of failing migrations.
THEOREM StrictNeverOverbooks == Spec => []NoOverbooking
<1> DEFINE Inv == TypeInv /\ (StrictSoFar => StrictInv)
<1>1. Inv /\ [Next]_vars => Inv'
  BY TypeNext, StrictNext
<1>i. Init => Inv
  BY TypeInit, StrictInit
<1>2. Inv => NoOverbooking
  <2> SUFFICES ASSUME StrictInv, NEW h \in Hosts, ActiveDomains(h) # {}
               PROVE  load[h] + Cardinality(ActiveDomains(h)) <= Cpus[h]
    BY DEF NoOverbooking
  <2>1. ActiveDomains(h) \subseteq Committed(h)
    BY DEF ActiveDomains, Committed
  <2>2. /\ IsFiniteSet(Committed(h)) /\ Cardinality(Committed(h)) \in Nat
    BY CommittedFinite
  <2>3. /\ Cardinality(ActiveDomains(h)) <= Cardinality(Committed(h))
        /\ Cardinality(ActiveDomains(h)) \in Nat
    BY <2>1, <2>2, FS_Subset, FS_CardinalityType
  <2>4. load[h] + Cardinality(Committed(h)) <= Cpus[h]
    BY <2>1 DEF StrictInv, CommittedFits, Demand
  <2>5. load[h] \in Nat /\ Cpus[h] \in Nat
    BY Parameters DEF StrictInv, TypeInv, TypeOK, Parameters
  <2> QED
    BY <2>2, <2>3, <2>4, <2>5
<1> QED
  BY <1>1, <1>2, <1>i, PTL DEF Spec

-----------------------------------------------------------------------------
(* How the modes share the domains among the destinations. *)

\* The state of the latest round: what it gave to each host, and the capacity
\* each host had when it began.
Given == [h \in Hosts |-> Assigned(h)]

Rooms == [h \in Hosts |-> Room(h)]

\* Host g comes before host h in the message.
Before(g, h) ==
    \E a, b \in 1 .. Len(Destinations) :
        a < b /\ Destinations[a] = g /\ Destinations[b] = h

\* The deque dc has an entry of host h.
Holds(dc, h) == \E i \in 1 .. Len(dc) : dc[i].host = h

\* The deque after the capacities R of the first m destinations were read and
\* some full ones erased.
Filling(dc, R, ob, m) ==
    /\ \A i \in 1 .. Len(dc) :
         /\ \E a \in 1 .. m : dc[i].host = Destinations[a]
         /\ dc[i].cap = R[dc[i].host]
    /\ \A i, j \in 1 .. Len(dc) : i < j => Before(dc[i].host, dc[j].host)
    /\ \A a \in 1 .. m :
         Holds(dc, Destinations[a]) \/ (~ob /\ R[Destinations[a]] < 1)

\* Entries count down from R by what the hosts were given (A), and a host is
\* only missing when it got all it had room for.
Counted(dc, A, R) ==
    /\ \A i \in 1 .. Len(dc) :
         dc[i].host \in Listed /\ dc[i].cap = R[dc[i].host] - A[dc[i].host]
    /\ \A i, j \in 1 .. Len(dc) : dc[i].host = dc[j].host => i = j
    /\ \A h \in Listed : Holds(dc, h) \/ A[h] >= R[h]

\* Mode scatter: the front has been given least, and nobody is two ahead.
Scattered(dc, A) ==
    /\ \A i, j \in 1 .. Len(dc) : i < j => A[dc[i].host] <= A[dc[j].host]
    /\ \A h \in Listed, i \in 1 .. Len(dc) : A[h] <= A[dc[i].host] + 1

\* Mode compact: entries with capacity are in the order of the message, and a
\* host is used only when those before it are full.
Compacted(dc, A, R) ==
    /\ \A i, j \in 1 .. Len(dc) :
         i < j /\ dc[j].cap >= 1 => Before(dc[i].host, dc[j].host)
    /\ \A g, h \in Listed : Before(g, h) /\ A[h] > 0 => A[g] >= R[g]

\* The host that the round starts with.
First(h, R, ob) ==
    \E n \in 1 .. Len(Destinations) :
        /\ h = Destinations[n]
        /\ \A i \in 1 .. n - 1 : ~ob /\ R[Destinations[i]] < 1

\* Mode auto: from the first pick on the deque is sorted, and a host that was
\* picked from the sorted deque is level with the others.
Levelled(dc, A, R, ob) ==
    /\ \/ \A i, j \in 1 .. Len(dc) : i < j => dc[i].cap >= dc[j].cap
       \/ /\ \A h \in Hosts : A[h] = 0
          /\ Len(dc) > 0 => First(dc[1].host, R, ob)
    /\ \A h \in Listed :
         A[h] > (IF First(h, R, ob) THEN 1 ELSE 0) =>
             \A i \in 1 .. Len(dc) : dc[i].cap <= R[h] - A[h] + 1

Shared(dc, A, R, mode, ob) ==
    /\ Counted(dc, A, R)
    /\ mode = "scatter" => Scattered(dc, A)
    /\ mode = "compact" => Compacted(dc, A, R)
    /\ mode = "auto" => Levelled(dc, A, R, ob)

\* Only the tasks of the latest round are alive, their domains are still here,
\* and a task has a destination only from its pick on.
TasksOfRound ==
    \A r \in Rounds, d \in Domains :
        /\ r > round => pc[r][d] = "none"
        /\ (r < round => pc[r][d] \notin Busy \cup {"listed"})
        /\ (pc[r][d] \in Busy \cup {"listed"} => where[d] = Local)
        /\ (pc[r][d] \in TaskStates \ {"migrate", "moved", "failed"} => dest[r][d] = None)
        /\ stage = "fill" /\ r = round => pc[r][d] \in {"none", "listed"}
        /\ (stage = "idle" => pc[r][d] # "listed")

\* The tasks of the latest round have been launched.
Launched ==
    round > 0 /\ stage = "idle" /\ \E d \in Domains : pc[round][d] # "none"

\* The inductive strengthening of the properties of the modes, for evacuations
\* that do not overlap.
ShareInv ==
    /\ TypeInv
    /\ TasksOfRound
    /\ stage = "fill" => Filling(dest_caps, Rooms, req[round].ob, filled)
    /\ Launched => Shared(dest_caps, Given, Rooms, req[round].mode, req[round].ob)
    /\ RefusedOnlyWhenFull

\* Sorting permutes the entries.
LEMMA SortedFacts ==
    ASSUME NEW dc \in Seq(Entry), NEW q \in Sorted(dc)
    PROVE  /\ Len(q) = Len(dc)
           /\ \A i, j \in 1 .. Len(q) : i < j => q[i].cap >= q[j].cap
           /\ \E p \in [1 .. Len(q) -> 1 .. Len(dc)] :
                /\ \A i \in 1 .. Len(q) : q[i] = dc[p[i]]
                /\ \A i, j \in 1 .. Len(q) : p[i] = p[j] => i = j
                /\ \A j \in 1 .. Len(dc) : \E i \in 1 .. Len(q) : p[i] = j
<1>1. Len(dc) \in Nat /\ DOMAIN dc = 1 .. Len(dc)
  BY LenProperties
<1>2. PICK p \in [DOMAIN dc -> DOMAIN dc] :
        /\ q = [i \in DOMAIN dc |-> dc[p[i]]]
        /\ \A i, j \in DOMAIN dc : p[i] = p[j] => i = j
  BY DEF Sorted, Permuted
<1>3. q \in Seq(Entry) /\ DOMAIN q = 1 .. Len(dc)
  BY <1>1, <1>2, SortedType
<1>4. Len(q) = Len(dc)
  <2>1. Len(q) \in Nat /\ DOMAIN q = 1 .. Len(q)
    BY <1>3, LenProperties
  <2> QED
    BY <1>1, <1>3, <2>1
<1>5. \A i, j \in 1 .. Len(q) : i < j => q[i].cap >= q[j].cap
  BY <1>3, <1>4 DEF Sorted, Descending
<1>6. p \in Surjection(1 .. Len(dc), 1 .. Len(dc))
  <2>1. p \in Injection(1 .. Len(dc), 1 .. Len(dc))
    BY <1>1, <1>2 DEF Injection, IsInjective
  <2>2. IsFiniteSet(1 .. Len(dc))
    BY <1>1, FS_Interval
  <2> QED
    BY <2>1, <2>2, FS_Injection
<1>7. \A j \in 1 .. Len(dc) : \E i \in 1 .. Len(dc) : p[i] = j
  BY <1>6 DEF Surjection
<1> QED
  BY <1>1, <1>2, <1>4, <1>5, <1>7

\* Whatever the mode, what is left are entries of the deque, none of them
\* twice, and only a front without capacity is dropped.
LEMMA RearrangedFacts ==
    ASSUME NEW dc \in Seq(Entry), dc # <<>>, NEW mode \in AllModes,
           NEW ob \in BOOLEAN, NEW q \in Rearranged(dc, mode, ob)
    PROVE  \E p \in [1 .. Len(q) -> 1 .. Len(dc)] :
             /\ \A i \in 1 .. Len(q) : q[i] = dc[p[i]]
             /\ \A i, j \in 1 .. Len(q) : p[i] = p[j] => i = j
             /\ \A j \in 1 .. Len(dc) :
                  (\E i \in 1 .. Len(q) : p[i] = j) \/ (j = 1 /\ ~ob /\ dc[1].cap < 1)
<1>1. /\ Len(dc) \in Nat \ {0} /\ Head(dc) = dc[1] /\ dc[1] \in Entry
      /\ Len(Tail(dc)) = Len(dc) - 1
      /\ \A i \in 1 .. Len(Tail(dc)) : Tail(dc)[i] = dc[i + 1]
  BY HeadTailProperties, EmptySeq, ElementOfSeq
<1>c. dc[1].cap \in Int
  BY <1>1 DEF Entry
<1> DEFINE n == Len(dc)
<1>2. CASE q = dc
  <2> DEFINE p == [i \in 1 .. n |-> i]
  <2>1. p \in [1 .. Len(q) -> 1 .. Len(dc)] /\ \A i \in 1 .. Len(q) : p[i] = i
    BY <1>2
  <2> HIDE DEF p
  <2> QED
    BY <1>2, <2>1
<1>3. CASE q = Tail(dc) /\ ~ob /\ dc[1].cap < 1
  <2> DEFINE p == [i \in 1 .. n - 1 |-> i + 1]
  <2>1. Len(q) = n - 1 /\ p \in [1 .. Len(q) -> 1 .. Len(dc)]
    BY <1>1, <1>3
  <2>2. \A i \in 1 .. Len(q) : q[i] = dc[p[i]]
    BY <1>1, <1>3
  <2>3. \A j \in 1 .. Len(dc) : (\E i \in 1 .. Len(q) : p[i] = j) \/ j = 1
    <3> SUFFICES ASSUME NEW j \in 1 .. Len(dc), j # 1
                 PROVE  \E i \in 1 .. Len(q) : p[i] = j
      OBVIOUS
    <3>1. j - 1 \in 1 .. Len(q) /\ p[j - 1] = j
      BY <1>1, <2>1
    <3> QED
      BY <3>1
  <2>4. \A i, j \in 1 .. Len(q) : p[i] = p[j] => i = j
    BY <1>1, <2>1
  <2> HIDE DEF p
  <2> QED
    BY <1>3, <2>1, <2>2, <2>3, <2>4
<1>4. CASE q = Rotate(dc)
  <2> DEFINE p == [i \in 1 .. n |-> IF i = n THEN 1 ELSE i + 1]
  <2>n. n \in Nat \ {0} /\ n = Len(dc)
    BY <1>1
  <2>r. /\ Len(q) = n
        /\ \A i \in 1 .. n - 1 : q[i] = dc[i + 1]
        /\ q[n] = dc[1]
    BY <1>4, RotateFacts
  <2> HIDE DEF n
  <2>p. \A i \in 1 .. n : p[i] = IF i = n THEN 1 ELSE i + 1
    OBVIOUS
  <2>1. p \in [1 .. n -> 1 .. n]
    BY <2>n
  <2> HIDE DEF p
  <2>2. ASSUME NEW i \in 1 .. n
        PROVE  q[i] = dc[p[i]]
    <3>1. CASE i = n
      BY <2>r, <2>p, <3>1
    <3>2. CASE i # n
      <4>1. i \in 1 .. n - 1 /\ p[i] = i + 1
        BY <2>n, <2>p, <3>2
      <4> QED
        BY <2>r, <4>1
    <3> QED
      BY <3>1, <3>2
  <2>3. ASSUME NEW j \in 1 .. n
        PROVE  \E i \in 1 .. n : p[i] = j
    <3>1. CASE j = 1
      BY <2>n, <2>p, <3>1
    <3>2. CASE j # 1
      <4>1. j - 1 \in 1 .. n /\ j - 1 # n /\ j - 1 + 1 = j
        BY <2>n, <3>2
      <4> QED
        BY <2>p, <4>1
    <3> QED
      BY <3>1, <3>2
  <2>4. \A i, j \in 1 .. n : p[i] = p[j] => i = j
    BY <2>n, <2>p
  <2>5. /\ p \in [1 .. Len(q) -> 1 .. Len(dc)]
        /\ \A i \in 1 .. Len(q) : q[i] = dc[p[i]]
        /\ \A i, j \in 1 .. Len(q) : p[i] = p[j] => i = j
        /\ \A j \in 1 .. Len(dc) : \E i \in 1 .. Len(q) : p[i] = j
    BY <2>n, <2>r, <2>1, <2>2, <2>3, <2>4
  <2> QED
    BY <2>5
<1>5. CASE q \in Sorted(dc)
  <2>1. PICK p \in [1 .. Len(q) -> 1 .. Len(dc)] :
          /\ \A i \in 1 .. Len(q) : q[i] = dc[p[i]]
          /\ \A i, j \in 1 .. Len(q) : p[i] = p[j] => i = j
          /\ \A j \in 1 .. Len(dc) : \E i \in 1 .. Len(q) : p[i] = j
    BY <1>5, SortedFacts
  <2> QED
    BY <2>1
<1>6. \/ q = dc \/ q = Rotate(dc) \/ q \in Sorted(dc)
      \/ q = Tail(dc) /\ ~ob /\ dc[1].cap < 1
  <2>1. CASE mode = "compact"
    BY <1>1, <1>c, <2>1 DEF Rearranged
  <2>2. CASE mode = "scatter"
    BY <1>1, <2>2 DEF Rearranged
  <2>3. CASE mode = "auto"
    BY <2>3 DEF Rearranged
  <2>4. CASE mode = "other"
    BY <2>4 DEF Rearranged
  <2> QED
    BY <2>1, <2>2, <2>3, <2>4 DEF AllModes
<1> QED
  BY <1>2, <1>3, <1>4, <1>5, <1>6

LEMMA ListedFacts ==
    /\ Len(Destinations) \in Nat
    /\ DOMAIN Destinations = 1 .. Len(Destinations)
    /\ \A n \in 1 .. Len(Destinations) : Destinations[n] \in Hosts
    /\ Listed \subseteq Hosts
    /\ \A n \in 1 .. Len(Destinations) : Destinations[n] \in Listed
    /\ \A h \in Listed : \E n \in 1 .. Len(Destinations) : h = Destinations[n]
BY Parameters, LenProperties, ElementOfSeq DEF Parameters, Listed

\* The message has an order: a host does not come before one that comes
\* before it.
LEMMA BeforeFacts ==
    ASSUME NEW g, NEW h, Before(g, h)
    PROVE  ~Before(h, g) /\ g # h
BY ListedFacts, DistinctDestinations DEF Before, DistinctDestinations

\* What a host is given when it is at the front.
OneMore(A, h) == [A EXCEPT ![h] = @ + 1]

LEMMA OneMoreFacts ==
    ASSUME NEW A \in [Hosts -> Nat], NEW g \in Hosts
    PROVE  /\ OneMore(A, g) \in [Hosts -> Nat]
           /\ OneMore(A, g)[g] = A[g] + 1
           /\ \A h \in Hosts : h # g => OneMore(A, g)[h] = A[h]
           /\ \A h \in Hosts : OneMore(A, g)[h] >= A[h]
BY DEF OneMore

LEMMA FrontFacts ==
    ASSUME NEW dc \in Seq(Entry), dc # <<>>
    PROVE  /\ Len(dc) \in Nat \ {0} /\ 1 \in 1 .. Len(dc)
           /\ \A i \in 1 .. Len(dc) : dc[i].host \in Hosts /\ dc[i].cap \in Int
<1>1. Len(dc) \in Nat \ {0} /\ \A i \in 1 .. Len(dc) : dc[i] \in Entry
  BY EmptySeq, ElementOfSeq
<1> QED
  BY <1>1 DEF Entry

\* Counting down the front keeps the count right.
LEMMA CountedDown ==
    ASSUME NEW dc \in Seq(Entry), dc # <<>>, NEW A \in [Hosts -> Nat],
           NEW R \in [Hosts -> Int], Counted(dc, A, R)
    PROVE  Counted(Decremented(dc), OneMore(A, dc[1].host), R)
<1> DEFINE q == Decremented(dc)
           B == OneMore(A, dc[1].host)
<1>1. /\ Len(dc) \in Nat \ {0} /\ 1 \in 1 .. Len(dc)
      /\ \A i \in 1 .. Len(dc) : dc[i].host \in Hosts /\ dc[i].cap \in Int
  BY FrontFacts
<1>2. PICK g \in Hosts : g = dc[1].host
  BY <1>1
<1>3. /\ B[g] = A[g] + 1
      /\ \A h \in Hosts : h # g => B[h] = A[h]
      /\ \A h \in Hosts : B[h] >= A[h] /\ B[h] \in Nat
  BY <1>2, OneMoreFacts
<1>4. /\ Len(q) = Len(dc) /\ q[1].host = g /\ q[1].cap = dc[1].cap - 1
      /\ \A i \in 2 .. Len(dc) : q[i] = dc[i]
  BY <1>2, DecrementedFacts
<1> HIDE DEF q, B
<1>5. \A i \in 1 .. Len(dc) : q[i].host = dc[i].host
  BY <1>1, <1>2, <1>4
<1>6. ASSUME NEW i \in 1 .. Len(dc)
      PROVE  q[i].host \in Listed /\ q[i].cap = R[q[i].host] - B[q[i].host]
  <2>1. CASE i = 1
    BY <1>1, <1>2, <1>3, <1>4, <2>1 DEF Counted
  <2>2. CASE i # 1
    <3>1. q[i] = dc[i] /\ dc[i].host # g
      BY <1>1, <1>2, <1>4, <2>2 DEF Counted
    <3> QED
      BY <1>1, <1>3, <3>1 DEF Counted
  <2> QED
    BY <2>1, <2>2
<1>7. \A i, j \in 1 .. Len(q) : q[i].host = q[j].host => i = j
  BY <1>4, <1>5 DEF Counted
<1>8. \A h \in Listed : Holds(q, h) \/ B[h] >= R[h]
  <2> SUFFICES ASSUME NEW h \in Listed
               PROVE  Holds(q, h) \/ B[h] >= R[h]
    OBVIOUS
  <2>1. h \in Hosts
    BY ListedFacts
  <2>2. CASE Holds(dc, h)
    BY <1>4, <1>5, <2>2 DEF Holds
  <2>3. CASE A[h] >= R[h]
    BY <1>3, <2>1, <2>3
  <2> QED
    BY <2>2, <2>3 DEF Counted
<1> QED
  BY <1>4, <1>6, <1>7, <1>8 DEF Counted, q, B

\* Rearranging the deque keeps the count right.
LEMMA CountedMoved ==
    ASSUME NEW dc \in Seq(Entry), dc # <<>>, NEW mode \in AllModes, NEW ob \in BOOLEAN,
           NEW q \in Rearranged(dc, mode, ob), NEW A \in [Hosts -> Nat],
           NEW R \in [Hosts -> Int], Counted(dc, A, R)
    PROVE  Counted(q, A, R)
<1>1. PICK p \in [1 .. Len(q) -> 1 .. Len(dc)] :
        /\ \A i \in 1 .. Len(q) : q[i] = dc[p[i]]
        /\ \A i, j \in 1 .. Len(q) : p[i] = p[j] => i = j
        /\ \A j \in 1 .. Len(dc) :
             (\E i \in 1 .. Len(q) : p[i] = j) \/ (j = 1 /\ ~ob /\ dc[1].cap < 1)
  BY RearrangedFacts
<1>2. \A i \in 1 .. Len(q) : q[i].host \in Listed /\ q[i].cap = R[q[i].host] - A[q[i].host]
  BY <1>1 DEF Counted
<1>3. ASSUME NEW i \in 1 .. Len(q), NEW j \in 1 .. Len(q), q[i].host = q[j].host
      PROVE  i = j
  <2>1. p[i] \in 1 .. Len(dc) /\ p[j] \in 1 .. Len(dc)
    BY <1>1
  <2>2. dc[p[i]].host = dc[p[j]].host
    BY <1>1, <1>3
  <2>3. p[i] = p[j]
    BY <2>1, <2>2 DEF Counted
  <2> QED
    BY <1>1, <2>3
<1>4. ASSUME NEW h \in Listed
      PROVE  Holds(q, h) \/ A[h] >= R[h]
  <2>1. CASE ~Holds(dc, h)
    BY <2>1 DEF Counted
  <2>2. CASE Holds(dc, h)
    <3>1. PICK j \in 1 .. Len(dc) : dc[j].host = h
      BY <2>2 DEF Holds
    <3>2. CASE \E i \in 1 .. Len(q) : p[i] = j
      BY <1>1, <3>1, <3>2 DEF Holds
    <3>3. CASE j = 1 /\ dc[1].cap < 1
      <4>1. R[h] - A[h] < 1
        BY <3>1, <3>3 DEF Counted
      <4>2. h \in Hosts
        BY ListedFacts
      <4>3. R[h] \in Int /\ A[h] \in Nat
        BY <4>2
      <4> QED
        BY <4>1, <4>3
    <3> QED
      BY <1>1, <3>2, <3>3
  <2> QED
    BY <2>1, <2>2
<1> QED
  BY <1>2, <1>3, <1>4 DEF Counted

\* The deque after one pick, in terms of what the hosts have been given: the
\* hosts keep their places until the deque is rearranged.
LEMMA PickFacts ==
    ASSUME NEW dc \in Seq(Entry), dc # <<>>, NEW A \in [Hosts -> Nat],
           NEW R \in [Hosts -> Int], Counted(dc, A, R)
    PROVE  /\ Decremented(dc) \in Seq(Entry) /\ Decremented(dc) # <<>>
           /\ Len(Decremented(dc)) = Len(dc) /\ Len(dc) \in Nat \ {0}
           /\ \A i \in 1 .. Len(dc) :
                /\ dc[i].host \in Hosts /\ dc[i].host \in Listed /\ dc[i].cap \in Int
                /\ Decremented(dc)[i].host = dc[i].host
                /\ Decremented(dc)[i].cap \in Int
                /\ Decremented(dc)[i].cap <= dc[i].cap
           /\ \A i \in 2 .. Len(dc) :
                /\ Decremented(dc)[i] = dc[i]
                /\ OneMore(A, dc[1].host)[dc[i].host] = A[dc[i].host]
                /\ dc[i].host # dc[1].host
           /\ Decremented(dc)[1].cap = dc[1].cap - 1
<1>1. /\ Len(dc) \in Nat \ {0} /\ 1 \in 1 .. Len(dc)
      /\ \A i \in 1 .. Len(dc) : dc[i].host \in Hosts /\ dc[i].cap \in Int
  BY FrontFacts
<1>2. /\ Decremented(dc) \in Seq(Entry) /\ Decremented(dc) # <<>>
      /\ Len(Decremented(dc)) = Len(dc)
      /\ Decremented(dc)[1].host = dc[1].host /\ Decremented(dc)[1].cap = dc[1].cap - 1
      /\ \A i \in 2 .. Len(dc) : Decremented(dc)[i] = dc[i]
  BY DecrementedFacts
<1>3. \A i \in 2 .. Len(dc) : i \in 1 .. Len(dc) /\ dc[i].host # dc[1].host
  BY <1>1 DEF Counted
<1>4. \A i \in 2 .. Len(dc) : OneMore(A, dc[1].host)[dc[i].host] = A[dc[i].host]
  BY <1>1, <1>3, OneMoreFacts
<1>5. ASSUME NEW i \in 1 .. Len(dc)
      PROVE  /\ Decremented(dc)[i].host = dc[i].host
             /\ Decremented(dc)[i].cap \in Int
             /\ Decremented(dc)[i].cap <= dc[i].cap
  <2>1. CASE i = 1
    BY <1>1, <1>2, <2>1
  <2>2. CASE i \in 2 .. Len(dc)
    <3>1. Decremented(dc)[i] = dc[i]
      BY <1>2, <2>2
    <3>2. dc[i].cap \in Int
      BY <1>1
    <3> QED
      BY <3>1, <3>2
  <2> QED
    BY <1>1, <2>1, <2>2
<1>6. \A i \in 1 .. Len(dc) : dc[i].host \in Listed
  BY DEF Counted
<1> QED
  BY <1>1, <1>2, <1>3, <1>4, <1>5, <1>6

\* Mode scatter: the front, which had least, goes to the back with one more.
LEMMA ScatterStep ==
    ASSUME NEW dc \in Seq(Entry), dc # <<>>, NEW A \in [Hosts -> Nat],
           NEW R \in [Hosts -> Int], Counted(dc, A, R), Scattered(dc, A),
           NEW ob \in BOOLEAN, NEW q \in Rearranged(Decremented(dc), "scatter", ob)
    PROVE  Scattered(q, OneMore(A, dc[1].host))
<1> DEFINE e == Decremented(dc)
           B == OneMore(A, dc[1].host)
           n == Len(dc)
<1>1. /\ e \in Seq(Entry) /\ e # <<>> /\ Len(e) = n /\ n \in Nat \ {0}
      /\ \A i \in 1 .. n : /\ dc[i].host \in Hosts /\ dc[i].host \in Listed
                           /\ e[i].host = dc[i].host
      /\ \A i \in 2 .. n : B[dc[i].host] = A[dc[i].host]
  BY PickFacts
<1>2. PICK g \in Hosts : g = dc[1].host
  BY <1>1
<1>3. /\ B[g] = A[g] + 1
      /\ \A h \in Hosts : h # g => B[h] = A[h]
      /\ \A h \in Hosts : B[h] >= A[h] /\ B[h] \in Nat /\ A[h] \in Nat
  BY <1>2, OneMoreFacts
<1>4. /\ q = Tail(e) \/ q = Rotate(e)
      /\ Len(Tail(e)) = n - 1 /\ \A i \in 1 .. n - 1 : Tail(e)[i] = e[i + 1]
      /\ Len(Rotate(e)) = n /\ \A i \in 1 .. n - 1 : Rotate(e)[i] = e[i + 1]
      /\ Rotate(e)[n] = e[1]
  <2>1. q = Tail(e) \/ q = Rotate(e)
    BY DEF Rearranged
  <2>2. Len(Tail(e)) = Len(e) - 1 /\ \A i \in 1 .. Len(Tail(e)) : Tail(e)[i] = e[i + 1]
    BY <1>1, HeadTailProperties
  <2>3. /\ Len(Rotate(e)) = Len(e) /\ \A i \in 1 .. Len(e) - 1 : Rotate(e)[i] = e[i + 1]
        /\ Rotate(e)[Len(e)] = e[1]
    BY <1>1, RotateFacts
  <2> QED
    BY <1>1, <2>1, <2>2, <2>3
<1> HIDE DEF e, B, n
<1>5. /\ Len(q) \in {n - 1, n}
      /\ \A i \in 1 .. n - 1 :
           q[i].host = dc[i + 1].host /\ B[q[i].host] = A[dc[i + 1].host]
      /\ Len(q) = n => q[n].host = g
  <2>1. ASSUME NEW i \in 1 .. n - 1
        PROVE  q[i].host = dc[i + 1].host /\ B[q[i].host] = A[dc[i + 1].host]
    <3>1. i + 1 \in 1 .. n /\ i + 1 \in 2 .. n
      BY <1>1
    <3>2. q[i] = e[i + 1]
      BY <1>4
    <3> QED
      BY <1>1, <3>1, <3>2
  <2>2. Len(q) = n => q[n].host = g
    BY <1>1, <1>2, <1>4
  <2> QED
    BY <1>4, <2>1, <2>2
<1>6. \A i, j \in 1 .. n : i < j => A[dc[i].host] <= A[dc[j].host]
  BY DEF Scattered, n
<1>7. \A h \in Listed, i \in 1 .. n : A[h] <= A[dc[i].host] + 1
  BY DEF Scattered, n
<1>8. ASSUME NEW i \in 1 .. Len(q), NEW j \in 1 .. Len(q), i < j
      PROVE  B[q[i].host] <= B[q[j].host]
  <2>i. i \in 1 .. n - 1 /\ i + 1 \in 1 .. n
    BY <1>1, <1>5, <1>8
  <2>1. CASE j \in 1 .. n - 1
    <3>1. j + 1 \in 1 .. n /\ i + 1 < j + 1
      BY <1>1, <1>8, <2>1
    <3> QED
      BY <1>5, <1>6, <2>1, <2>i, <3>1
  <2>2. CASE j = n
    <3>1. Len(q) = n /\ 1 \in 1 .. n
      BY <1>1, <1>5, <2>2
    <3>2. A[dc[i + 1].host] <= A[g] + 1
      BY <1>1, <1>2, <1>7, <2>i, <3>1
    <3> QED
      BY <1>3, <1>5, <2>2, <2>i, <3>1, <3>2
  <2> QED
    BY <1>1, <1>5, <2>1, <2>2
<1>9. ASSUME NEW h \in Listed, NEW i \in 1 .. Len(q)
      PROVE  B[h] <= B[q[i].host] + 1
  <2>h. h \in Hosts
    BY ListedFacts
  <2>1. CASE i = n
    <3>1. Len(q) = n /\ 1 \in 1 .. n
      BY <1>1, <1>5, <2>1
    <3>2. A[h] <= A[g] + 1
      BY <1>2, <1>7, <3>1
    <3>3. q[i].host = g
      BY <1>5, <2>1, <3>1
    <3> QED
      BY <1>3, <2>h, <3>2, <3>3
  <2>2. CASE i \in 1 .. n - 1
    <3>1. i + 1 \in 1 .. n /\ 1 \in 1 .. n /\ 1 < i + 1
      BY <1>1, <2>2
    <3>2. A[g] <= A[dc[i + 1].host] /\ A[h] <= A[dc[i + 1].host] + 1
      BY <1>2, <1>6, <1>7, <3>1
    <3>3. PICK k \in Hosts : k = dc[i + 1].host
      BY <1>1, <3>1
    <3>4. B[q[i].host] = A[k]
      BY <1>5, <2>2, <3>3
    <3>5. A[g] <= A[k] /\ A[h] <= A[k] + 1
      BY <3>2, <3>3
    <3> QED
      BY <1>3, <2>h, <3>4, <3>5
  <2> QED
    BY <1>1, <1>5, <2>1, <2>2
<1> QED
  BY <1>8, <1>9 DEF Scattered, B

\* Mode compact: the front stays until it is full; then every entry before it
\* in the message is full, too.
LEMMA CompactStep ==
    ASSUME NEW dc \in Seq(Entry), dc # <<>>, NEW A \in [Hosts -> Nat],
           NEW R \in [Hosts -> Int], Counted(dc, A, R), Compacted(dc, A, R),
           NEW ob \in BOOLEAN, NEW q \in Rearranged(Decremented(dc), "compact", ob)
    PROVE  Compacted(q, OneMore(A, dc[1].host), R)
<1> DEFINE e == Decremented(dc)
           B == OneMore(A, dc[1].host)
           n == Len(dc)
<1>1. /\ e \in Seq(Entry) /\ e # <<>> /\ Len(e) = n /\ n \in Nat \ {0}
      /\ \A i \in 1 .. n : /\ dc[i].host \in Hosts /\ dc[i].host \in Listed
                           /\ dc[i].cap \in Int /\ e[i].cap \in Int
                           /\ e[i].host = dc[i].host /\ e[i].cap <= dc[i].cap
  BY PickFacts
<1>2. PICK g \in Hosts : g = dc[1].host
  BY <1>1
<1>3. /\ B[g] = A[g] + 1
      /\ \A h \in Hosts : h # g => B[h] = A[h]
      /\ \A h \in Hosts : B[h] >= A[h] /\ B[h] \in Nat /\ A[h] \in Nat
  BY <1>2, OneMoreFacts
<1>4. /\ q = e \/ q = Tail(e) \/ (q = Rotate(e) /\ e[1].cap < 1)
      /\ Len(Tail(e)) = n - 1 /\ \A i \in 1 .. n - 1 : Tail(e)[i] = e[i + 1]
      /\ Len(Rotate(e)) = n /\ \A i \in 1 .. n - 1 : Rotate(e)[i] = e[i + 1]
      /\ Rotate(e)[n] = e[1]
  <2>1. Head(e) = e[1] /\ e[1].cap \in Int
    BY <1>1, HeadTailProperties
  <2>2. q = e \/ q = Tail(e) \/ (q = Rotate(e) /\ e[1].cap < 1)
    BY <2>1 DEF Rearranged
  <2>3. Len(Tail(e)) = Len(e) - 1 /\ \A i \in 1 .. Len(Tail(e)) : Tail(e)[i] = e[i + 1]
    BY <1>1, HeadTailProperties
  <2>4. /\ Len(Rotate(e)) = Len(e) /\ \A i \in 1 .. Len(e) - 1 : Rotate(e)[i] = e[i + 1]
        /\ Rotate(e)[Len(e)] = e[1]
    BY <1>1, RotateFacts
  <2> QED
    BY <1>1, <2>2, <2>3, <2>4
<1> HIDE DEF e, B, n
<1>5. \A i, j \in 1 .. n : i < j /\ e[j].cap >= 1 => Before(e[i].host, e[j].host)
  <2> SUFFICES ASSUME NEW i \in 1 .. n, NEW j \in 1 .. n, i < j, e[j].cap >= 1
               PROVE  Before(dc[i].host, dc[j].host)
    BY <1>1
  <2>1. dc[j].cap >= 1
    BY <1>1
  <2> QED
    BY <2>1 DEF Compacted, n
<1>6. ASSUME NEW i \in 1 .. Len(q), NEW j \in 1 .. Len(q), i < j, q[j].cap >= 1
      PROVE  Before(q[i].host, q[j].host)
  <2>1. CASE q = e
    BY <1>1, <1>5, <1>6, <2>1
  <2>2. CASE j \in 1 .. n - 1 /\ q[i] = e[i + 1] /\ q[j] = e[j + 1]
    <3>1. i + 1 \in 1 .. n /\ j + 1 \in 1 .. n /\ i + 1 < j + 1
      BY <1>1, <1>6, <2>2
    <3> QED
      BY <1>5, <1>6, <2>2, <3>1
  <2>3. CASE q = Tail(e)
    <3>1. i \in 1 .. n - 1 /\ j \in 1 .. n - 1
      BY <1>4, <2>3
    <3>2. q[i] = e[i + 1] /\ q[j] = e[j + 1]
      BY <1>4, <2>3, <3>1
    <3> QED
      BY <2>2, <3>1, <3>2
  <2>4. CASE q = Rotate(e) /\ e[1].cap < 1
    <3>1. i \in 1 .. n - 1 /\ j \in 1 .. n
      BY <1>1, <1>4, <1>6, <2>4
    <3>2. j # n
      BY <1>1, <1>4, <1>6, <2>4
    <3>3. j \in 1 .. n - 1
      BY <1>1, <3>1, <3>2
    <3>4. q[i] = e[i + 1] /\ q[j] = e[j + 1]
      BY <1>4, <2>4, <3>1, <3>3
    <3> QED
      BY <2>2, <3>3, <3>4
  <2> QED
    BY <1>4, <2>1, <2>3, <2>4
<1>7. ASSUME NEW x \in Listed, NEW y \in Listed, Before(x, y), B[y] > 0
      PROVE  B[x] >= R[x]
  <2>h. x \in Hosts /\ y \in Hosts
    BY ListedFacts
  <2>t. B[x] >= A[x] /\ B[x] \in Nat /\ A[x] \in Nat /\ R[x] \in Int
    BY <1>3, <2>h
  <2>1. CASE y # g
    <3>1. A[x] >= R[x]
      BY <1>3, <1>7, <2>h, <2>1 DEF Compacted
    <3> QED
      BY <2>t, <3>1
  <2>2. CASE y = g
    <3>1. SUFFICES ASSUME ~(A[x] >= R[x]) PROVE FALSE
      BY <2>t
    <3>2. PICK i \in 1 .. n : dc[i].host = x
      BY <3>1 DEF Counted, Holds, n
    <3>3. dc[i].cap >= 1
      <4>1. dc[i].cap = R[x] - A[x]
        BY <3>2 DEF Counted, n
      <4> QED
        BY <2>t, <3>1, <4>1
    <3>4. x # g
      BY <1>7, <2>2, BeforeFacts
    <3>5. 1 \in 1 .. n /\ 1 < i
      BY <1>1, <1>2, <3>2, <3>4
    <3>6. Before(g, x)
      BY <1>2, <3>2, <3>3, <3>5 DEF Compacted, n
    <3> QED
      BY <1>7, <2>2, <3>6, BeforeFacts
  <2> QED
    BY <2>1, <2>2
<1> QED
  BY <1>6, <1>7 DEF Compacted, B

\* Mode auto: the front of a sorted deque is the emptiest destination, and
\* sorting starts with the first pick.
LEMMA AutoStep ==
    ASSUME NEW dc \in Seq(Entry), dc # <<>>, NEW A \in [Hosts -> Nat],
           NEW R \in [Hosts -> Int], Counted(dc, A, R), NEW ob \in BOOLEAN,
           Levelled(dc, A, R, ob), NEW q \in Rearranged(Decremented(dc), "auto", ob)
    PROVE  Levelled(q, OneMore(A, dc[1].host), R, ob)
<1> DEFINE e == Decremented(dc)
           B == OneMore(A, dc[1].host)
           n == Len(dc)
<1>1. /\ e \in Seq(Entry) /\ Len(e) = n /\ n \in Nat \ {0}
      /\ \A i \in 1 .. n : /\ dc[i].host \in Hosts /\ dc[i].host \in Listed
                           /\ dc[i].cap \in Int /\ e[i].cap \in Int
                           /\ e[i].cap <= dc[i].cap
      /\ e[1].cap = dc[1].cap - 1
  BY PickFacts
<1>2. PICK g \in Hosts : g = dc[1].host
  BY <1>1
<1>3. /\ B[g] = A[g] + 1
      /\ \A h \in Hosts : h # g => B[h] = A[h]
      /\ \A h \in Hosts : B[h] >= A[h] /\ B[h] \in Nat /\ A[h] \in Nat
  BY <1>2, OneMoreFacts
<1>4. /\ \A i, j \in 1 .. Len(q) : i < j => q[i].cap >= q[j].cap
      /\ \A i \in 1 .. Len(q) : \E j \in 1 .. n : q[i] = e[j]
  <2>1. q \in Sorted(e)
    BY DEF Rearranged
  <2>2. PICK p \in [1 .. Len(q) -> 1 .. Len(e)] :
          /\ \A i \in 1 .. Len(q) : q[i] = e[p[i]]
          /\ \A i, j \in 1 .. Len(q) : p[i] = p[j] => i = j
          /\ \A j \in 1 .. Len(e) : \E i \in 1 .. Len(q) : p[i] = j
    <3> HIDE DEF e
    <3> QED
      BY <1>1, <2>1, SortedFacts
  <2>3. \A i, j \in 1 .. Len(q) : i < j => q[i].cap >= q[j].cap
    BY <1>1, <2>1, SortedFacts
  <2>4. \A i \in 1 .. Len(q) : p[i] \in 1 .. n /\ q[i] = e[p[i]]
    BY <1>1, <2>2
  <2> QED
    BY <2>3, <2>4
<1>5. R[g] \in Int /\ dc[1].cap = R[g] - A[g]
  BY <1>1, <1>2 DEF Counted
<1> HIDE DEF e, B, n
<1>6. ASSUME NEW h \in Listed, B[h] > (IF First(h, R, ob) THEN 1 ELSE 0),
             NEW i \in 1 .. Len(q)
      PROVE  q[i].cap <= R[h] - B[h] + 1
  <2>h. h \in Hosts /\ R[h] \in Int
    BY ListedFacts
  <2>1. PICK j \in 1 .. n : q[i] = e[j]
    BY <1>4
  <2>2. q[i].cap \in Int /\ dc[j].cap \in Int /\ q[i].cap <= dc[j].cap
    BY <1>1, <2>1
  <2>3. CASE h # g
    <3>1. B[h] = A[h]
      BY <1>3, <2>h, <2>3
    <3>2. dc[j].cap <= R[h] - A[h] + 1
      BY <1>6, <3>1 DEF Levelled, n
    <3> QED
      BY <1>3, <2>h, <2>2, <3>1, <3>2
  <2>4. CASE h = g
    <3>1. CASE \A x, y \in 1 .. Len(dc) : x < y => dc[x].cap >= dc[y].cap
      <4>1. dc[j].cap <= dc[1].cap
        <5>1. CASE j = 1
          BY <1>1, <5>1
        <5>2. CASE j # 1
          <6>1. 1 \in 1 .. Len(dc) /\ j \in 1 .. Len(dc) /\ 1 < j
            BY <1>1, <5>2 DEF n
          <6> QED
            BY <1>1, <2>2, <3>1, <6>1
        <5> QED
          BY <5>1, <5>2
      <4>2. dc[j].cap <= R[g] - A[g] /\ B[g] = A[g] + 1 /\ A[g] \in Nat
        BY <1>3, <1>5, <4>1
      <4> QED
        BY <1>5, <2>2, <2>4, <4>2
    <3>2. CASE (\A x \in Hosts : A[x] = 0) /\ (Len(dc) > 0 => First(dc[1].host, R, ob))
      <4>1. First(h, R, ob)
        BY <1>1, <1>2, <2>4, <3>2 DEF n
      <4>2. B[h] = 1
        BY <1>3, <2>4, <3>2
      <4> QED
        BY <1>6, <4>1, <4>2
    <3> QED
      BY <3>1, <3>2 DEF Levelled
  <2> QED
    BY <2>3, <2>4
<1> QED
  BY <1>4, <1>6 DEF Levelled, B

\* Every pick keeps the domains shared as the mode promises.
LEMMA SharedStep ==
    ASSUME NEW dc \in Seq(Entry), dc # <<>>, NEW A \in [Hosts -> Nat],
           NEW R \in [Hosts -> Int], NEW mode \in AllModes, NEW ob \in BOOLEAN,
           Shared(dc, A, R, mode, ob), NEW q \in Rearranged(Decremented(dc), mode, ob)
    PROVE  Shared(q, OneMore(A, dc[1].host), R, mode, ob)
<1>c. Counted(dc, A, R)
  BY DEF Shared
<1>1. dc[1].host \in Hosts /\ OneMore(A, dc[1].host) \in [Hosts -> Nat]
  BY FrontFacts, OneMoreFacts
<1>2. Decremented(dc) \in Seq(Entry) /\ Decremented(dc) # <<>>
  BY DecrementedFacts
<1>3. Counted(Decremented(dc), OneMore(A, dc[1].host), R)
  BY <1>c, CountedDown
<1>4. Counted(q, OneMore(A, dc[1].host), R)
  BY <1>1, <1>2, <1>3, CountedMoved
<1>5. CASE mode = "scatter"
  BY <1>c, <1>4, <1>5, ScatterStep DEF Shared
<1>6. CASE mode = "compact"
  BY <1>c, <1>4, <1>6, CompactStep DEF Shared
<1>7. CASE mode = "auto"
  BY <1>c, <1>4, <1>7, AutoStep DEF Shared
<1>8. CASE mode = "other"
  BY <1>4, <1>8 DEF Shared
<1> QED
  BY <1>5, <1>6, <1>7, <1>8 DEF AllModes

LEMMA FillingAppend ==
    ASSUME NEW dc \in Seq(Entry), NEW R \in [Hosts -> Int], NEW ob \in BOOLEAN,
           NEW m \in 0 .. Len(Destinations) - 1, Filling(dc, R, ob, m),
           NEW e \in Entry, e.host = Destinations[m + 1], e.cap = R[e.host]
    PROVE  Filling(Append(dc, e), R, ob, m + 1)
<1> DEFINE q == Append(dc, e)
           n == Len(dc)
<1>1. /\ n \in Nat /\ Len(q) = n + 1 /\ q[n + 1] = e
      /\ \A i \in 1 .. n : q[i] = dc[i]
  BY AppendProperties, LenProperties
<1>2. m \in Nat /\ m + 1 \in 1 .. Len(Destinations)
  BY ListedFacts
<1>3. /\ \A i \in 1 .. n : /\ \E a \in 1 .. m : dc[i].host = Destinations[a]
                           /\ dc[i].cap = R[dc[i].host]
      /\ \A i, j \in 1 .. n : i < j => Before(dc[i].host, dc[j].host)
      /\ \A a \in 1 .. m : Holds(dc, Destinations[a]) \/ (~ob /\ R[Destinations[a]] < 1)
  BY DEF Filling
<1> HIDE DEF q, n
<1>4. \A i \in 1 .. n + 1 : i \in 1 .. n \/ i = n + 1
  BY <1>1
<1>5. ASSUME NEW i \in 1 .. n + 1
      PROVE  /\ \E a \in 1 .. m + 1 : q[i].host = Destinations[a]
             /\ q[i].cap = R[q[i].host]
  <2>1. CASE i \in 1 .. n
    <3>1. PICK a \in 1 .. m : dc[i].host = Destinations[a]
      BY <1>3, <2>1
    <3>2. a \in 1 .. m + 1
      BY <1>2
    <3> QED
      BY <1>1, <1>3, <2>1, <3>1, <3>2
  <2>2. CASE i = n + 1
    <3>1. m + 1 \in 1 .. m + 1
      BY <1>2
    <3> QED
      BY <1>1, <2>2, <3>1
  <2> QED
    BY <1>4, <2>1, <2>2
<1>6. ASSUME NEW i \in 1 .. n + 1, NEW j \in 1 .. n + 1, i < j
      PROVE  Before(q[i].host, q[j].host)
  <2>i. i \in 1 .. n
    BY <1>1, <1>6
  <2>1. CASE j \in 1 .. n
    BY <1>1, <1>3, <1>6, <2>i, <2>1
  <2>2. CASE j = n + 1
    <3>1. PICK a \in 1 .. m : dc[i].host = Destinations[a]
      BY <1>3, <2>i
    <3>2. a \in 1 .. Len(Destinations) /\ a < m + 1
      BY <1>2, ListedFacts
    <3>3. q[i].host = Destinations[a] /\ q[j].host = Destinations[m + 1]
      BY <1>1, <2>i, <2>2, <3>1
    <3> QED
      BY <1>2, <3>2, <3>3 DEF Before
  <2> QED
    BY <1>4, <2>1, <2>2
<1>7. ASSUME NEW a \in 1 .. m + 1
      PROVE  Holds(q, Destinations[a]) \/ (~ob /\ R[Destinations[a]] < 1)
  <2>1. CASE a \in 1 .. m
    <3>1. CASE Holds(dc, Destinations[a])
      <4>1. PICK i \in 1 .. n : dc[i].host = Destinations[a]
        BY <3>1 DEF Holds, n
      <4>2. i \in 1 .. n + 1 /\ q[i] = dc[i]
        BY <1>1
      <4> QED
        BY <1>1, <4>1, <4>2 DEF Holds
    <3> QED
      BY <1>3, <2>1, <3>1
  <2>2. CASE a = m + 1
    <3>1. n + 1 \in 1 .. n + 1 /\ q[n + 1].host = Destinations[a]
      BY <1>1, <2>2
    <3> QED
      BY <1>1, <3>1 DEF Holds
  <2> QED
    BY <1>2, <2>1, <2>2
<1> QED
  BY <1>1, <1>5, <1>6, <1>7 DEF Filling, q

LEMMA FillingErase ==
    ASSUME NEW dc \in Seq(Entry), NEW R \in [Hosts -> Int], NEW m,
           Filling(dc, R, FALSE, m), NEW n \in DOMAIN dc, dc[n].cap < 1,
           NEW q, q = SubSeq(dc, 1, n - 1) \o SubSeq(dc, n + 1, Len(dc))
    PROVE  Filling(q, R, FALSE, m)
<1>1. /\ Len(dc) \in Nat /\ n \in 1 .. Len(dc) /\ Len(q) = Len(dc) - 1
      /\ \A i \in 1 .. Len(q) : q[i] = IF i < n THEN dc[i] ELSE dc[i + 1]
  <2>1. Len(dc) \in Nat /\ n \in 1 .. Len(dc)
    BY LenProperties
  <2>2. /\ q \in Seq(Entry)
        /\ Len(q) = Len(dc) - 1
        /\ \A i \in 1 .. Len(q) : q[i] = IF i < n THEN dc[i] ELSE dc[i + 1]
    <3>1. dc \in Seq(Entry)
      OBVIOUS
    <3>2. q = SubSeq(dc, 1, n - 1) \o SubSeq(dc, n + 1, Len(dc))
      OBVIOUS
    <3> QED
      BY ONLY <3>1, <3>2, n \in DOMAIN dc, EraseFacts
  <2> QED
    BY <2>1, <2>2
<1> DEFINE k(x) == IF x < n THEN x ELSE x + 1
<1>2. ASSUME NEW i \in 1 .. Len(q)
      PROVE  k(i) \in 1 .. Len(dc) /\ q[i] = dc[k(i)]
  <2>1. k(i) \in 1 .. Len(dc)
    <3>1. i \in Nat /\ i >= 1 /\ i <= Len(dc) - 1
      BY <1>1
    <3>2. i \in 1 .. Len(dc) /\ i + 1 \in 1 .. Len(dc)
      BY <1>1, <3>1
    <3> QED
      BY <3>2
  <2>2. q[i] = dc[k(i)]
    BY <1>1
  <2> QED
    BY <2>1, <2>2
<1>3. \A i, j \in 1 .. Len(q) : i < j => k(i) < k(j)
  BY <1>1
<1>4. ASSUME NEW j \in 1 .. Len(dc), j # n
      PROVE  \E i \in 1 .. Len(q) : k(i) = j
  <2>1. CASE j < n
    <3>1. j \in 1 .. Len(q) /\ k(j) = j
      BY <1>1, <2>1
    <3> QED
      BY <3>1
  <2>2. CASE j > n
    <3>1. j - 1 \in 1 .. Len(q) /\ k(j - 1) = j
      BY <1>1, <2>2
    <3> QED
      BY <3>1
  <2> QED
    BY <1>1, <1>4, <2>1, <2>2
<1> HIDE DEF k
<1>5. ASSUME NEW i \in 1 .. Len(q)
      PROVE  /\ \E a \in 1 .. m : q[i].host = Destinations[a]
             /\ q[i].cap = R[q[i].host]
  <2>1. /\ \E a \in 1 .. m : dc[k(i)].host = Destinations[a]
        /\ dc[k(i)].cap = R[dc[k(i)].host]
    BY <1>2 DEF Filling
  <2> QED
    BY <1>2, <2>1
<1>6. \A i, j \in 1 .. Len(q) : i < j => Before(q[i].host, q[j].host)
  BY <1>2, <1>3 DEF Filling
<1>7. ASSUME NEW a \in 1 .. m
      PROVE  Holds(q, Destinations[a]) \/ R[Destinations[a]] < 1
  <2>1. CASE R[Destinations[a]] < 1
    BY <2>1
  <2>2. CASE Holds(dc, Destinations[a])
    <3>1. PICK j \in 1 .. Len(dc) : dc[j].host = Destinations[a]
      BY <2>2 DEF Holds
    <3>2. CASE j = n
      BY <3>1, <3>2 DEF Filling
    <3>3. CASE j # n
      <4>1. PICK i \in 1 .. Len(q) : k(i) = j
        BY <1>4, <3>3
      <4>2. q[i].host = Destinations[a]
        BY <1>2, <3>1, <4>1
      <4> QED
        BY <4>2 DEF Holds
    <3> QED
      BY <3>2, <3>3
  <2> QED
    BY <2>1, <2>2 DEF Filling
<1> QED
  BY <1>5, <1>6, <1>7 DEF Filling

\* A filled deque shares nothing yet, in the way every mode promises.
LEMMA FillingShared ==
    ASSUME NEW dc \in Seq(Entry), NEW R \in [Hosts -> Int], NEW ob \in BOOLEAN,
           NEW mode, Filling(dc, R, ob, Len(Destinations)),
           NEW A \in [Hosts -> Nat], \A h \in Hosts : A[h] = 0
    PROVE  Shared(dc, A, R, mode, ob)
<1>l. Len(dc) \in Nat
  BY LenProperties
<1>1. \A i \in 1 .. Len(dc) : dc[i].host \in Listed /\ dc[i].host \in Hosts
  BY ListedFacts DEF Filling
<1>2. \A i, j \in 1 .. Len(dc) : i < j => Before(dc[i].host, dc[j].host)
  BY DEF Filling
<1>3. \A h \in Listed : Holds(dc, h) \/ (~ob /\ R[h] < 1)
  BY ListedFacts DEF Filling
<1>4. Counted(dc, A, R)
  <2>1. ASSUME NEW i \in 1 .. Len(dc)
        PROVE  dc[i].cap = R[dc[i].host] - A[dc[i].host]
    <3>1. R[dc[i].host] \in Int /\ A[dc[i].host] = 0 /\ dc[i].cap = R[dc[i].host]
      BY <1>1 DEF Filling
    <3> QED
      BY <3>1
  <2>2. ASSUME NEW i \in 1 .. Len(dc), NEW j \in 1 .. Len(dc), dc[i].host = dc[j].host
        PROVE  i = j
    <3>1. ~(i < j) /\ ~(j < i)
      BY <1>2, <2>2, BeforeFacts
    <3> QED
      BY <1>l, <3>1
  <2>3. ASSUME NEW h \in Listed
        PROVE  Holds(dc, h) \/ A[h] >= R[h]
    <3>1. A[h] = 0 /\ R[h] \in Int
      BY ListedFacts
    <3> QED
      BY <1>3, <3>1
  <2> QED
    BY <1>1, <2>1, <2>2, <2>3 DEF Counted
<1>5. Scattered(dc, A)
  <2>1. \A h \in Listed : A[h] = 0
    BY ListedFacts
  <2> QED
    BY <1>1, <2>1 DEF Scattered
<1>6. Compacted(dc, A, R)
  <2>1. \A h \in Listed : ~(A[h] > 0)
    BY ListedFacts
  <2> QED
    BY <1>2, <2>1 DEF Compacted
<1>7. Levelled(dc, A, R, ob)
  <2>1. \A h \in Listed : ~(A[h] > (IF First(h, R, ob) THEN 1 ELSE 0))
    BY ListedFacts
  <2>2. ASSUME Len(dc) > 0
        PROVE  First(dc[1].host, R, ob)
    <3>1. 1 \in 1 .. Len(dc)
      BY <1>l, <2>2
    <3>2. PICK n \in 1 .. Len(Destinations) : dc[1].host = Destinations[n]
      BY <1>1, <3>1, ListedFacts
    <3>3. ASSUME NEW a \in 1 .. n - 1
          PROVE  ~ob /\ R[Destinations[a]] < 1
      <4>a. a \in 1 .. Len(Destinations) /\ a < n
        BY ListedFacts
      <4>1. CASE Holds(dc, Destinations[a])
        <5>1. PICK i \in 1 .. Len(dc) : dc[i].host = Destinations[a]
          BY <4>1 DEF Holds
        <5>2. Before(dc[i].host, dc[1].host)
          BY <3>2, <4>a, <5>1 DEF Before
        <5>3. i # 1 /\ ~(1 < i)
          BY <1>2, <3>1, <5>2, BeforeFacts
        <5> QED
          BY <1>l, <5>3
      <4> QED
        BY <4>1, <4>a DEF Filling
    <3> QED
      BY <3>2, <3>3 DEF First
  <2> QED
    BY <2>1, <2>2 DEF Levelled
<1> QED
  BY <1>4, <1>5, <1>6, <1>7 DEF Shared

\* The domains a round has given to a host, and those that it found there.
GivenTo(h) == {d \in Domains : dest[round][d] = h}

FoundOn(h) == {d \in ActiveDomains(h) : dest[round][d] # h}

LEMMA ShareTypes ==
    ASSUME TypeOK
    PROVE  /\ Given \in [Hosts -> Nat] /\ Rooms \in [Hosts -> Int]
           /\ \A h \in Hosts : IsFiniteSet(GivenTo(h)) /\ IsFiniteSet(FoundOn(h))
<1>1. ASSUME NEW h \in Hosts
      PROVE  /\ IsFiniteSet(GivenTo(h)) /\ Cardinality(GivenTo(h)) \in Nat
             /\ IsFiniteSet(FoundOn(h)) /\ Cardinality(FoundOn(h)) \in Nat
  <2>1. GivenTo(h) \in SUBSET Domains /\ FoundOn(h) \in SUBSET Domains
    BY DEF GivenTo, FoundOn, ActiveDomains
  <2> QED
    BY <2>1, Parameters, FS_Subset, FS_CardinalityType DEF Parameters
<1>2. \A h \in Hosts : Assigned(h) \in Nat
  BY <1>1 DEF Assigned, GivenTo
<1>3. \A h \in Hosts : Room(h) \in Int
  <2> SUFFICES ASSUME NEW h \in Hosts PROVE Room(h) \in Int
    OBVIOUS
  <2>1. load[h] \in Nat /\ Cpus[h] \in Nat
    BY Parameters DEF TypeOK, Parameters
  <2>2. Room(h) = Cpus[h] - (load[h] + Cardinality(FoundOn(h)))
    BY DEF Room, FoundOn
  <2> QED
    BY <1>1, <2>1, <2>2
<1> QED
  BY <1>1, <1>2, <1>3 DEF Given, Rooms

LEMMA GivenType == TypeOK' => (Given \in [Hosts -> Nat])'
<1>1. TypeOK => Given \in [Hosts -> Nat]
  BY ShareTypes
<1> QED
  BY <1>1, PTL

LEMMA RoomsKept ==
    ASSUME load' = load, round' = round,
           \A h \in Hosts, y \in Domains :
             (where'[y] = h /\ dest'[round][y] # h) <=> (where[y] = h /\ dest[round][y] # h)
    PROVE  Rooms' = Rooms
<1>1. ASSUME NEW h \in Hosts PROVE Room(h)' = Room(h)
  <2>1. FoundOn(h)' = FoundOn(h)
    BY DEF FoundOn, ActiveDomains
  <2>2. /\ Room(h) = Cpus[h] - (load[h] + Cardinality(FoundOn(h)))
        /\ Room(h)' = Cpus[h] - (load'[h] + Cardinality(FoundOn(h)'))
    BY DEF Room, FoundOn
  <2> QED
    BY <2>1, <2>2
<1> QED
  BY <1>1 DEF Rooms

\* Only tasks of the latest round are alive, whatever happens.
LEMMA TasksNext ==
    ASSUME ~Overlap, TypeInv, TasksOfRound, [Next]_vars
    PROVE  TasksOfRound'
<1>t. TypeOK /\ RoundStarted /\ DestSet /\ round \in Nat
  BY Parameters DEF TypeInv, TypeOK, Parameters
<1>r. \A r \in Rounds : r \in Nat
  BY Parameters DEF Rounds, Parameters
<1>1. ASSUME NEW mode \in Modes, NEW ob \in Overbookings, Request(mode, ob)
      PROVE  TasksOfRound'
  <2>1. /\ round' = round + 1 /\ Quiet /\ stage = "idle"
        /\ dest' = dest /\ where' = where
    BY <1>1 DEF Request
  <2>2. round + 1 \in Rounds
    BY <1>1, <1>t, Parameters DEF Request, Rounds, Parameters
  <2>3. \A r \in Rounds, d \in Domains : pc[r][d] \notin Busy \cup {"listed"}
    BY <2>1 DEF Quiet, TasksOfRound
  <2>4. CASE UNCHANGED <<stage, pc>>
    <3> SUFFICES ASSUME NEW r \in Rounds, NEW d \in Domains
                 PROVE  /\ r > round + 1 => pc[r][d] = "none"
                        /\ dest[r][d] = None \/ pc[r][d] \in {"migrate", "moved", "failed"}
      BY <2>1, <2>3, <2>4 DEF TasksOfRound
    <3> QED
      BY <1>t, <1>r DEF TasksOfRound, TypeOK
  <2>5. CASE stage' = "fill" /\ pc' = [pc EXCEPT ![round + 1] =
                [d \in Domains |-> IF where[d] = Local THEN "listed" ELSE "none"]]
    <3>1. \A r \in Rounds, d \in Domains :
            pc'[r][d] = IF r # round + 1 THEN pc[r][d]
                        ELSE IF where[d] = Local THEN "listed" ELSE "none"
      BY <1>t, <2>2, <2>5 DEF TypeOK
    <3>2. ASSUME NEW r \in Rounds, NEW d \in Domains, r # round + 1
          PROVE  /\ pc'[r][d] = pc[r][d] /\ pc[r][d] \notin Busy \cup {"listed"}
                 /\ r > round + 1 => pc[r][d] = "none"
                 /\ (pc[r][d] \in TaskStates \ {"migrate", "moved", "failed"}
                       => dest[r][d] = None)
      BY <1>t, <1>r, <2>3, <3>1, <3>2 DEF TasksOfRound
    <3>3. ASSUME NEW d \in Domains
          PROVE  /\ pc'[round + 1][d] \in {"none", "listed"}
                 /\ (pc'[round + 1][d] = "listed" => where[d] = Local)
                 /\ dest[round + 1][d] = None
      <4>1. pc[round + 1][d] = "none"
        BY <1>t, <2>2 DEF TasksOfRound
      <4>2. dest[round + 1][d] = None
        BY <2>2, <4>1 DEF TasksOfRound, TaskStates
      <4> QED
        BY <2>2, <3>1, <4>2
    <3> SUFFICES ASSUME NEW r \in Rounds, NEW d \in Domains
                 PROVE  /\ r > round + 1 => pc'[r][d] = "none"
                        /\ (r < round + 1 => pc'[r][d] \notin Busy \cup {"listed"})
                        /\ (pc'[r][d] \in Busy \cup {"listed"} => where[d] = Local)
                        /\ (pc'[r][d] \in TaskStates \ {"migrate", "moved", "failed"}
                              => dest[r][d] = None)
                        /\ r = round + 1 => pc'[r][d] \in {"none", "listed"}
      BY <2>1, <2>5 DEF TasksOfRound
    <3>4. CASE r = round + 1
      <4>1. ~(r > round + 1) /\ ~(r < round + 1)
        BY <1>t, <3>4
      <4> QED
        BY <3>3, <3>4, <4>1 DEF Busy
    <3>5. CASE r # round + 1
      BY <3>2, <3>5
    <3> QED
      BY <3>4, <3>5
  <2> QED
    BY <1>1, <2>4, <2>5 DEF Request
<1>2. CASE EmplaceBack \/ (\E n \in DOMAIN dest_caps : DropFull(n)) \/ UNCHANGED vars
  <2>1. UNCHANGED <<round, stage, pc, dest, where>>
    BY <1>2 DEF EmplaceBack, DropFull, vars
  <2> QED
    BY <2>1 DEF TasksOfRound
<1>3. CASE Unreachable \/ Launch
  <2>1. /\ stage = "fill" /\ stage' = "idle" /\ round \in Rounds
        /\ UNCHANGED <<round, dest, where>>
    BY <1>3, <1>t DEF Unreachable, Launch, RoundStarted
  <2>2. \A r \in Rounds, d \in Domains :
          /\ r # round => pc'[r][d] = pc[r][d]
          /\ pc'[round][d] \in {"none", "check"}
          /\ (pc'[round][d] = "check" => pc[round][d] = "listed")
    <3>1. \A d \in Domains : pc[round][d] \in {"none", "listed"}
      BY <2>1 DEF TasksOfRound
    <3>2. CASE Unreachable
      BY <1>t, <2>1, <3>2 DEF Unreachable, TypeOK
    <3>3. CASE Launch
      BY <1>t, <2>1, <3>1, <3>3 DEF Launch, TypeOK
    <3> QED
      BY <1>3, <3>2, <3>3
  <2>3. \A d \in Domains : dest[round][d] = None
    BY <2>1 DEF TasksOfRound, TaskStates
  <2> SUFFICES ASSUME NEW r \in Rounds, NEW d \in Domains
               PROVE  /\ r > round => pc'[r][d] = "none"
                      /\ (r < round => pc'[r][d] \notin Busy \cup {"listed"})
                      /\ (pc'[r][d] \in Busy \cup {"listed"} => where[d] = Local)
                      /\ (pc'[r][d] \in TaskStates \ {"migrate", "moved", "failed"}
                            => dest[r][d] = None)
                      /\ pc'[r][d] # "listed"
    BY <2>1 DEF TasksOfRound
  <2>4. CASE r = round
    <3>1. ~(r > round) /\ ~(r < round)
      BY <1>t, <2>4
    <3> QED
      BY <2>1, <2>2, <2>3, <2>4, <3>1 DEF TasksOfRound
  <2>5. CASE r # round
    <3>1. r > round \/ r < round
      BY <1>t, <1>r, <2>5
    <3> QED
      BY <2>2, <2>5, <3>1 DEF TasksOfRound, Busy
  <2> QED
    BY <2>4, <2>5
<1>4. ASSUME NEW r \in Rounds, NEW d \in Domains, Check(r, d) \/ Take(r, d) \/ Migrate(r, d)
      PROVE  TasksOfRound'
  <2>1. pc[r][d] \in Busy /\ UNCHANGED <<round, stage>>
    BY <1>4 DEF Check, Take, Migrate, At, Busy
  <2>2. /\ ~(r < round) /\ ~(r > round) /\ where[d] = Local
        /\ (stage = "fill" => r # round)
    BY <2>1 DEF TasksOfRound, Busy
  <2>3. PICK state \in TaskStates \ {"none", "listed", "check"} : Goto(r, d, state)
    BY <1>4 DEF Check, Take, Migrate, TaskStates
  <2>4. \A x \in Rounds, y \in Domains :
          pc'[x][y] = IF x = r /\ y = d THEN state ELSE pc[x][y]
    BY <1>t, <2>3, GotoFacts
  <2>5. /\ \A y \in Domains : y # d => where'[y] = where[y]
        /\ (state \in Busy => where' = where)
        /\ \A x \in Rounds, y \in Domains : ~(x = r /\ y = d) => dest'[x][y] = dest[x][y]
        /\ (state \in TaskStates \ {"migrate", "moved", "failed"} => dest'[r][d] = dest[r][d])
    <3>1. CASE Check(r, d)
      BY <3>1 DEF Check
    <3>2. CASE Take(r, d)
      <4>1. where' = where
        BY <3>2 DEF Take
      <4>2. CASE UNCHANGED dest
        BY <4>1, <4>2
      <4>3. CASE dest' = [dest EXCEPT ![r][d] = dest_caps[1].host] /\ Goto(r, d, "migrate")
        <5>1. state = "migrate"
          <6>1. pc'[r][d] = "migrate"
            BY <1>t, <4>3, GotoFacts DEF TaskStates
          <6> QED
            BY <2>4, <6>1
        <5>2. \A x \in Rounds, y \in Domains : ~(x = r /\ y = d) => dest'[x][y] = dest[x][y]
          BY <1>t, <4>3 DEF TypeOK
        <5> QED
          BY <4>1, <5>1, <5>2
      <4> QED
        BY <3>2, <4>2, <4>3 DEF Take
    <3>3. CASE Migrate(r, d)
      <4>1. dest' = dest
        BY <3>3 DEF Migrate
      <4>2. pc'[r][d] \in {"moved", "failed"}
        BY <1>t, <3>3, GotoFacts DEF Migrate, TaskStates
      <4>3. state \notin Busy
        BY <2>4, <4>2 DEF Busy
      <4>4. \A y \in Domains : y # d => where'[y] = where[y]
        BY <1>t, <3>3 DEF Migrate, TypeOK
      <4> QED
        BY <4>1, <4>3, <4>4
    <3> QED
      BY <1>4, <3>1, <3>2, <3>3
  <2> SUFFICES ASSUME NEW x \in Rounds, NEW y \in Domains
               PROVE  /\ x > round => pc'[x][y] = "none"
                      /\ (x < round => pc'[x][y] \notin Busy \cup {"listed"})
                      /\ (pc'[x][y] \in Busy \cup {"listed"} => where'[y] = Local)
                      /\ (pc'[x][y] \in TaskStates \ {"migrate", "moved", "failed"}
                            => dest'[x][y] = None)
                      /\ stage = "fill" /\ x = round => pc'[x][y] \in {"none", "listed"}
                      /\ (stage = "idle" => pc'[x][y] # "listed")
    BY <2>1 DEF TasksOfRound
  <2>6. CASE x = r /\ y = d
    <3>1. pc[r][d] \in {"check", "take"} => dest[r][d] = None
      BY DEF TasksOfRound, TaskStates
    <3>2. state \in TaskStates \ {"migrate", "moved", "failed"} => pc[r][d] \in {"check", "take"}
      <4>1. CASE Migrate(r, d)
        <5>1. pc'[r][d] \in {"moved", "failed"}
          BY <1>t, <4>1, GotoFacts DEF Migrate, TaskStates
        <5> QED
          BY <2>4, <5>1
      <4> QED
        BY <1>4, <4>1 DEF Check, Take, At
    <3> QED
      BY <2>2, <2>4, <2>5, <2>6, <3>1, <3>2
  <2>7. CASE ~(x = r /\ y = d)
    <3>1. pc'[x][y] = pc[x][y] /\ dest'[x][y] = dest[x][y]
      BY <2>4, <2>5, <2>7
    <3>2. pc[x][y] \in Busy \cup {"listed"} => where'[y] = Local
      <4>1. CASE y # d
        BY <2>5, <4>1 DEF TasksOfRound
      <4>2. CASE y = d /\ x # r
        <5>1. x > round \/ x < round
          BY <1>t, <1>r, <2>2, <4>2
        <5> QED
          BY <5>1 DEF TasksOfRound, Busy
      <4> QED
        BY <2>7, <4>1, <4>2
    <3> QED
      BY <3>1, <3>2 DEF TasksOfRound
  <2> QED
    BY <2>6, <2>7
<1> QED
  BY <1>1, <1>2, <1>3, <1>4 DEF Next

\* A round without launched tasks has given nothing away and refused nobody.
LEMMA NothingGiven ==
    ASSUME TypeOK, TasksOfRound, round \in Rounds,
           \A d \in Domains : pc[round][d] \in {"none", "listed", "check"}
    PROVE  /\ \A h \in Hosts : GivenTo(h) = {} /\ FoundOn(h) = ActiveDomains(h)
           /\ \A h \in Hosts : Given[h] = 0 /\ Rooms[h] = Capacity(h)
           /\ RefusedOnlyWhenFull
<1>1. \A d \in Domains : dest[round][d] = None
  BY DEF TasksOfRound, TaskStates
<1>2. \A h \in Hosts : GivenTo(h) = {} /\ FoundOn(h) = ActiveDomains(h)
  BY <1>1, Parameters DEF GivenTo, FoundOn, ActiveDomains, Parameters
<1>3. \A h \in Hosts : Assigned(h) = 0 /\ Room(h) = Capacity(h)
  BY <1>2, FS_EmptySet DEF Assigned, Room, Capacity, GivenTo, FoundOn
<1> QED
  BY <1>2, <1>3 DEF Given, Rooms, RefusedOnlyWhenFull

\* While the deque is filled the round has given nothing away.
LEMMA FillFacts ==
    ASSUME ShareInv, stage = "fill"
    PROVE  /\ TypeOK /\ round \in Rounds
           /\ Filling(dest_caps, Rooms, req[round].ob, filled)
           /\ \A h \in Hosts : Given[h] = 0 /\ Rooms[h] = Capacity(h)
           /\ req[round].ob \in BOOLEAN /\ req[round].mode \in AllModes
<1>1. TypeOK /\ round \in Rounds
  BY DEF ShareInv, TypeInv, RoundStarted
<1>2. \A d \in Domains : pc[round][d] \in {"none", "listed"}
  BY <1>1 DEF ShareInv, TasksOfRound
<1>3. \A h \in Hosts : Given[h] = 0 /\ Rooms[h] = Capacity(h)
  BY <1>1, <1>2, NothingGiven DEF ShareInv
<1>4. req[round].ob \in BOOLEAN /\ req[round].mode \in AllModes
  BY <1>1 DEF TypeOK
<1> QED
  BY <1>1, <1>3, <1>4 DEF ShareInv

LEMMA RequestShare ==
    ASSUME ShareInv, TypeInv', TasksOfRound', NEW mode \in Modes, NEW ob \in Overbookings,
           Request(mode, ob)
    PROVE  ShareInv'
<1>t. TypeOK /\ TypeOK' /\ round \in Nat /\ round' = round + 1
  BY Parameters DEF ShareInv, TypeInv, TypeOK, Parameters, Request
<1>r. round' \in Rounds
  BY <1>t, Parameters DEF Request, Rounds, Parameters
<1>1. CASE stage' = "idle"
  <2>1. UNCHANGED pc
    BY <1>1 DEF Request
  <2>2. \A d \in Domains : pc'[round'][d] = "none"
    BY <1>t, <1>r, <2>1 DEF ShareInv, TasksOfRound
  <2>3. ~Launched'
    BY <2>2 DEF Launched
  <2>4. RefusedOnlyWhenFull'
    BY <2>2 DEF RefusedOnlyWhenFull
  <2> QED
    BY <1>1, <2>3, <2>4 DEF ShareInv
<1>2. CASE stage' = "fill"
  <2>1. dest_caps' = <<>> /\ filled' = 0
    BY <1>2 DEF Request
  <2>2. Len(dest_caps') = 0
    BY <2>1, EmptySeq
  <2>3. Filling(dest_caps, Rooms, req[round].ob, filled)'
    BY <2>1, <2>2 DEF Filling
  <2>4. \A d \in Domains : pc'[round'][d] \in {"none", "listed"}
    BY <1>2, <1>r DEF TasksOfRound
  <2>5. RefusedOnlyWhenFull'
    BY <2>4 DEF RefusedOnlyWhenFull
  <2> QED
    BY <1>2, <2>3, <2>5 DEF ShareInv, Launched
<1> QED
  BY <1>t, <1>1, <1>2 DEF TypeOK

\* Steps that fill the deque.
LEMMA FillShare ==
    ASSUME ShareInv, TypeInv', TasksOfRound', stage = "fill",
           UNCHANGED <<round, req, stage, pc, dest, where, load>>,
           Filling(dest_caps', Rooms, req[round].ob, filled')
    PROVE  ShareInv'
<1>1. Rooms' = Rooms /\ Given' = Given
  BY DEF Rooms, Room, ActiveDomains, Given, Assigned
<1>2. Filling(dest_caps, Rooms, req[round].ob, filled)'
  BY <1>1
<1>3. RefusedOnlyWhenFull'
  BY DEF ShareInv, RefusedOnlyWhenFull, Assigned, Room, ActiveDomains
<1> QED
  BY <1>2, <1>3 DEF ShareInv, Launched

LEMMA EmplaceBackShare ==
    ASSUME ShareInv, TypeInv', TasksOfRound', EmplaceBack
    PROVE  ShareInv'
<1>1. /\ TypeOK /\ Filling(dest_caps, Rooms, req[round].ob, filled)
      /\ \A h \in Hosts : Rooms[h] = Capacity(h)
      /\ req[round].ob \in BOOLEAN /\ stage = "fill"
  BY FillFacts DEF EmplaceBack
<1>2. filled \in 0 .. Len(Destinations) - 1 /\ Destinations[filled + 1] \in Hosts
  BY <1>1, ListedFacts DEF EmplaceBack, TypeOK
<1> DEFINE e == [host |-> Destinations[filled + 1], cap |-> Capacity(Destinations[filled + 1])]
<1>3. e \in Entry /\ e.host = Destinations[filled + 1] /\ e.cap = Rooms[e.host]
  BY <1>1, <1>2, CapacityType DEF Entry
<1>4. dest_caps' = Append(dest_caps, e) /\ filled' = filled + 1
  BY DEF EmplaceBack
<1>5. Rooms \in [Hosts -> Int] /\ dest_caps \in Seq(Entry)
  BY <1>1, ShareTypes DEF TypeOK
<1> HIDE DEF e
<1>6. Filling(dest_caps', Rooms, req[round].ob, filled')
  BY <1>1, <1>2, <1>3, <1>4, <1>5, FillingAppend
<1> QED
  BY <1>1, <1>6, FillShare DEF EmplaceBack

LEMMA DropFullShare ==
    ASSUME ShareInv, TypeInv', TasksOfRound', NEW n \in DOMAIN dest_caps, DropFull(n)
    PROVE  ShareInv'
<1>1. /\ TypeOK /\ Filling(dest_caps, Rooms, req[round].ob, filled)
      /\ req[round].ob \in BOOLEAN /\ stage = "fill"
  BY FillFacts DEF DropFull
<1>2. req[round].ob = FALSE
  BY <1>1 DEF DropFull
<1>3. Rooms \in [Hosts -> Int] /\ dest_caps \in Seq(Entry)
  BY <1>1, ShareTypes DEF TypeOK
<1>4. /\ dest_caps' = SubSeq(dest_caps, 1, n - 1) \o SubSeq(dest_caps, n + 1, Len(dest_caps))
      /\ dest_caps[n].cap < 1 /\ filled' = filled
  BY DEF DropFull, Full
<1>5. Filling(dest_caps, Rooms, FALSE, filled)
  BY <1>1, <1>2
<1>6. Filling(dest_caps', Rooms, FALSE, filled)
  BY <1>3, <1>4, <1>5, FillingErase
<1>7. Filling(dest_caps', Rooms, req[round].ob, filled')
  BY <1>2, <1>4, <1>6
<1> QED
  BY <1>1, <1>7, FillShare DEF DropFull

LEMMA UnreachableShare ==
    ASSUME ShareInv, TypeInv', TasksOfRound', Unreachable
    PROVE  ShareInv'
<1>1. TypeOK /\ round \in Rounds /\ round' = round /\ stage' = "idle"
  BY FillFacts DEF Unreachable
<1>2. \A d \in Domains : pc'[round][d] = "none"
  BY <1>1 DEF Unreachable, TypeOK
<1> QED
  BY <1>1, <1>2 DEF ShareInv, Launched, RefusedOnlyWhenFull

LEMMA LaunchShare ==
    ASSUME ShareInv, TypeInv', TasksOfRound', Launch
    PROVE  ShareInv'
<1>1. /\ TypeOK /\ round \in Rounds /\ stage = "fill"
      /\ Filling(dest_caps, Rooms, req[round].ob, filled)
      /\ \A h \in Hosts : Given[h] = 0
      /\ req[round].ob \in BOOLEAN
  BY FillFacts DEF Launch
<1>2. /\ filled = Len(Destinations) /\ stage' = "idle"
      /\ UNCHANGED <<round, req, filled, dest_caps, dest, where, load>>
  BY DEF Launch
<1>3. Rooms' = Rooms /\ Given' = Given
  BY <1>2 DEF Rooms, Room, ActiveDomains, Given, Assigned
<1>4. Rooms \in [Hosts -> Int] /\ Given \in [Hosts -> Nat] /\ dest_caps \in Seq(Entry)
  BY <1>1, ShareTypes DEF TypeOK
<1>5. Shared(dest_caps, Given, Rooms, req[round].mode, req[round].ob)
  BY <1>1, <1>2, <1>4, FillingShared
<1>6. Shared(dest_caps, Given, Rooms, req[round].mode, req[round].ob)'
  BY <1>2, <1>3, <1>5
<1>7. \A d \in Domains : pc'[round][d] \in {"none", "check"}
  <2>1. \A d \in Domains : pc[round][d] \in {"none", "listed"}
    BY <1>1 DEF ShareInv, TasksOfRound
  <2> QED
    BY <1>1, <2>1 DEF Launch, TypeOK
<1>8. RefusedOnlyWhenFull'
  BY <1>2, <1>7 DEF RefusedOnlyWhenFull
<1> QED
  BY <1>2, <1>6, <1>8 DEF ShareInv

\* A task that is alive is one of the latest round, which is launched.
LEMMA AliveFacts ==
    ASSUME ShareInv, NEW r \in Rounds, NEW d \in Domains, pc[r][d] \in Busy
    PROVE  /\ TypeOK /\ r = round /\ stage = "idle" /\ where[d] = Local /\ Launched
           /\ Shared(dest_caps, Given, Rooms, req[r].mode, req[r].ob)
           /\ req[r].ob \in BOOLEAN /\ req[r].mode \in AllModes
<1>1. TypeOK /\ round \in Nat /\ r \in Nat /\ r > 0
  BY Parameters DEF ShareInv, TypeInv, TypeOK, Parameters, Rounds
<1>2. ~(r < round) /\ ~(r > round) /\ where[d] = Local
  BY DEF ShareInv, TasksOfRound, Busy
<1>3. r = round
  BY <1>1, <1>2
<1>4. stage = "idle"
  BY <1>1, <1>3 DEF ShareInv, TasksOfRound, TypeOK, Busy
<1>5. Launched
  BY <1>1, <1>3, <1>4 DEF Launched, Busy
<1>6. req[r].ob \in BOOLEAN /\ req[r].mode \in AllModes
  BY <1>1 DEF TypeOK
<1> QED
  BY <1>1, <1>2, <1>3, <1>4, <1>5, <1>6 DEF ShareInv

\* What a step of a task has to establish.
LEMMA TaskShare ==
    ASSUME ShareInv, TypeInv', TasksOfRound', NEW r \in Rounds, NEW d \in Domains,
           pc[r][d] \in Busy, NEW state \in TaskStates, Goto(r, d, state),
           UNCHANGED <<round, req, stage, filled>>, Rooms' = Rooms,
           \A h \in Hosts : Given'[h] >= Given[h],
           Shared(dest_caps', Given', Rooms, req[r].mode, req[r].ob),
           state \in {"refused", "undefined"} => dest_caps = <<>>
    PROVE  ShareInv'
<1>1. /\ TypeOK /\ r = round /\ stage = "idle"
      /\ Shared(dest_caps, Given, Rooms, req[r].mode, req[r].ob)
  BY AliveFacts
<1>2. Shared(dest_caps, Given, Rooms, req[round].mode, req[round].ob)'
  BY <1>1
<1>3. Given \in [Hosts -> Nat] /\ Given' \in [Hosts -> Nat] /\ Rooms \in [Hosts -> Int]
  BY <1>1, ShareTypes, GivenType DEF TypeInv
<1>4. ASSUME \A h \in Listed : Given[h] >= Rooms[h]
      PROVE  \A h \in Listed : Assigned(h)' >= Room(h)'
  <2> SUFFICES ASSUME NEW h \in Listed PROVE Assigned(h)' >= Room(h)'
    OBVIOUS
  <2>1. h \in Hosts
    BY ListedFacts
  <2>2. Given'[h] = Assigned(h)' /\ Rooms'[h] = Room(h)'
    BY <2>1 DEF Given, Rooms
  <2>3. Given[h] \in Nat /\ Given'[h] \in Nat /\ Rooms[h] \in Int
    BY <1>3, <2>1
  <2>4. Given[h] >= Rooms[h] /\ Given'[h] >= Given[h]
    BY <1>4, <2>1
  <2> QED
    BY <2>2, <2>3, <2>4
<1>5. RefusedOnlyWhenFull'
  <2> SUFFICES ASSUME NEW y \in Domains, pc'[round'][y] \in {"refused", "undefined"}
               PROVE  \A h \in Listed : Assigned(h)' >= Room(h)'
    BY DEF RefusedOnlyWhenFull
  <2>1. pc'[round][y] = IF y = d THEN state ELSE pc[round][y]
    BY <1>1, GotoFacts
  <2>2. CASE y = d
    <3>1. dest_caps = <<>>
      BY <2>1, <2>2
    <3>2. Len(dest_caps) = 0
      BY <3>1, EmptySeq
    <3>3. \A h \in Listed : Given[h] >= Rooms[h]
      BY <1>1, <3>2 DEF Shared, Counted, Holds
    <3> QED
      BY <1>4, <3>3
  <2>3. CASE y # d
    <3>1. pc[round][y] \in {"refused", "undefined"}
      BY <2>1, <2>3
    <3>2. round > 0
      BY <1>1, Parameters DEF Rounds, Parameters
    <3>3. \A h \in Listed : Assigned(h) >= Room(h)
      BY <3>1, <3>2 DEF ShareInv, RefusedOnlyWhenFull
    <3>4. \A h \in Listed : Given[h] >= Rooms[h]
      BY <3>3, ListedFacts DEF Given, Rooms
    <3> QED
      BY <1>4, <3>4
  <2> QED
    BY <2>2, <2>3
<1> QED
  BY <1>1, <1>2, <1>5 DEF ShareInv

LEMMA CheckShare ==
    ASSUME ShareInv, TypeInv', TasksOfRound', NEW r \in Rounds, NEW d \in Domains, Check(r, d)
    PROVE  ShareInv'
<1>1. /\ pc[r][d] \in Busy
      /\ UNCHANGED <<round, req, filled, stage, dest_caps, dest, where, load>>
  BY DEF Check, At, Busy
<1>2. TypeOK /\ Shared(dest_caps, Given, Rooms, req[r].mode, req[r].ob)
  BY <1>1, AliveFacts
<1>3. Rooms' = Rooms /\ Given' = Given
  BY <1>1 DEF Rooms, Room, ActiveDomains, Given, Assigned
<1>4. Shared(dest_caps', Given', Rooms, req[r].mode, req[r].ob)
  BY <1>1, <1>2, <1>3
<1>5. \A h \in Hosts : Given'[h] >= Given[h]
  BY <1>2, <1>3, ShareTypes
<1>6. PICK state \in TaskStates :
        Goto(r, d, state) /\ (state \in {"refused", "undefined"} => dest_caps = <<>>)
  <2>1. \/ Goto(r, d, "failed") \/ Goto(r, d, "take")
        \/ Goto(r, d, "refused") /\ dest_caps = <<>>
    BY DEF Check
  <2> QED
    BY <2>1 DEF TaskStates
<1> QED
  BY <1>1, <1>3, <1>4, <1>5, <1>6, TaskShare

LEMMA MigrateShare ==
    ASSUME ShareInv, TypeInv', TasksOfRound', NEW r \in Rounds, NEW d \in Domains, Migrate(r, d)
    PROVE  ShareInv'
<1>1. /\ pc[r][d] \in Busy /\ pc[r][d] = "migrate"
      /\ UNCHANGED <<round, req, filled, stage, dest_caps, dest, load>>
  BY DEF Migrate, At, Busy
<1>2. /\ TypeOK /\ r = round /\ where[d] = Local
      /\ Shared(dest_caps, Given, Rooms, req[r].mode, req[r].ob)
  BY <1>1, AliveFacts
<1>3. Given' = Given
  BY <1>1 DEF Given, Assigned
<1>4. Rooms' = Rooms
  <2>1. where' = where \/ where' = [where EXCEPT ![d] = dest[round][d]]
    BY <1>2 DEF Migrate
  <2>2. \A h \in Hosts, y \in Domains :
          (where'[y] = h /\ dest'[round][y] # h) <=> (where[y] = h /\ dest[round][y] # h)
    BY <1>1, <1>2, <2>1, Parameters DEF TypeOK, Parameters
  <2> QED
    BY <1>1, <2>2, RoomsKept
<1>5. Shared(dest_caps', Given', Rooms, req[r].mode, req[r].ob)
  BY <1>1, <1>2, <1>3
<1>6. \A h \in Hosts : Given'[h] >= Given[h]
  BY <1>2, <1>3, ShareTypes
<1>7. PICK state \in {"moved", "failed"} : Goto(r, d, state)
  BY DEF Migrate
<1> QED
  BY <1>1, <1>4, <1>5, <1>6, <1>7, TaskShare DEF TaskStates

LEMMA TakeShare ==
    ASSUME ShareInv, TypeInv', TasksOfRound', NEW r \in Rounds, NEW d \in Domains, Take(r, d)
    PROVE  ShareInv'
<1>1. /\ pc[r][d] \in Busy /\ pc[r][d] = "take"
      /\ UNCHANGED <<round, req, filled, stage, where, load>>
  BY DEF Take, At, Busy
<1>2. /\ TypeOK /\ r = round /\ where[d] = Local
      /\ Shared(dest_caps, Given, Rooms, req[r].mode, req[r].ob)
      /\ req[r].ob \in BOOLEAN /\ req[r].mode \in AllModes
  BY <1>1, AliveFacts
<1>3. /\ Given \in [Hosts -> Nat] /\ Rooms \in [Hosts -> Int] /\ dest_caps \in Seq(Entry)
      /\ \A h \in Hosts : IsFiniteSet(GivenTo(h))
  BY <1>2, ShareTypes DEF TypeOK
<1>4. CASE dest_caps = <<>>
  <2>1. Goto(r, d, "undefined") /\ UNCHANGED <<dest_caps, dest>>
    BY <1>4 DEF Take
  <2>2. Rooms' = Rooms /\ Given' = Given
    BY <1>1, <2>1 DEF Rooms, Room, ActiveDomains, Given, Assigned
  <2>3. Shared(dest_caps', Given', Rooms, req[r].mode, req[r].ob)
    BY <1>2, <2>1, <2>2
  <2>4. \A h \in Hosts : Given'[h] >= Given[h]
    BY <1>3, <2>2
  <2> QED
    BY <1>1, <1>4, <2>1, <2>2, <2>3, <2>4, TaskShare DEF TaskStates
<1>5. CASE dest_caps # <<>>
  <2>1. PICK g \in Hosts : g = dest_caps[1].host
    BY <1>3, <1>5, FrontFacts
  <2>2. /\ Goto(r, d, "migrate")
        /\ dest' = [dest EXCEPT ![r][d] = g]
        /\ dest_caps' \in Rearranged(Decremented(dest_caps), req[r].mode, req[r].ob)
    BY <1>5, <2>1 DEF Take, Decremented
  <2>3. \A y \in Domains : dest'[round][y] = IF y = d THEN g ELSE dest[round][y]
    BY <1>2, <2>2 DEF TypeOK
  <2>4. dest[round][d] = None
    BY <1>1, <1>2 DEF ShareInv, TasksOfRound, TaskStates
  <2>5. Rooms' = Rooms
    <3>1. \A h \in Hosts, y \in Domains :
            (where'[y] = h /\ dest'[round][y] # h) <=> (where[y] = h /\ dest[round][y] # h)
      BY <1>1, <1>2, <2>3, Parameters DEF Parameters
    <3> QED
      BY <1>1, <3>1, RoomsKept
  <2>6. Given' = OneMore(Given, g)
    <3>1. GivenTo(g)' = GivenTo(g) \cup {d} /\ d \notin GivenTo(g)
      BY <1>1, <2>3, <2>4, Parameters DEF GivenTo, Parameters
    <3>2. Cardinality(GivenTo(g)') = Cardinality(GivenTo(g)) + 1
      BY <1>3, <3>1, FS_AddElement
    <3>3. \A h \in Hosts : h # g => GivenTo(h)' = GivenTo(h)
      BY <1>1, <2>3, <2>4, Parameters DEF GivenTo, Parameters
    <3>4. \A h \in Hosts : /\ Given[h] = Cardinality(GivenTo(h))
                           /\ Given'[h] = Cardinality(GivenTo(h)')
      BY DEF Given, Assigned, GivenTo
    <3>5. DOMAIN Given = Hosts /\ Given' = [h \in Hosts |-> Given'[h]]
      BY DEF Given
    <3>6. \A h \in Hosts : Given'[h] = IF h = g THEN Given[h] + 1 ELSE Given[h]
      BY <3>2, <3>3, <3>4
    <3> QED
      BY <3>5, <3>6 DEF OneMore
  <2>7. Shared(dest_caps', Given', Rooms, req[r].mode, req[r].ob)
    BY <1>2, <1>3, <1>5, <2>1, <2>2, <2>6, SharedStep
  <2>8. \A h \in Hosts : Given'[h] >= Given[h]
    BY <1>3, <2>6, OneMoreFacts
  <2> QED
    BY <1>1, <2>2, <2>5, <2>7, <2>8, TaskShare DEF TaskStates
<1> QED
  BY <1>4, <1>5

LEMMA ShareInit == Init => ShareInv
<1> SUFFICES ASSUME Init PROVE ShareInv
  OBVIOUS
<1>1. TypeInv
  BY TypeInit
<1>2. TasksOfRound
  BY Parameters DEF Init, TasksOfRound, Busy, Rounds, Parameters
<1> QED
  BY <1>1, <1>2 DEF Init, ShareInv, Launched, RefusedOnlyWhenFull

LEMMA ShareNext ==
    ASSUME ~Overlap, ShareInv, [Next]_vars
    PROVE  ShareInv'
<1>t. TypeInv' /\ TasksOfRound'
  BY TypeNext, TasksNext DEF ShareInv
<1>1. CASE UNCHANGED vars
  <2>1. UNCHANGED <<round, req, filled, stage, dest_caps, pc, dest, where, load>>
    BY <1>1 DEF vars
  <2>2. Rooms' = Rooms /\ Given' = Given
    BY <2>1 DEF Rooms, Room, ActiveDomains, Given, Assigned
  <2>3. RefusedOnlyWhenFull'
    BY <2>1 DEF ShareInv, RefusedOnlyWhenFull, Assigned, Room, ActiveDomains
  <2> QED
    BY <1>t, <2>1, <2>2, <2>3 DEF ShareInv, Launched
<1>2. CASE \E mode \in Modes, ob \in Overbookings : Request(mode, ob)
  BY <1>t, <1>2, RequestShare
<1>3. CASE EmplaceBack \/ Unreachable \/ Launch \/ \E n \in DOMAIN dest_caps : DropFull(n)
  BY <1>t, <1>3, EmplaceBackShare, UnreachableShare, LaunchShare, DropFullShare
<1>4. CASE \E r \in Rounds, d \in Domains : Check(r, d) \/ Take(r, d) \/ Migrate(r, d)
  BY <1>t, <1>4, CheckShare, TakeShare, MigrateShare
<1> QED
  BY <1>1, <1>2, <1>3, <1>4 DEF Next

\* The invariant holds as long as the scheduler waits for the result of an
\* evacuation before it asks for the next.
LEMMA ShareAlways == ~Overlap /\ Spec => []ShareInv
<1>1. CASE Overlap
  BY <1>1, PTL
<1>2. CASE ~Overlap
  <2>1. ShareInv /\ [Next]_vars => ShareInv'
    BY <1>2, ShareNext
  <2> QED
    BY <2>1, ShareInit, PTL DEF Spec
<1> QED
  BY <1>1, <1>2

\* A task is turned away, or runs into an empty deque, only when every
\* destination of the message got as many domains as it had room for: for any
\* mode, any capacities and any interleaving, when evacuations do not overlap.
THEOREM RefusalIsJustified == ~Overlap /\ Spec => []RefusedOnlyWhenFull
<1>1. ShareInv => RefusedOnlyWhenFull
  BY DEF ShareInv
<1> QED
  BY <1>1, ShareAlways, PTL

LEMMA GivenFacts ==
    ASSUME TypeOK
    PROVE  /\ \A h \in Hosts : /\ Assigned(h) = Given[h] /\ Given[h] \in Nat
                               /\ Room(h) = Rooms[h] /\ Rooms[h] \in Int
           /\ DOMAIN dest_caps = 1 .. Len(dest_caps)
           /\ \A n \in DOMAIN dest_caps : dest_caps[n].host \in Hosts
<1>1. Given \in [Hosts -> Nat] /\ Rooms \in [Hosts -> Int]
  BY ShareTypes
<1>2. DOMAIN dest_caps = 1 .. Len(dest_caps)
  BY LenProperties DEF TypeOK
<1>3. \A n \in 1 .. Len(dest_caps) : dest_caps[n] \in Entry
  BY ElementOfSeq DEF TypeOK
<1> QED
  BY <1>1, <1>2, <1>3 DEF Given, Rooms, Entry

\* A round that has not been launched has given nothing away.
LEMMA NotLaunched ==
    ASSUME ShareInv, round > 0, ~Launched
    PROVE  \A h \in Hosts : Assigned(h) = 0
<1>1. TypeOK /\ round \in Rounds
  BY Parameters DEF ShareInv, TypeInv, TypeOK, Rounds, Parameters
<1>2. \A d \in Domains : pc[round][d] \in {"none", "listed"}
  BY <1>1 DEF ShareInv, TasksOfRound, Launched, TypeOK
<1>3. \A h \in Hosts : Given[h] = 0
  BY <1>1, <1>2, NothingGiven DEF ShareInv
<1> QED
  BY <1>1, <1>3, GivenFacts

\* Mode scatter deals the domains out evenly: no destination is more than one
\* domain ahead of one that is still in the deque, whatever the capacities and
\* however the tasks interleave.
THEOREM ScatterIsEven == ~Overlap /\ Spec => []ScatterEven
<1>1. ASSUME ShareInv PROVE ScatterEven
  <2> SUFFICES ASSUME round > 0, req[round].mode = "scatter",
                      NEW h \in Listed, NEW n \in DOMAIN dest_caps
               PROVE  Assigned(h) <= Assigned(dest_caps[n].host) + 1
    BY DEF ScatterEven
  <2>1. TypeOK /\ h \in Hosts
    BY <1>1, ListedFacts DEF ShareInv, TypeInv
  <2>2. dest_caps[n].host \in Hosts /\ n \in 1 .. Len(dest_caps)
    BY <2>1, GivenFacts
  <2>3. CASE ~Launched
    <3>1. Assigned(h) = 0 /\ Assigned(dest_caps[n].host) = 0
      BY <1>1, <2>1, <2>2, <2>3, NotLaunched
    <3> QED
      BY <3>1
  <2>4. CASE Launched
    <3>1. Given[h] <= Given[dest_caps[n].host] + 1
      BY <1>1, <2>2, <2>4 DEF ShareInv, Shared, Scattered
    <3> QED
      BY <2>1, <2>2, <3>1, GivenFacts
  <2> QED
    BY <2>3, <2>4
<1> QED
  BY <1>1, ShareAlways, PTL

\* Mode compact fills up one destination after the other, in the order of the
\* message, for any capacities and any interleaving.
THEOREM CompactFillsUp == ~Overlap /\ Spec => []CompactFill
<1>1. ASSUME ShareInv PROVE CompactFill
  <2> SUFFICES ASSUME round > 0, req[round].mode = "compact",
                      NEW i \in DOMAIN Destinations, NEW j \in DOMAIN Destinations,
                      i < j, Assigned(Destinations[j]) > 0
               PROVE  Assigned(Destinations[i]) >= Room(Destinations[i])
    BY DEF CompactFill
  <2>1. /\ TypeOK /\ Destinations[i] \in Listed /\ Destinations[j] \in Listed
        /\ Destinations[i] \in Hosts /\ Destinations[j] \in Hosts
        /\ Before(Destinations[i], Destinations[j])
    BY <1>1, ListedFacts DEF ShareInv, TypeInv, Before
  <2>2. CASE ~Launched
    BY <1>1, <2>1, <2>2, NotLaunched
  <2>3. CASE Launched
    <3>1. Given[Destinations[j]] > 0
      BY <2>1, GivenFacts
    <3>2. Given[Destinations[i]] >= Rooms[Destinations[i]]
      BY <1>1, <2>1, <2>3, <3>1 DEF ShareInv, Shared, Compacted
    <3> QED
      BY <2>1, <3>2, GivenFacts
  <2> QED
    BY <2>2, <2>3
<1> QED
  BY <1>1, ShareAlways, PTL

\* Mode auto levels the free capacities: a destination that was picked from
\* the sorted deque is at most one below the emptiest one, for any capacities
\* and any interleaving; only the first pick comes before the first sort.
THEOREM AutoIsLevel == ~Overlap /\ Spec => []AutoLevels
<1>1. ASSUME ShareInv PROVE AutoLevels
  <2> SUFFICES ASSUME round > 0, req[round].mode = "auto", NEW h \in Listed,
                      Assigned(h) > (IF PickedUnsorted(h) THEN 1 ELSE 0),
                      NEW n \in DOMAIN dest_caps
               PROVE  Room(dest_caps[n].host) - Assigned(dest_caps[n].host)
                        <= Room(h) - Assigned(h) + 1
    BY DEF AutoLevels, Level
  <2>1. TypeOK /\ h \in Hosts
    BY <1>1, ListedFacts DEF ShareInv, TypeInv
  <2>2. dest_caps[n].host \in Hosts /\ n \in 1 .. Len(dest_caps)
    BY <2>1, GivenFacts
  <2>3. CASE ~Launched
    <3>1. Assigned(h) = 0
      BY <1>1, <2>1, <2>3, NotLaunched
    <3> QED
      BY <3>1
  <2>4. CASE Launched
    <3>1. PickedUnsorted(h) <=> First(h, Rooms, req[round].ob)
      <4>1. ASSUME NEW m \in 1 .. Len(Destinations), NEW i \in 1 .. m - 1
            PROVE  Room(Destinations[i]) = Rooms[Destinations[i]]
        <5>1. i \in 1 .. Len(Destinations)
          BY ListedFacts
        <5> QED
          BY <2>1, <5>1, ListedFacts, GivenFacts
      <4>2. ASSUME PickedUnsorted(h) PROVE First(h, Rooms, req[round].ob)
        <5>1. PICK m \in 1 .. Len(Destinations) :
                /\ h = Destinations[m]
                /\ \A i \in 1 .. m - 1 : ~req[round].ob /\ Room(Destinations[i]) < 1
          BY <4>2, ListedFacts DEF PickedUnsorted
        <5> QED
          BY <4>1, <5>1 DEF First
      <4>3. ASSUME First(h, Rooms, req[round].ob) PROVE PickedUnsorted(h)
        <5>1. PICK m \in 1 .. Len(Destinations) :
                /\ h = Destinations[m]
                /\ \A i \in 1 .. m - 1 : ~req[round].ob /\ Rooms[Destinations[i]] < 1
          BY <4>3 DEF First
        <5>2. \A i \in 1 .. m - 1 : ~req[round].ob /\ Room(Destinations[i]) < 1
          BY <4>1, <5>1
        <5>3. m \in DOMAIN Destinations
          BY ListedFacts
        <5> QED
          BY <5>1, <5>2, <5>3 DEF PickedUnsorted
      <4> QED
        BY <4>2, <4>3
    <3>2. Given[h] > (IF First(h, Rooms, req[round].ob) THEN 1 ELSE 0)
      BY <2>1, <3>1, GivenFacts
    <3>3. Shared(dest_caps, Given, Rooms, "auto", req[round].ob)
      BY <1>1, <2>4 DEF ShareInv
    <3>4. dest_caps[n].cap <= Rooms[h] - Given[h] + 1
      BY <2>2, <3>2, <3>3 DEF Shared, Levelled
    <3>5. dest_caps[n].cap = Rooms[dest_caps[n].host] - Given[dest_caps[n].host]
      BY <2>2, <3>3 DEF Shared, Counted
    <3>6. /\ Assigned(h) = Given[h] /\ Room(h) = Rooms[h]
          /\ Assigned(dest_caps[n].host) = Given[dest_caps[n].host]
          /\ Room(dest_caps[n].host) = Rooms[dest_caps[n].host]
      BY <2>1, <2>2, GivenFacts
    <3> QED
      BY <3>4, <3>5, <3>6
  <2> QED
    BY <2>3, <2>4
<1> QED
  BY <1>1, ShareAlways, PTL

=============================================================================
