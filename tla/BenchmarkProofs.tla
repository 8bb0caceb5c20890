--------------------------- MODULE BenchmarkProofs ---------------------------
(***************************************************************************)
(* Proofs about Benchmark for every number of rounds and of timeouts.      *)
(***************************************************************************)
EXTENDS Benchmark, SequenceTheorems, FiniteSetTheorems, TLAPS

\* The requests of the stages X in a set J, and how many of them are being
\* executed.
Sel(J, X) == {j \in J : j.stage \in X}

Num(X) == Cardinality(Sel(jobs, X))

\* The stages whose requests go to server A.
StagesOfA == {"start", "toB", "stop"}

\* Where main is, by the rounds done.
RoundsDone ==
    /\ waiting => stage \in Stages
    /\ stage = "start" => i = 0
    /\ stage \in {"toB", "toA"} => i < n
    /\ stage \in {"stop", "success"} => i = n

\* The number of requests to migrate sent so far, at most.
SentMoves ==
    CASE stage = "start"              -> 0
      [] stage = "toB"                -> 2 * i + (IF waiting THEN 1 ELSE 0)
      [] stage = "toA"                -> 2 * i + (IF waiting THEN 2 ELSE 1)
      [] OTHER                        -> 2 * n

\* The inductive strengthening of TypeOK: a request moves the domain at most
\* once.
TypeInv ==
    /\ TypeOK
    /\ IsFiniteSet(jobs)
    /\ RoundsDone
    /\ moves + Num({"toB", "toA"}) <= SentMoves

\* NeverFurtherBehind in terms of these counts.
Behind ==
    /\ Num(StagesOfA) + Len(results["A"])
         <= retries + (IF waiting /\ stage \in StagesOfA THEN 1 ELSE 0)
    /\ Num({"toA"}) + Len(results["B"]) <= (IF waiting /\ stage = "toA" THEN 1 ELSE 0)

\* A return trip whose result the client has not read yet.
Arrived == IF results["B"] # <<>> /\ Head(results["B"]).ok THEN 1 ELSE 0

\* The domain has left A and has not come back.
Away == IF dom = "B" THEN 1 ELSE 0

\* The number of requests to go to B that were sent.
SentOut == i + (IF stage = "toA" \/ (stage = "toB" /\ waiting) THEN 1 ELSE 0)

\* Every migration is half of a round trip; the client counts the round trips
\* by the results of B, and no trip starts that it did not ask for.
TripsCounted ==
    title = MigrateDone /\ stage # "failure" =>
        /\ \A k \in 1 .. Len(results["B"]) : results["B"][k].title = title
        /\ moves = 2 * (i + Arrived) + Away
        /\ i + Arrived + Away + Num({"toB"}) <= SentOut

\* Without a timeout the client waits for the only request there is.
InStep ==
    retries = 0 =>
        /\ \A j \in jobs : j.stage = stage
        /\ (stage = "stop" /\ results["A"] # <<>> /\ Head(results["A"]).ok => dom = "off")
        /\ (stage = "success" => dom = "off")

\* The inductive strengthening of TimesAreMeasured.
TripInv ==
    /\ TypeInv
    /\ Behind
    /\ TripsCounted
    /\ InStep

-----------------------------------------------------------------------------
(* Counting requests. *)

LEMMA StageFacts ==
    /\ Stages = {"start", "toB", "toA", "stop"}
    /\ Topic["start"] = "A" /\ Topic["toB"] = "A" /\ Topic["toA"] = "B" /\ Topic["stop"] = "A"
    /\ \A x \in Stages : Topic[x] \in Servers
BY DEF Stages, Topic, Servers

LEMMA SelFinite ==
    ASSUME NEW J, IsFiniteSet(J), NEW X
    PROVE  IsFiniteSet(Sel(J, X)) /\ Cardinality(Sel(J, X)) \in Nat
<1>1. Sel(J, X) \in SUBSET J
  BY DEF Sel
<1> QED
  BY <1>1, FS_Subset, FS_CardinalityType

LEMMA SelAdd ==
    ASSUME NEW J, IsFiniteSet(J), NEW X, NEW j, j \notin J
    PROVE  /\ IsFiniteSet(J \cup {j})
           /\ Cardinality(Sel(J \cup {j}, X)) =
                Cardinality(Sel(J, X)) + (IF j.stage \in X THEN 1 ELSE 0)
<1>f. IsFiniteSet(Sel(J, X)) /\ Cardinality(Sel(J, X)) \in Nat
  BY SelFinite
<1>1. IsFiniteSet(J \cup {j})
  BY FS_AddElement
<1>2. CASE j.stage \in X
  <2>1. Sel(J \cup {j}, X) = Sel(J, X) \cup {j} /\ j \notin Sel(J, X)
    BY <1>2 DEF Sel
  <2>2. Cardinality(Sel(J, X) \cup {j}) = Cardinality(Sel(J, X)) + 1
    BY <1>f, <2>1, FS_AddElement
  <2> QED
    BY <1>1, <1>2, <2>1, <2>2
<1>3. CASE j.stage \notin X
  <2>1. Sel(J \cup {j}, X) = Sel(J, X)
    BY <1>3 DEF Sel
  <2> QED
    BY <1>f, <1>1, <1>3, <2>1
<1> QED
  BY <1>2, <1>3

LEMMA SelRemove ==
    ASSUME NEW J, IsFiniteSet(J), NEW X, NEW j \in J
    PROVE  /\ IsFiniteSet(J \ {j})
           /\ Cardinality(Sel(J, X)) =
                Cardinality(Sel(J \ {j}, X)) + (IF j.stage \in X THEN 1 ELSE 0)
<1>1. IsFiniteSet(J \ {j}) /\ j \notin J \ {j}
  BY FS_RemoveElement
<1>2. (J \ {j}) \cup {j} = J
  OBVIOUS
<1>3. Cardinality(Sel((J \ {j}) \cup {j}, X)) =
        Cardinality(Sel(J \ {j}, X)) + (IF j.stage \in X THEN 1 ELSE 0)
  BY <1>1, SelAdd
<1> QED
  BY <1>1, <1>2, <1>3

LEMMA SelTopic ==
    ASSUME NEW J, \A j \in J : j.stage \in Stages
    PROVE  /\ {j \in J : Topic[j.stage] = "A"} = Sel(J, StagesOfA)
           /\ {j \in J : Topic[j.stage] = "B"} = Sel(J, {"toA"})
BY StageFacts DEF Sel, StagesOfA

LEMMA UnreadFacts ==
    ASSUME TypeOK
    PROVE  /\ Unread("A") = Num(StagesOfA) + Len(results["A"])
           /\ Unread("B") = Num({"toA"}) + Len(results["B"])
           /\ Len(results["A"]) \in Nat /\ Len(results["B"]) \in Nat
<1>1. \A j \in jobs : j.stage \in Stages
  BY DEF TypeOK
<1>2. results["A"] \in Seq(ResultType) /\ results["B"] \in Seq(ResultType)
  BY DEF TypeOK, Servers
<1> QED
  BY <1>1, <1>2, SelTopic, LenProperties DEF Unread, Num

LEMMA BehindEquiv ==
    ASSUME TypeOK, RoundsDone
    PROVE  NeverFurtherBehind <=> Behind
<1>1. /\ Unread("A") = Num(StagesOfA) + Len(results["A"])
      /\ Unread("B") = Num({"toA"}) + Len(results["B"])
  BY UnreadFacts
<1>2. waiting => /\ (Topic[stage] = "A" <=> stage \in StagesOfA)
                 /\ (Topic[stage] = "B" <=> stage = "toA")
  BY StageFacts DEF RoundsDone, StagesOfA
<1>3. retries \in Nat
  BY Parameters DEF TypeOK, Parameters
<1>4. NeverFurtherBehind <=>
        /\ Unread("A") <= retries + (IF waiting /\ Topic[stage] = "A" THEN 1 ELSE 0)
        /\ Unread("B") <= 0 + (IF waiting /\ Topic[stage] = "B" THEN 1 ELSE 0)
  BY DEF NeverFurtherBehind, Servers
<1>5. /\ (IF waiting /\ Topic[stage] = "A" THEN 1 ELSE 0)
           = (IF waiting /\ stage \in StagesOfA THEN 1 ELSE 0)
      /\ 0 + (IF waiting /\ Topic[stage] = "B" THEN 1 ELSE 0)
           = (IF waiting /\ stage = "toA" THEN 1 ELSE 0)
  BY <1>2
<1> QED
  BY <1>1, <1>4, <1>5 DEF Behind

-----------------------------------------------------------------------------
(* What the actions change. *)

LEMMA NumType ==
    ASSUME IsFiniteSet(jobs), NEW X
    PROVE  Num(X) \in Nat
BY SelFinite DEF Num

\* A request that is sent is executed or lost.
LEMMA SendNum ==
    ASSUME TypeOK, IsFiniteSet(jobs), Send, NEW X
    PROVE  /\ IsFiniteSet(jobs') /\ Num(X) \in Nat /\ Num(X)' \in Nat
           /\ Num(X)' <= Num(X) + (IF stage \in X THEN 1 ELSE 0)
<1>1. sent' = sent + 1 /\ sent \in Nat
  BY DEF Send, TypeOK
<1> DEFINE j == [id |-> sent', stage |-> stage]
<1>2. j \notin jobs /\ j.stage = stage
  BY <1>1 DEF TypeOK
<1>3. jobs' = jobs \/ jobs' = jobs \cup {j}
  BY DEF Send
<1> HIDE DEF j
<1>4. Num(X) \in Nat
  BY NumType
<1>5. CASE jobs' = jobs
  BY <1>4, <1>5 DEF Num
<1>6. CASE jobs' = jobs \cup {j}
  <2>1. /\ IsFiniteSet(jobs \cup {j})
        /\ Cardinality(Sel(jobs \cup {j}, X)) =
             Cardinality(Sel(jobs, X)) + (IF j.stage \in X THEN 1 ELSE 0)
    BY <1>2, SelAdd
  <2>2. Num(X)' = Num(X) + (IF stage \in X THEN 1 ELSE 0)
    BY <1>2, <1>6, <2>1 DEF Num
  <2> QED
    BY <1>4, <1>6, <2>1, <2>2
<1> QED
  BY <1>3, <1>5, <1>6

\* A request that ends is no longer executed.
LEMMA FinishNum ==
    ASSUME IsFiniteSet(jobs), NEW j \in jobs, Finish(j), NEW X
    PROVE  /\ IsFiniteSet(jobs') /\ Num(X) \in Nat /\ Num(X)' \in Nat
           /\ Num(X) = Num(X)' + (IF j.stage \in X THEN 1 ELSE 0)
<1>1. jobs' = jobs \ {j}
  BY DEF Finish
<1>2. /\ IsFiniteSet(jobs \ {j})
      /\ Cardinality(Sel(jobs, X)) =
           Cardinality(Sel(jobs \ {j}, X)) + (IF j.stage \in X THEN 1 ELSE 0)
  BY SelRemove
<1>3. Cardinality(Sel(jobs \ {j}, X)) \in Nat
  BY <1>2, SelFinite
<1> QED
  BY <1>1, <1>2, <1>3, NumType DEF Num

\* What the end of a request changes: the place of the domain, the number of
\* migrations and the results on its topic.
Ended(x, ok) ==
    /\ ok => dom = From[x] /\ dom' = To[x]
    /\ ~ok => dom' = dom
    /\ moves' = IF ok /\ x \in {"toB", "toA"} THEN moves + 1 ELSE moves
    /\ results' = [results EXCEPT ![Topic[x]] =
                     Append(@, [title |-> ResultTitle[x], ok |-> ok])]
    /\ UNCHANGED <<title, up, client, lost, sent>>

LEMMA FinishEffect ==
    ASSUME TypeOK, NEW j \in jobs, Finish(j)
    PROVE  j.stage \in Stages /\ \E ok \in BOOLEAN : Ended(j.stage, ok)
<1>1. j.stage \in Stages
  BY DEF TypeOK
<1>2. PICK ok \in BOOLEAN :
         /\ ok => dom = From[j.stage]
         /\ dom' = IF ok THEN To[j.stage] ELSE dom
         /\ moves' = IF ok /\ j.stage \in {"toB", "toA"} THEN moves + 1 ELSE moves
         /\ results' = [results EXCEPT ![Topic[j.stage]] =
                          Append(@, [title |-> ResultTitle[j.stage], ok |-> ok])]
  BY DEF Finish
<1>3. UNCHANGED <<title, up, client, lost, sent>>
  BY DEF Finish
<1>4. Ended(j.stage, ok)
  BY <1>2, <1>3 DEF Ended
<1> QED
  BY <1>1, <1>4

\* One more result on the topic of the request, the other topic as it was.
LEMMA EndedResults ==
    ASSUME TypeOK, NEW x \in Stages, NEW ok \in BOOLEAN, Ended(x, ok)
    PROVE  /\ results' \in [Servers -> Seq(ResultType)]
           /\ Len(results'[Topic[x]]) = Len(results[Topic[x]]) + 1
           /\ \A k \in 1 .. Len(results[Topic[x]]) :
                results'[Topic[x]][k] = results[Topic[x]][k]
           /\ results'[Topic[x]][Len(results[Topic[x]]) + 1].title = ResultTitle[x]
           /\ results'[Topic[x]][Len(results[Topic[x]]) + 1].ok = ok
           /\ \A s \in Servers : s # Topic[x] => results'[s] = results[s]
           /\ Len(results[Topic[x]]) \in Nat
<1> DEFINE e == [title |-> ResultTitle[x], ok |-> ok]
           q == results[Topic[x]]
<1>1. Topic[x] \in Servers /\ q \in Seq(ResultType) /\ Len(q) \in Nat
  BY StageFacts, LenProperties DEF TypeOK
<1>2. ResultTitle[x] \in {Started, MigrateDone, Migrated, Stopped}
  BY StageFacts DEF TypeOK, ResultTitle
<1>3. e \in ResultType /\ e.title = ResultTitle[x] /\ e.ok = ok
  BY <1>2 DEF ResultType
<1>4. results' = [results EXCEPT ![Topic[x]] = Append(q, e)]
  BY DEF Ended
<1> HIDE DEF e, q
<1>5. /\ Append(q, e) \in Seq(ResultType) /\ Len(Append(q, e)) = Len(q) + 1
      /\ \A k \in 1 .. Len(q) : Append(q, e)[k] = q[k]
      /\ Append(q, e)[Len(q) + 1] = e
  BY <1>1, <1>3, AppendProperties
<1>6. /\ results'[Topic[x]] = Append(q, e)
      /\ \A s \in Servers : s # Topic[x] => results'[s] = results[s]
      /\ results' \in [Servers -> Seq(ResultType)]
  BY <1>1, <1>4, <1>5 DEF TypeOK
<1> QED
  BY <1>1, <1>3, <1>5, <1>6 DEF q

\* What main does with the result r.
Outcome(r) ==
    \/ stage = "start" /\ stage' = "start" /\ i' = i
    \/ stage' = "failure" /\ i' = i
    \/ stage = "start" /\ stage' = "toB" /\ i' = i
    \/ stage = "toB" /\ stage' = "toA" /\ i' = i
    \/ /\ stage = "toA" /\ i' = i + 1
       /\ stage' = IF i + 1 = n THEN "stop" ELSE "toB"
       /\ r.title = MigrateDone => r.ok
    \/ stage = "stop" /\ stage' = "success" /\ i' = i /\ r.ok

LEMMA ReceiveEffect ==
    ASSUME TypeOK, Receive
    PROVE  /\ stage \in Stages /\ waiting /\ waiting' = FALSE
           /\ Outcome(Head(results[Topic[stage]]))
           /\ results[Topic[stage]] # <<>>
           /\ results' = [results EXCEPT ![Topic[stage]] = Tail(@)]
           /\ UNCHANGED <<title, up, retries, lost, sent, jobs, dom, moves>>
<1> DEFINE r == Head(results[Topic[stage]])
<1>1. /\ stage \in Stages /\ waiting /\ waiting' = FALSE
      /\ results[Topic[stage]] # <<>>
      /\ results' = [results EXCEPT ![Topic[stage]] = Tail(@)]
      /\ UNCHANGED <<title, up, retries, lost, sent, jobs, dom, moves>>
  BY DEF Receive, Pop
<1>2. /\ i' = IF Verdict(r) = "next" /\ stage = "toA" THEN i + 1 ELSE i
      /\ stage' = CASE Verdict(r) = "again" -> stage
                    [] Verdict(r) = "fail"  -> "failure"
                    [] Verdict(r) = "next"  -> After(i')
  BY DEF Receive
<1> HIDE DEF r
<1>3. Outcome(r)
  <2>1. CASE stage = "start"
    <3>1. Verdict(r) \in {"again", "fail", "next"} /\ After(i') = "toB"
      BY <2>1 DEF Verdict, After
    <3> QED
      BY <1>2, <2>1, <3>1 DEF Outcome
  <2>2. CASE stage = "toB"
    <3>1. Verdict(r) \in {"fail", "next"} /\ After(i') = "toA"
      BY <2>2 DEF Verdict, After
    <3> QED
      BY <1>2, <2>2, <3>1 DEF Outcome
  <2>3. CASE stage = "toA"
    <3>1. /\ Verdict(r) \in {"fail", "next"}
          /\ Verdict(r) = "next" => (r.title = MigrateDone => r.ok)
      BY <2>3 DEF Verdict
    <3>2. After(i') = IF i' = n THEN "stop" ELSE "toB"
      BY <2>3 DEF After
    <3> QED
      BY <1>2, <2>3, <3>1, <3>2 DEF Outcome
  <2>4. CASE stage = "stop"
    <3>1. /\ Verdict(r) \in {"fail", "next"} /\ After(i') = "success"
          /\ Verdict(r) = "next" => r.ok
      BY <2>4 DEF Verdict, After
    <3> QED
      BY <1>2, <2>4, <3>1 DEF Outcome
  <2> QED
    BY <1>1, <2>1, <2>2, <2>3, <2>4, StageFacts
<1> QED
  BY <1>1, <1>3 DEF r

\* One result less on the topic, the other topic as it was.
LEMMA ReceiveResults ==
    ASSUME TypeOK, NEW s \in Servers, results[s] # <<>>,
           results' = [results EXCEPT ![s] = Tail(@)]
    PROVE  /\ results' \in [Servers -> Seq(ResultType)]
           /\ Len(results[s]) \in Nat \ {0} /\ Len(results'[s]) = Len(results[s]) - 1
           /\ \A k \in 1 .. Len(results'[s]) : results'[s][k] = results[s][k + 1]
           /\ Head(results[s]) = results[s][1]
           /\ \A t \in Servers : t # s => results'[t] = results[t]
<1>1. results[s] \in Seq(ResultType)
  BY DEF TypeOK
<1>2. /\ Tail(results[s]) \in Seq(ResultType) /\ Len(results[s]) \in Nat \ {0}
      /\ Len(Tail(results[s])) = Len(results[s]) - 1
      /\ \A k \in 1 .. Len(Tail(results[s])) : Tail(results[s])[k] = results[s][k + 1]
      /\ Head(results[s]) = results[s][1]
  BY <1>1, HeadTailProperties, EmptySeq
<1>3. /\ results'[s] = Tail(results[s])
      /\ \A t \in Servers : t # s => results'[t] = results[t]
      /\ results' \in [Servers -> Seq(ResultType)]
  BY <1>2 DEF TypeOK
<1> QED
  BY <1>2, <1>3

-----------------------------------------------------------------------------
(* Type correctness. *)

LEMMA TypeInit == Init => TypeInv
<1> SUFFICES ASSUME Init PROVE TypeInv
  OBVIOUS
<1>1. Sel(jobs, {"toB", "toA"}) = {} /\ jobs = {}
  BY DEF Init, Sel
<1>2. Num({"toB", "toA"}) = 0 /\ IsFiniteSet(jobs)
  BY <1>1, FS_EmptySet DEF Num
<1>3. TypeOK
  <2>1. results \in [Servers -> Seq(ResultType)]
    BY EmptySeq DEF Init
  <2>2. i \in 0 .. n /\ retries \in 0 .. MaxRetries /\ sent \in Nat /\ moves \in 0 .. 2 * n
    BY Parameters DEF Init, Parameters
  <2>3. /\ title \in {MigrateDone, Migrated} /\ up \subseteq Servers
        /\ stage \in Stages /\ waiting \in BOOLEAN /\ lost \in BOOLEAN
        /\ dom \in Servers \cup {"off"} /\ jobs = {}
    BY StageFacts DEF Init
  <2> QED
    BY <2>1, <2>2, <2>3 DEF TypeOK
<1>4. RoundsDone /\ SentMoves = 0 /\ moves = 0
  BY DEF Init, RoundsDone, SentMoves
<1> QED
  BY <1>2, <1>3, <1>4 DEF TypeInv

\* The types of the numbers in the invariant.
LEMMA Numbers ==
    ASSUME TypeOK
    PROVE  /\ n \in Nat /\ n > 0 /\ i \in Nat /\ i <= n /\ moves \in Nat
           /\ retries \in Nat /\ sent \in Nat
           /\ dom \in {"A", "B", "off"}
BY Parameters DEF TypeOK, Parameters, Servers

LEMMA SendType ==
    ASSUME TypeInv, Send
    PROVE  TypeInv'
<1>t. TypeOK /\ IsFiniteSet(jobs) /\ RoundsDone
  BY DEF TypeInv
<1>n. n \in Nat /\ i \in Nat /\ i <= n /\ moves \in Nat /\ sent \in Nat
  BY <1>t, Numbers
<1>1. /\ stage \in Stages /\ waiting = FALSE /\ waiting' = TRUE /\ sent' = sent + 1
      /\ UNCHANGED <<title, up, stage, i, retries, results, dom, moves>>
  BY <1>t DEF Send, TypeOK
<1>2. jobs' \subseteq [id : 1 .. sent', stage : Stages]
  <2>1. [id : 1 .. sent, stage : Stages] \subseteq [id : 1 .. sent', stage : Stages]
    BY <1>n, <1>1
  <2>2. [id |-> sent', stage |-> stage] \in [id : 1 .. sent', stage : Stages]
    BY <1>n, <1>1
  <2> QED
    BY <1>t, <2>1, <2>2 DEF Send, TypeOK
<1>3. lost' \in BOOLEAN
  BY DEF Send
<1>4. TypeOK'
  BY <1>t, <1>n, <1>1, <1>2, <1>3 DEF TypeOK
<1>5. /\ IsFiniteSet(jobs') /\ Num({"toB", "toA"})' \in Nat /\ Num({"toB", "toA"}) \in Nat
      /\ Num({"toB", "toA"})' <=
           Num({"toB", "toA"}) + (IF stage \in {"toB", "toA"} THEN 1 ELSE 0)
  BY <1>t, SendNum
<1>6. RoundsDone'
  BY <1>t, <1>1 DEF RoundsDone
<1>7. SentMoves' = SentMoves + (IF stage \in {"toB", "toA"} THEN 1 ELSE 0) /\ SentMoves \in Nat
  BY <1>n, <1>1, StageFacts DEF SentMoves
<1>8. moves + Num({"toB", "toA"}) <= SentMoves
  BY DEF TypeInv
<1>9. moves' + Num({"toB", "toA"})' <= SentMoves'
  BY <1>n, <1>1, <1>5, <1>7, <1>8
<1> QED
  BY <1>4, <1>5, <1>6, <1>9 DEF TypeInv

LEMMA FailsType ==
    ASSUME TypeInv, SendFails
    PROVE  TypeInv'
<1>t. TypeOK /\ IsFiniteSet(jobs) /\ RoundsDone
  BY DEF TypeInv
<1>n. n \in Nat /\ i \in Nat /\ i <= n /\ moves \in Nat
  BY <1>t, Numbers
<1>1. /\ stage \in Stages /\ waiting = FALSE /\ stage' = "failure"
      /\ UNCHANGED <<title, up, waiting, i, retries, lost, sent, jobs, results, dom, moves>>
  BY <1>t DEF SendFails, TypeOK
<1>2. TypeOK' /\ RoundsDone'
  BY <1>t, <1>1 DEF TypeOK, RoundsDone
<1>3. Num({"toB", "toA"})' = Num({"toB", "toA"}) /\ Num({"toB", "toA"}) \in Nat
  BY <1>t, <1>1, NumType DEF Num
<1>4. stage \in {"toB", "toA"} => i < n
  BY <1>t DEF RoundsDone
<1>5. SentMoves \in Nat /\ SentMoves <= 2 * n /\ SentMoves' = 2 * n
  BY <1>n, <1>1, <1>4, StageFacts DEF SentMoves
<1>6. moves + Num({"toB", "toA"}) <= SentMoves
  BY DEF TypeInv
<1>7. moves' + Num({"toB", "toA"})' <= SentMoves'
  BY <1>n, <1>1, <1>3, <1>5, <1>6
<1> QED
  BY <1>t, <1>1, <1>2, <1>7 DEF TypeInv

LEMMA TimeoutType ==
    ASSUME TypeInv, Timeout
    PROVE  TypeInv'
<1>t. TypeOK /\ IsFiniteSet(jobs) /\ RoundsDone
  BY DEF TypeInv
<1>1. /\ stage = "start" /\ waiting' = FALSE /\ retries' = retries + 1
      /\ UNCHANGED <<title, up, stage, i, lost, sent, jobs, results, dom, moves>>
      /\ retries < MaxRetries
  BY <1>t, Parameters DEF Timeout, TypeOK, Parameters
<1>2. TypeOK' /\ RoundsDone'
  <2>1. retries' \in 0 .. MaxRetries
    BY <1>t, <1>1, Parameters DEF TypeOK, Parameters
  <2> QED
    BY <1>t, <1>1, <2>1 DEF TypeOK, RoundsDone
<1>3. SentMoves' = SentMoves /\ Num({"toB", "toA"})' = Num({"toB", "toA"})
  BY <1>1 DEF SentMoves, Num
<1> QED
  BY <1>1, <1>2, <1>3 DEF TypeInv

LEMMA ReceiveType ==
    ASSUME TypeInv, Receive
    PROVE  TypeInv'
<1>t. TypeOK /\ IsFiniteSet(jobs) /\ RoundsDone
  BY DEF TypeInv
<1>n. n \in Nat /\ i \in Nat /\ i <= n /\ moves \in Nat /\ n > 0
  BY <1>t, Numbers
<1>1. /\ stage \in Stages /\ waiting /\ waiting' = FALSE
      /\ Outcome(Head(results[Topic[stage]]))
      /\ results[Topic[stage]] # <<>>
      /\ results' = [results EXCEPT ![Topic[stage]] = Tail(@)]
      /\ UNCHANGED <<title, up, retries, lost, sent, jobs, dom, moves>>
  BY <1>t, ReceiveEffect
<1>2. results' \in [Servers -> Seq(ResultType)]
  BY <1>t, <1>1, StageFacts, ReceiveResults
<1>3. Num({"toB", "toA"})' = Num({"toB", "toA"}) /\ Num({"toB", "toA"}) \in Nat
  BY <1>t, <1>1, NumType DEF Num
<1>4. moves + Num({"toB", "toA"}) <= SentMoves
  BY DEF TypeInv
<1>5. /\ i' \in 0 .. n /\ stage' \in Stages \cup {"success", "failure"}
      /\ RoundsDone' /\ SentMoves \in Nat /\ SentMoves' \in Nat /\ SentMoves <= SentMoves'
  <2>1. CASE stage' = "failure" /\ i' = i
    <3>1. SentMoves <= 2 * n /\ SentMoves \in Nat /\ SentMoves' = 2 * n
      BY <1>t, <1>n, <1>1, <2>1, StageFacts DEF SentMoves, RoundsDone
    <3> QED
      BY <1>n, <1>1, <2>1, <3>1 DEF RoundsDone
  <2>2. CASE stage = "start" /\ stage' \in {"start", "toB"} /\ i' = i
    <3>1. i = 0 /\ SentMoves = 0 /\ SentMoves' = 0
      BY <1>t, <1>1, <2>2 DEF SentMoves, RoundsDone
    <3> QED
      BY <1>n, <1>1, <2>2, <3>1, StageFacts DEF RoundsDone
  <2>3. CASE stage = "toB" /\ stage' = "toA" /\ i' = i
    <3>1. SentMoves = 2 * i + 1 /\ SentMoves' = 2 * i + 1 /\ i < n
      BY <1>t, <1>1, <2>3 DEF SentMoves, RoundsDone
    <3> QED
      BY <1>n, <1>1, <2>3, <3>1, StageFacts DEF RoundsDone
  <2>4. CASE stage = "toA" /\ i' = i + 1 /\ stage' = IF i + 1 = n THEN "stop" ELSE "toB"
    <3>1. SentMoves = 2 * i + 2 /\ i < n
      BY <1>t, <1>1, <2>4 DEF SentMoves, RoundsDone
    <3>2. SentMoves' = 2 * (i + 1)
      BY <1>n, <1>1, <2>4 DEF SentMoves
    <3> QED
      BY <1>n, <1>1, <2>4, <3>1, <3>2, StageFacts DEF RoundsDone
  <2>5. CASE stage = "stop" /\ stage' = "success" /\ i' = i
    <3>1. SentMoves = 2 * n /\ SentMoves' = 2 * n /\ i = n
      BY <1>t, <2>5 DEF SentMoves, RoundsDone
    <3> QED
      BY <1>n, <1>1, <2>5, <3>1 DEF RoundsDone
  <2> QED
    BY <1>1, <2>1, <2>2, <2>3, <2>4, <2>5 DEF Outcome
<1>6. TypeOK'
  BY <1>t, <1>1, <1>2, <1>5 DEF TypeOK
<1>7. moves' + Num({"toB", "toA"})' <= SentMoves'
  BY <1>n, <1>1, <1>3, <1>4, <1>5
<1> QED
  BY <1>t, <1>1, <1>5, <1>6, <1>7 DEF TypeInv

LEMMA FinishType ==
    ASSUME TypeInv, NEW j \in jobs, Finish(j)
    PROVE  TypeInv'
<1>t. TypeOK /\ IsFiniteSet(jobs) /\ RoundsDone
  BY DEF TypeInv
<1>n. n \in Nat /\ i \in Nat /\ i <= n /\ moves \in Nat
  BY <1>t, Numbers
<1>1. PICK ok \in BOOLEAN : Ended(j.stage, ok)
  BY <1>t, FinishEffect
<1>2. j.stage \in Stages /\ jobs' = jobs \ {j}
  BY <1>t, FinishEffect DEF Finish
<1>3. /\ IsFiniteSet(jobs') /\ Num({"toB", "toA"})' \in Nat /\ Num({"toB", "toA"}) \in Nat
      /\ Num({"toB", "toA"}) =
           Num({"toB", "toA"})' + (IF j.stage \in {"toB", "toA"} THEN 1 ELSE 0)
  BY <1>t, FinishNum
<1>4. /\ UNCHANGED <<title, up, stage, waiting, i, retries, lost, sent>>
      /\ dom' \in {dom, To[j.stage]}
      /\ moves' = IF ok /\ j.stage \in {"toB", "toA"} THEN moves + 1 ELSE moves
  BY <1>1 DEF Ended, client
<1>5. results' \in [Servers -> Seq(ResultType)]
  BY <1>t, <1>1, <1>2, EndedResults
<1>6. RoundsDone' /\ SentMoves' = SentMoves
  BY <1>t, <1>4 DEF RoundsDone, SentMoves
<1>7. SentMoves \in Nat /\ SentMoves <= 2 * n
  BY <1>t, <1>n, StageFacts DEF SentMoves, RoundsDone
<1>8. moves + Num({"toB", "toA"}) <= SentMoves
  BY DEF TypeInv
<1>9. moves' \in Nat /\ moves' + Num({"toB", "toA"})' <= SentMoves
  BY <1>n, <1>3, <1>4, <1>7, <1>8
<1>10. moves' \in 0 .. 2 * n
  BY <1>n, <1>3, <1>7, <1>9
<1>11. dom' \in Servers \cup {"off"}
  <2>1. To[j.stage] \in {"A", "B", "off"}
    BY <1>2, StageFacts DEF To
  <2> QED
    BY <1>t, <1>4, <2>1 DEF TypeOK, Servers
<1>12. TypeOK'
  BY <1>t, <1>2, <1>4, <1>5, <1>10, <1>11 DEF TypeOK
<1> QED
  BY <1>3, <1>6, <1>9, <1>12 DEF TypeInv

LEMMA TypeNext ==
    ASSUME TypeInv, [Next]_vars
    PROVE  TypeInv'
<1>1. ASSUME UNCHANGED <<title, client, lost, sent, jobs, results, dom, moves>>,
             up' \subseteq Servers
      PROVE  TypeInv'
  <2>1. UNCHANGED <<stage, waiting, i, retries>>
    BY <1>1 DEF client
  <2>2. TypeOK' /\ RoundsDone'
    BY <1>1, <2>1 DEF TypeInv, TypeOK, RoundsDone
  <2>3. SentMoves' = SentMoves /\ Num({"toB", "toA"})' = Num({"toB", "toA"})
    BY <1>1, <2>1 DEF SentMoves, Num
  <2> QED
    BY <1>1, <2>2, <2>3 DEF TypeInv
<1>2. CASE UNCHANGED vars
  BY <1>1, <1>2 DEF vars, TypeInv, TypeOK
<1>3. CASE \E s \in Servers : Subscribe(s)
  BY <1>1, <1>3 DEF Subscribe, TypeInv, TypeOK
<1> QED
  BY <1>2, <1>3, SendType, FailsType, TimeoutType, ReceiveType, FinishType DEF Next, Daemons

\* Every variable of Benchmark keeps its type: the client never does more than
\* n rounds, and never more than 2n migrations come of its requests, however
\* often it repeats the start.
THEOREM TypeCorrect == Spec => []TypeOK
<1>1. TypeInv /\ [Next]_vars => TypeInv'
  BY TypeNext
<1>2. TypeInv => TypeOK
  BY DEF TypeInv
<1> QED
  BY <1>1, <1>2, TypeInit, PTL DEF Spec

-----------------------------------------------------------------------------
(* How far the client is behind. *)

LEMMA LenType ==
    ASSUME TypeOK
    PROVE  /\ results["A"] \in Seq(ResultType) /\ results["B"] \in Seq(ResultType)
           /\ Len(results["A"]) \in Nat /\ Len(results["B"]) \in Nat
<1>1. results["A"] \in Seq(ResultType) /\ results["B"] \in Seq(ResultType)
  BY DEF TypeOK, Servers
<1> QED
  BY <1>1, LenProperties

LEMMA BehindInit == Init => Behind
<1> SUFFICES ASSUME Init PROVE Behind
  OBVIOUS
<1>1. Sel(jobs, StagesOfA) = {} /\ Sel(jobs, {"toA"}) = {}
  BY DEF Init, Sel
<1>2. Num(StagesOfA) = 0 /\ Num({"toA"}) = 0
  BY <1>1, FS_EmptySet DEF Num
<1>3. Len(results["A"]) = 0 /\ Len(results["B"]) = 0
  BY EmptySeq DEF Init, Servers
<1> QED
  BY <1>2, <1>3 DEF Behind, Init

LEMMA SendBehind ==
    ASSUME TypeInv, Behind, Send
    PROVE  Behind'
<1>t. TypeOK /\ IsFiniteSet(jobs)
  BY DEF TypeInv
<1>1. /\ waiting = FALSE /\ waiting' = TRUE /\ UNCHANGED <<stage, retries, results>>
  BY <1>t DEF Send, TypeOK
<1>2. /\ Num(StagesOfA) \in Nat /\ Num(StagesOfA)' \in Nat
      /\ Num(StagesOfA)' <= Num(StagesOfA) + (IF stage \in StagesOfA THEN 1 ELSE 0)
  BY <1>t, SendNum
<1>3. /\ Num({"toA"}) \in Nat /\ Num({"toA"})' \in Nat
      /\ Num({"toA"})' <= Num({"toA"}) + (IF stage \in {"toA"} THEN 1 ELSE 0)
  BY <1>t, SendNum
<1>4. Len(results["A"]) \in Nat /\ Len(results["B"]) \in Nat /\ retries \in Nat
  BY <1>t, LenType, Numbers
<1>5. /\ Num(StagesOfA) + Len(results["A"]) <= retries
      /\ Num({"toA"}) + Len(results["B"]) <= 0
  BY <1>1, <1>2, <1>3, <1>4 DEF Behind
<1>6. Num(StagesOfA)' + Len(results["A"]) <= retries + (IF stage \in StagesOfA THEN 1 ELSE 0)
  BY <1>2, <1>4, <1>5
<1>7. Num({"toA"})' + Len(results["B"]) <= (IF stage = "toA" THEN 1 ELSE 0)
  BY <1>3, <1>4, <1>5
<1> QED
  BY <1>1, <1>6, <1>7 DEF Behind

LEMMA FailsBehind ==
    ASSUME Behind, SendFails
    PROVE  Behind'
<1>1. ~waiting /\ UNCHANGED <<waiting, retries, jobs, results>>
  BY DEF SendFails
<1> QED
  BY <1>1 DEF Behind, Num

LEMMA TimeoutBehind ==
    ASSUME TypeInv, Behind, Timeout
    PROVE  Behind'
<1>t. TypeOK /\ IsFiniteSet(jobs)
  BY DEF TypeInv
<1>1. /\ stage = "start" /\ waiting /\ waiting' = FALSE /\ retries' = retries + 1
      /\ UNCHANGED <<stage, jobs, results>>
  BY DEF Timeout
<1>2. Num(StagesOfA)' = Num(StagesOfA) /\ Num({"toA"})' = Num({"toA"})
  BY <1>1 DEF Num
<1>3. stage \in StagesOfA
  BY <1>1 DEF StagesOfA
<1>4. retries \in Nat
  BY <1>t, Numbers
<1> QED
  BY <1>1, <1>2, <1>3, <1>4 DEF Behind

LEMMA ReceiveBehind ==
    ASSUME TypeInv, Behind, Receive
    PROVE  Behind'
<1>t. TypeOK /\ IsFiniteSet(jobs)
  BY DEF TypeInv
<1>1. /\ stage \in Stages /\ waiting /\ waiting' = FALSE
      /\ results[Topic[stage]] # <<>>
      /\ results' = [results EXCEPT ![Topic[stage]] = Tail(@)]
      /\ UNCHANGED <<retries, jobs>>
  BY <1>t, ReceiveEffect
<1>2. Num(StagesOfA)' = Num(StagesOfA) /\ Num({"toA"})' = Num({"toA"})
  BY <1>1 DEF Num
<1>3. /\ Num(StagesOfA) \in Nat /\ Num({"toA"}) \in Nat /\ retries \in Nat
      /\ Len(results["A"]) \in Nat /\ Len(results["B"]) \in Nat
  BY <1>t, NumType, LenType, Numbers
<1>4. CASE stage = "toA"
  <2>1. Len(results'["B"]) = Len(results["B"]) - 1 /\ results'["A"] = results["A"]
    BY <1>t, <1>1, <1>4, StageFacts, ReceiveResults DEF Servers
  <2>2. stage \notin StagesOfA
    BY <1>4 DEF StagesOfA
  <2> QED
    BY <1>1, <1>2, <1>3, <1>4, <2>1, <2>2 DEF Behind
<1>5. CASE stage \in StagesOfA
  <2>1. Topic[stage] = "A"
    BY <1>5, StageFacts DEF StagesOfA
  <2>2. Len(results'["A"]) = Len(results["A"]) - 1 /\ results'["B"] = results["B"]
    BY <1>t, <1>1, <2>1, ReceiveResults DEF Servers
  <2>3. stage # "toA"
    BY <1>5 DEF StagesOfA
  <2> QED
    BY <1>1, <1>2, <1>3, <1>5, <2>2, <2>3 DEF Behind
<1> QED
  BY <1>1, <1>4, <1>5, StageFacts DEF StagesOfA

LEMMA FinishBehind ==
    ASSUME TypeInv, Behind, NEW j \in jobs, Finish(j)
    PROVE  Behind'
<1>t. TypeOK /\ IsFiniteSet(jobs)
  BY DEF TypeInv
<1>1. PICK ok \in BOOLEAN : Ended(j.stage, ok)
  BY <1>t, FinishEffect
<1>2. j.stage \in Stages /\ UNCHANGED <<stage, waiting, retries>>
  BY <1>t, <1>1, FinishEffect DEF Ended, client
<1>3. /\ Num(StagesOfA) \in Nat /\ Num(StagesOfA)' \in Nat
      /\ Num(StagesOfA) = Num(StagesOfA)' + (IF j.stage \in StagesOfA THEN 1 ELSE 0)
  BY <1>t, FinishNum
<1>4. /\ Num({"toA"}) \in Nat /\ Num({"toA"})' \in Nat
      /\ Num({"toA"}) = Num({"toA"})' + (IF j.stage \in {"toA"} THEN 1 ELSE 0)
  BY <1>t, FinishNum
<1>5. Len(results["A"]) \in Nat /\ Len(results["B"]) \in Nat
  BY <1>t, LenType
<1>6. /\ Len(results'["A"]) = Len(results["A"]) + (IF j.stage \in StagesOfA THEN 1 ELSE 0)
      /\ Len(results'["B"]) = Len(results["B"]) + (IF j.stage \in {"toA"} THEN 1 ELSE 0)
  <2>1. /\ Len(results'[Topic[j.stage]]) = Len(results[Topic[j.stage]]) + 1
        /\ \A s \in Servers : s # Topic[j.stage] => results'[s] = results[s]
    BY <1>t, <1>1, <1>2, EndedResults
  <2>2. CASE j.stage = "toA"
    BY <1>5, <2>1, <2>2, StageFacts DEF Servers, StagesOfA
  <2>3. CASE j.stage \in StagesOfA
    <3>1. Topic[j.stage] = "A" /\ j.stage # "toA"
      BY <2>3, StageFacts DEF StagesOfA
    <3> QED
      BY <1>5, <2>1, <2>3, <3>1 DEF Servers
  <2> QED
    BY <1>2, <2>2, <2>3, StageFacts DEF StagesOfA
<1>7. /\ Num(StagesOfA)' + Len(results'["A"]) = Num(StagesOfA) + Len(results["A"])
      /\ Num({"toA"})' + Len(results'["B"]) = Num({"toA"}) + Len(results["B"])
  <2>1. PICK e \in {0, 1} : e = (IF j.stage \in StagesOfA THEN 1 ELSE 0)
    OBVIOUS
  <2>2. Num(StagesOfA) = Num(StagesOfA)' + e /\ Len(results'["A"]) = Len(results["A"]) + e
    BY <1>3, <1>6, <2>1
  <2>3. PICK f \in {0, 1} : f = (IF j.stage \in {"toA"} THEN 1 ELSE 0)
    OBVIOUS
  <2>4. Num({"toA"}) = Num({"toA"})' + f /\ Len(results'["B"]) = Len(results["B"]) + f
    BY <1>4, <1>6, <2>3
  <2>5. Num(StagesOfA)' + Len(results'["A"]) = Num(StagesOfA) + Len(results["A"])
    <3> DEFINE m == Num(StagesOfA)
                mm == Num(StagesOfA)'
                k == Len(results["A"])
                kk == Len(results'["A"])
    <3>1. m = mm + e /\ kk = k + e /\ mm \in Nat /\ k \in Nat /\ e \in {0, 1}
      BY <1>3, <1>5, <2>1, <2>2
    <3> HIDE DEF m, mm, k, kk
    <3>2. mm + kk = m + k
      BY <3>1
    <3> QED
      BY <3>2 DEF m, mm, k, kk
  <2>6. Num({"toA"})' + Len(results'["B"]) = Num({"toA"}) + Len(results["B"])
    <3> DEFINE m == Num({"toA"})
                mm == Num({"toA"})'
                k == Len(results["B"])
                kk == Len(results'["B"])
    <3>1. m = mm + f /\ kk = k + f /\ mm \in Nat /\ k \in Nat /\ f \in {0, 1}
      BY <1>4, <1>5, <2>3, <2>4
    <3> HIDE DEF m, mm, k, kk
    <3>2. mm + kk = m + k
      BY <3>1
    <3> QED
      BY <3>2 DEF m, mm, k, kk
  <2> QED
    BY <2>5, <2>6
<1> QED
  BY <1>2, <1>7 DEF Behind

LEMMA BehindNext ==
    ASSUME TypeInv, Behind, [Next]_vars
    PROVE  Behind'
<1>1. CASE UNCHANGED vars \/ \E s \in Servers : Subscribe(s)
  <2>1. UNCHANGED <<stage, waiting, retries, jobs, results>>
    BY <1>1 DEF vars, Subscribe, client
  <2> QED
    BY <2>1 DEF Behind, Num
<1> QED
  BY <1>1, SendBehind, FailsBehind, TimeoutBehind, ReceiveBehind, FinishBehind DEF Next, Daemons

\* The client is never more answers behind than it has repeated the start, for
\* any number of rounds and of timeouts and any speed of the daemons.
THEOREM NeverLosesStep == Spec => []NeverFurtherBehind
<1>1. TypeInv /\ Behind /\ [Next]_vars => TypeInv' /\ Behind'
  BY TypeNext, BehindNext
<1>2. TypeInv /\ Behind => NeverFurtherBehind
  BY BehindEquiv DEF TypeInv
<1> QED
  BY <1>1, <1>2, TypeInit, BehindInit, PTL DEF Spec

-----------------------------------------------------------------------------
(* The round trips. *)

LEMMA NumZero ==
    ASSUME IsFiniteSet(jobs), NEW X, Num(X) = 0
    PROVE  \A j \in jobs : j.stage \notin X
<1>1. IsFiniteSet(Sel(jobs, X))
  BY SelFinite
<1>2. Sel(jobs, X) = {}
  BY <1>1, FS_EmptySet DEF Num
<1> QED
  BY <1>2 DEF Sel

LEMMA NumPositive ==
    ASSUME IsFiniteSet(jobs), NEW X, NEW j \in jobs, j.stage \in X
    PROVE  Num(X) \in Nat /\ Num(X) >= 1
<1>1. Num(X) \in Nat /\ Num(X) # 0
  BY NumType, NumZero
<1> QED
  BY <1>1

LEMMA Queues ==
    ASSUME TypeOK, NEW s \in Servers
    PROVE  /\ results[s] \in Seq(ResultType) /\ Len(results[s]) \in Nat
           /\ (results[s] = <<>> <=> Len(results[s]) = 0)
           /\ (results[s] # <<>> => Head(results[s]) = results[s][1])
<1>1. results[s] \in Seq(ResultType)
  BY DEF TypeOK
<1>2. Len(results[s]) \in Nat /\ (results[s] = <<>> <=> Len(results[s]) = 0)
  BY <1>1, LenProperties, EmptySeq
<1>3. results[s] # <<>> => Head(results[s]) = results[s][1]
  BY <1>1
<1> QED
  BY <1>1, <1>2, <1>3

\* Without a timeout nothing is under way while the client does not wait.
LEMMA NothingPending ==
    ASSUME TypeInv, Behind, retries = 0, waiting = FALSE
    PROVE  jobs = {} /\ results["A"] = <<>> /\ results["B"] = <<>>
<1>t. TypeOK /\ IsFiniteSet(jobs)
  BY DEF TypeInv
<1>1. /\ Num(StagesOfA) \in Nat /\ Num({"toA"}) \in Nat
      /\ Len(results["A"]) \in Nat /\ Len(results["B"]) \in Nat
  BY <1>t, NumType, LenType
<1>2. Num(StagesOfA) + Len(results["A"]) <= 0 /\ Num({"toA"}) + Len(results["B"]) <= 0
  BY DEF Behind
<1>3. Num(StagesOfA) = 0 /\ Num({"toA"}) = 0 /\ Len(results["A"]) = 0 /\ Len(results["B"]) = 0
  BY <1>1, <1>2
<1>4. \A j \in jobs : j.stage \notin StagesOfA /\ j.stage \notin {"toA"}
  BY <1>t, <1>3, NumZero
<1>5. \A j \in jobs : j.stage \in Stages
  BY <1>t DEF TypeOK
<1>6. jobs = {}
  BY <1>4, <1>5, StageFacts DEF StagesOfA
<1> QED
  BY <1>t, <1>3, <1>6, Queues DEF Servers

LEMMA NothingPendingNext ==
    TypeInv' /\ Behind' /\ (retries = 0 /\ waiting = FALSE)'
        => (jobs = {} /\ results["A"] = <<>> /\ results["B"] = <<>>)'
<1>1. TypeInv /\ Behind /\ retries = 0 /\ waiting = FALSE
        => jobs = {} /\ results["A"] = <<>> /\ results["B"] = <<>>
  BY NothingPending
<1> QED
  BY <1>1, PTL

LEMMA TripInit == Init => TripsCounted /\ InStep
<1> SUFFICES ASSUME Init PROVE TripsCounted /\ InStep
  OBVIOUS
<1>1. Sel(jobs, {"toB"}) = {}
  BY DEF Init, Sel
<1>2. Num({"toB"}) = 0
  BY <1>1, FS_EmptySet DEF Num
<1>3. results["A"] = <<>> /\ results["B"] = <<>> /\ Len(results["B"]) = 0
  BY EmptySeq DEF Init, Servers
<1>4. Arrived = 0 /\ Away = 0 /\ SentOut = 0
  BY <1>3 DEF Arrived, Away, SentOut, Init
<1>5. TripsCounted
  BY <1>2, <1>3, <1>4 DEF TripsCounted, Init
<1>6. InStep
  BY <1>3 DEF InStep, Init
<1> QED
  BY <1>5, <1>6

LEMMA SendTrip ==
    ASSUME TripInv, Send
    PROVE  TripsCounted' /\ InStep'
<1>t. TypeInv /\ TypeOK /\ IsFiniteSet(jobs) /\ Behind
  BY DEF TripInv, TypeInv
<1>1. /\ waiting = FALSE /\ waiting' = TRUE /\ stage \in Stages
      /\ UNCHANGED <<title, stage, i, retries, results, dom, moves>>
  BY <1>t DEF Send, TypeOK
<1>2. /\ Num({"toB"}) \in Nat /\ Num({"toB"})' \in Nat
      /\ Num({"toB"})' <= Num({"toB"}) + (IF stage \in {"toB"} THEN 1 ELSE 0)
  BY <1>t, SendNum
<1>3. Arrived' = Arrived /\ Away' = Away /\ Arrived \in {0, 1} /\ Away \in {0, 1}
  BY <1>1 DEF Arrived, Away
<1>4. i \in Nat
  BY <1>t, Numbers
<1>5. SentOut \in Nat /\ SentOut' = SentOut + (IF stage \in {"toB"} THEN 1 ELSE 0)
  BY <1>1, <1>4 DEF SentOut
<1>6. TripsCounted'
  <2> SUFFICES ASSUME title = MigrateDone, stage # "failure"
               PROVE  TripsCounted'
    BY <1>1 DEF TripsCounted
  <2>1. /\ \A k \in 1 .. Len(results["B"]) : results["B"][k].title = title
        /\ moves = 2 * (i + Arrived) + Away
        /\ i + Arrived + Away + Num({"toB"}) <= SentOut
    BY DEF TripInv, TripsCounted
  <2>2. i + Arrived + Away + Num({"toB"})' <= SentOut'
    BY <1>2, <1>3, <1>4, <1>5, <2>1
  <2>3. i' + Arrived' + Away' + Num({"toB"})' <= SentOut'
    BY <1>1, <1>3, <2>2
  <2>4. moves' = 2 * (i' + Arrived') + Away'
    BY <1>1, <1>3, <2>1
  <2> QED
    BY <1>1, <2>1, <2>3, <2>4 DEF TripsCounted
<1>7. InStep'
  <2> SUFFICES ASSUME retries = 0
               PROVE  InStep'
    BY <1>1 DEF InStep
  <2>1. jobs = {} /\ results["A"] = <<>>
    BY <1>t, <1>1, NothingPending
  <2>2. \A j \in jobs' : j.stage = stage
    BY <2>1 DEF Send
  <2>3. stage # "success"
    BY <1>1, StageFacts
  <2> QED
    BY <1>1, <2>1, <2>2, <2>3 DEF InStep
<1> QED
  BY <1>6, <1>7

LEMMA FailsTrip ==
    ASSUME TripInv, SendFails
    PROVE  TripsCounted' /\ InStep'
<1>t. TypeInv /\ TypeOK /\ Behind
  BY DEF TripInv, TypeInv
<1>1. waiting = FALSE /\ stage' = "failure" /\ UNCHANGED <<retries, jobs>>
  BY <1>t DEF SendFails, TypeOK
<1>2. retries = 0 => jobs = {}
  BY <1>t, <1>1, NothingPending
<1> QED
  BY <1>1, <1>2 DEF TripsCounted, InStep

LEMMA TimeoutTrip ==
    ASSUME TripInv, Timeout
    PROVE  TripsCounted' /\ InStep'
<1>t. TypeOK
  BY DEF TripInv, TypeInv
<1>1. /\ stage = "start" /\ retries' = retries + 1
      /\ UNCHANGED <<title, stage, i, jobs, results, dom, moves>>
  BY DEF Timeout
<1>2. SentOut' = SentOut /\ Arrived' = Arrived /\ Away' = Away /\ Num({"toB"})' = Num({"toB"})
  BY <1>1 DEF SentOut, Arrived, Away, Num
<1>3. TripsCounted'
  BY <1>1, <1>2 DEF TripInv, TripsCounted
<1>4. retries' # 0
  BY <1>t, <1>1, Numbers
<1> QED
  BY <1>3, <1>4 DEF InStep

LEMMA ReceiveTrip ==
    ASSUME TripInv, Receive, TypeInv', Behind'
    PROVE  TripsCounted' /\ InStep'
<1>t. TypeInv /\ TypeOK /\ IsFiniteSet(jobs) /\ Behind
  BY DEF TripInv, TypeInv
<1>1. /\ stage \in Stages /\ waiting /\ waiting' = FALSE
      /\ Outcome(Head(results[Topic[stage]]))
      /\ results[Topic[stage]] # <<>>
      /\ results' = [results EXCEPT ![Topic[stage]] = Tail(@)]
      /\ UNCHANGED <<title, retries, jobs, dom, moves>>
  BY <1>t, ReceiveEffect
<1>2. Num({"toB"})' = Num({"toB"}) /\ Away' = Away /\ Away \in {0, 1} /\ Num({"toB"}) \in Nat
  BY <1>t, <1>1, NumType DEF Num, Away
<1>3. i \in Nat
  BY <1>t, Numbers
<1>4. TripsCounted'
  <2> SUFFICES ASSUME title = MigrateDone, stage' # "failure"
               PROVE  TripsCounted'
    BY <1>1 DEF TripsCounted
  <2>f. stage # "failure"
    BY <1>1, StageFacts
  <2>1. /\ \A k \in 1 .. Len(results["B"]) : results["B"][k].title = title
        /\ moves = 2 * (i + Arrived) + Away
        /\ i + Arrived + Away + Num({"toB"}) <= SentOut
    BY <2>f DEF TripInv, TripsCounted
  <2>2. CASE stage = "toA"
    <3>1. /\ Len(results["B"]) \in Nat \ {0} /\ Len(results'["B"]) = Len(results["B"]) - 1
          /\ Head(results["B"]) = results["B"][1]
          /\ results' \in [Servers -> Seq(ResultType)]
      BY <1>t, <1>1, <2>2, StageFacts, ReceiveResults DEF Servers
    <3>2. Num({"toA"}) \in Nat /\ Num({"toA"}) + Len(results["B"]) <= 1
      BY <1>t, <1>1, <2>2, NumType DEF Behind
    <3>3. Len(results["B"]) = 1 /\ Len(results'["B"]) = 0
      <4>1. Len(results["B"]) = 1
        <5> DEFINE k == Len(results["B"])
                   m == Num({"toA"})
        <5>1. k \in Nat /\ k # 0 /\ m \in Nat /\ m + k <= 1
          BY <3>1, <3>2
        <5> HIDE DEF k, m
        <5>2. k = 1
          BY <5>1
        <5> QED
          BY <5>2 DEF k
      <4> QED
        BY <3>1, <4>1
    <3>4. Head(results["B"]).title = MigrateDone
      BY <2>1, <3>1, <3>3
    <3>5. /\ i' = i + 1 /\ (Head(results["B"]).title = MigrateDone => Head(results["B"]).ok)
          /\ stage' \in {"stop", "toB"}
      BY <1>1, <2>2, StageFacts DEF Outcome
    <3>6. Arrived = 1
      BY <1>1, <2>2, <3>4, <3>5, StageFacts DEF Arrived
    <3>7. results'["B"] = <<>>
      BY <3>1, <3>3, EmptySeq DEF Servers
    <3>8. Arrived' = 0
      BY <3>7 DEF Arrived
    <3>9. SentOut = i + 1 /\ SentOut' = i + 1
      BY <1>1, <1>3, <2>2, <3>5 DEF SentOut
    <3>10. moves' = 2 * (i' + Arrived') + Away'
      BY <1>1, <1>2, <1>3, <2>1, <3>5, <3>6, <3>8
    <3>11. i' + Arrived' + Away' + Num({"toB"})' <= SentOut'
      BY <1>2, <1>3, <2>1, <3>5, <3>6, <3>8, <3>9
    <3> QED
      BY <3>3, <3>10, <3>11 DEF TripsCounted
  <2>3. CASE stage # "toA"
    <3>1. Topic[stage] = "A"
      BY <1>1, <2>3, StageFacts
    <3>2. results'["B"] = results["B"]
      BY <1>t, <1>1, <3>1, ReceiveResults DEF Servers
    <3>3. Arrived' = Arrived /\ Arrived \in {0, 1}
      BY <3>2 DEF Arrived
    <3>4. i' = i
      BY <1>1, <2>3 DEF Outcome
    <3>5. SentOut \in Nat /\ SentOut' \in Nat /\ SentOut <= SentOut'
      <4>1. \/ stage = "start" /\ stage' = "start"
            \/ stage = "start" /\ stage' = "toB"
            \/ stage = "toB" /\ stage' = "toA"
            \/ stage = "stop" /\ stage' = "success"
        BY <1>1, <2>3 DEF Outcome
      <4> QED
        BY <1>1, <1>3, <3>4, <4>1 DEF SentOut
    <3>6. i' + Arrived' + Away' + Num({"toB"})' <= SentOut'
      BY <1>2, <1>3, <2>1, <3>3, <3>4, <3>5
    <3>7. moves' = 2 * (i' + Arrived') + Away'
      BY <1>1, <1>2, <2>1, <3>3, <3>4
    <3> QED
      BY <1>1, <2>1, <3>2, <3>6, <3>7 DEF TripsCounted
  <2> QED
    BY <2>2, <2>3
<1>5. InStep'
  <2> SUFFICES ASSUME retries = 0
               PROVE  InStep'
    BY <1>1 DEF InStep
  <2>1. jobs' = {} /\ results'["A"] = <<>>
    BY <1>1, NothingPendingNext
  <2>2. ASSUME stage' = "success"
        PROVE  dom = "off"
    <3>1. stage = "stop" /\ Head(results[Topic[stage]]).ok
      BY <1>1, <2>2, StageFacts DEF Outcome
    <3>2. results["A"] # <<>> /\ Head(results["A"]).ok
      BY <1>1, <3>1, StageFacts
    <3> QED
      BY <3>1, <3>2 DEF TripInv, InStep
  <2> QED
    BY <1>1, <2>1, <2>2 DEF InStep
<1> QED
  BY <1>4, <1>5

LEMMA Places ==
    /\ From["start"] = "off" /\ From["toB"] = "A" /\ From["toA"] = "B" /\ From["stop"] = "A"
    /\ To["start"] = "A" /\ To["toB"] = "B" /\ To["toA"] = "A" /\ To["stop"] = "off"
BY DEF From, To

\* What the end of a task adds to the count of the trips.
LEMMA FinishTrip ==
    ASSUME TripInv, NEW j \in jobs, Finish(j)
    PROVE  TripsCounted'
<1>t. TypeInv /\ TypeOK /\ IsFiniteSet(jobs) /\ Behind
  BY DEF TripInv, TypeInv
<1>1. j.stage \in Stages
  BY <1>t, FinishEffect
<1>2. PICK ok \in BOOLEAN : Ended(j.stage, ok)
  BY <1>t, FinishEffect
<1>3. /\ ok => dom = From[j.stage] /\ dom' = To[j.stage]
      /\ ~ok => dom' = dom
      /\ moves' = IF ok /\ j.stage \in {"toB", "toA"} THEN moves + 1 ELSE moves
      /\ UNCHANGED <<title, stage, waiting, i, retries>>
  BY <1>2 DEF Ended, client
<1>4. /\ Num({"toB"}) \in Nat /\ Num({"toB"})' \in Nat
      /\ Num({"toB"}) = Num({"toB"})' + (IF j.stage \in {"toB"} THEN 1 ELSE 0)
  BY <1>t, FinishNum
<1>5. i \in Nat /\ moves \in Nat
  BY <1>t, Numbers
<1>6. SentOut' = SentOut /\ SentOut \in Nat
  BY <1>3, <1>5 DEF SentOut
<1>7. Arrived \in {0, 1} /\ Away \in {0, 1} /\ Arrived' \in {0, 1} /\ Away' \in {0, 1}
  BY DEF Arrived, Away
<1> SUFFICES ASSUME title = MigrateDone, stage # "failure"
             PROVE  TripsCounted'
  BY <1>3 DEF TripsCounted
<1>8. /\ \A k \in 1 .. Len(results["B"]) : results["B"][k].title = title
      /\ moves = 2 * (i + Arrived) + Away
      /\ i + Arrived + Away + Num({"toB"}) <= SentOut
  BY DEF TripInv, TripsCounted
<1>9. CASE j.stage = "toA"
  <2>1. /\ results' \in [Servers -> Seq(ResultType)]
        /\ Len(results'["B"]) = Len(results["B"]) + 1
        /\ results'["B"][Len(results["B"]) + 1].title = ResultTitle["toA"]
        /\ results'["B"][Len(results["B"]) + 1].ok = ok
        /\ Len(results["B"]) \in Nat
    BY <1>t, <1>1, <1>2, <1>9, EndedResults, StageFacts
  <2>2. Num({"toA"}) \in Nat /\ Num({"toA"}) >= 1
    BY <1>t, <1>9, NumPositive
  <2>3. Num({"toA"}) + Len(results["B"]) <= 1
    <3>1. (IF waiting /\ stage = "toA" THEN 1 ELSE 0) <= 1
      OBVIOUS
    <3> QED
      BY <1>t, <2>1, <2>2, <3>1 DEF Behind
  <2>4. Len(results["B"]) = 0
    BY <2>1, <2>2, <2>3
  <2>5. results["B"] = <<>>
    BY <1>t, <2>4, Queues DEF Servers
  <2>6. /\ Len(results'["B"]) = 1 /\ results'["B"][1].title = ResultTitle["toA"]
        /\ results'["B"][1].ok = ok
    BY <2>1, <2>4
  <2>7. results'["B"] \in Seq(ResultType)
    BY <2>1 DEF Servers
  <2>8. results'["B"] # <<>> /\ Head(results'["B"]) = results'["B"][1]
    BY <2>6, <2>7, EmptySeq
  <2>9. Arrived = 0 /\ Arrived' = (IF ok THEN 1 ELSE 0)
    BY <2>5, <2>6, <2>8 DEF Arrived
  <2>10. \A k \in 1 .. Len(results'["B"]) : results'["B"][k].title = title
    <3>1. ResultTitle["toA"] = title
      BY DEF ResultTitle
    <3> QED
      BY <2>6, <3>1
  <2>11. moves' = 2 * (i + Arrived') + Away' /\ i + Arrived' + Away' = i + Arrived + Away
    <3>1. CASE ok
      <4>1. Away = 1 /\ Away' = 0
        BY <1>3, <1>9, <3>1, Places DEF Away
      <4>2. moves' = moves + 1
        BY <1>3, <1>9, <3>1
      <4> QED
        BY <1>5, <1>8, <2>9, <3>1, <4>1, <4>2
    <3>2. CASE ~ok
      <4>1. Away' = Away /\ moves' = moves
        BY <1>3, <3>2 DEF Away
      <4> QED
        BY <1>8, <2>9, <3>2, <4>1
    <3> QED
      BY <3>1, <3>2
  <2>12. Num({"toB"})' = Num({"toB"})
    BY <1>4, <1>9
  <2>13. i + Arrived' + Away' + Num({"toB"})' <= SentOut'
    BY <1>6, <1>8, <2>11, <2>12
  <2> QED
    BY <1>3, <2>10, <2>11, <2>13 DEF TripsCounted
<1>10. CASE j.stage # "toA"
  <2>1. Topic[j.stage] = "A"
    BY <1>1, <1>10, StageFacts
  <2>2. results'["B"] = results["B"]
    BY <1>t, <1>1, <1>2, <2>1, EndedResults DEF Servers
  <2>3. Arrived' = Arrived
    BY <2>2 DEF Arrived
  <2>4. CASE ok /\ j.stage = "toB"
    <3>1. Away = 0 /\ Away' = 1 /\ moves' = moves + 1
      BY <1>3, <2>4, Places DEF Away
    <3>2. Num({"toB"}) = Num({"toB"})' + 1
      BY <1>4, <2>4
    <3>3. moves' = 2 * (i + Arrived') + Away'
      BY <1>5, <1>7, <1>8, <2>3, <3>1
    <3>4. i + Arrived' + Away' + Num({"toB"})' <= SentOut'
      BY <1>4, <1>5, <1>6, <1>7, <1>8, <2>3, <3>1, <3>2
    <3> QED
      BY <1>3, <1>8, <2>2, <3>3, <3>4 DEF TripsCounted
  <2>5. CASE ~(ok /\ j.stage = "toB")
    <3>1. moves' = moves
      BY <1>3, <1>10, <2>5
    <3>2. Away' = Away
      <4>1. CASE ok
        <5>1. j.stage = "start" \/ j.stage = "stop"
          BY <1>1, <1>10, <2>5, <4>1, StageFacts
        <5> QED
          BY <1>3, <4>1, <5>1, Places DEF Away
      <4>2. CASE ~ok
        BY <1>3, <4>2 DEF Away
      <4> QED
        BY <4>1, <4>2
    <3>3. Num({"toB"})' <= Num({"toB"})
      BY <1>4
    <3>4. i + Arrived' + Away' + Num({"toB"})' <= SentOut'
      BY <1>4, <1>5, <1>6, <1>7, <1>8, <2>3, <3>2, <3>3
    <3>5. moves' = 2 * (i + Arrived') + Away'
      BY <1>8, <2>3, <3>1, <3>2
    <3> QED
      BY <1>3, <1>8, <2>2, <3>4, <3>5 DEF TripsCounted
  <2> QED
    BY <2>4, <2>5
<1> QED
  BY <1>9, <1>10

LEMMA FinishStep ==
    ASSUME TripInv, NEW j \in jobs, Finish(j)
    PROVE  InStep'
<1>t. TypeInv /\ TypeOK /\ IsFiniteSet(jobs) /\ Behind
  BY DEF TripInv, TypeInv
<1>1. j.stage \in Stages
  BY <1>t, FinishEffect
<1>2. PICK ok \in BOOLEAN : Ended(j.stage, ok)
  BY <1>t, FinishEffect
<1>3. /\ ok => dom' = To[j.stage]
      /\ UNCHANGED <<stage, waiting, retries>>
  BY <1>2 DEF Ended, client
<1> SUFFICES ASSUME retries = 0
             PROVE  InStep'
  BY <1>3 DEF InStep
<1>4. j.stage = stage /\ \A k \in jobs : k.stage = stage
  BY DEF TripInv, InStep
<1>5. \A k \in jobs' : k.stage = stage
  BY <1>4 DEF Finish
<1>6. stage # "success"
  BY <1>1, <1>4, StageFacts
<1>7. ASSUME stage = "stop", Head(results'["A"]).ok
      PROVE  dom' = "off"
  <2>1. /\ results' \in [Servers -> Seq(ResultType)]
        /\ Len(results'["A"]) = Len(results["A"]) + 1
        /\ results'["A"][Len(results["A"]) + 1].ok = ok
        /\ Len(results["A"]) \in Nat
    BY <1>t, <1>1, <1>2, <1>4, <1>7, EndedResults, StageFacts
  <2>2. Num(StagesOfA) \in Nat /\ Num(StagesOfA) >= 1
    BY <1>t, <1>4, <1>7, NumPositive DEF StagesOfA
  <2>3. Num(StagesOfA) + Len(results["A"]) <= 1
    <3>1. Num(StagesOfA) + Len(results["A"]) <= 0 + (IF waiting /\ stage \in StagesOfA THEN 1 ELSE 0)
      BY <1>t DEF Behind
    <3> QED
      BY <2>1, <2>2, <3>1
  <2>4. Len(results["A"]) = 0
    BY <2>1, <2>2, <2>3
  <2>5. Len(results'["A"]) = 1 /\ results'["A"][1].ok = ok
    BY <2>1, <2>4
  <2>6. results'["A"] \in Seq(ResultType)
    BY <2>1 DEF Servers
  <2>7. Head(results'["A"]) = results'["A"][1]
    BY <2>5, <2>6
  <2>8. ok
    BY <1>7, <2>5, <2>7
  <2> QED
    BY <1>3, <1>4, <1>7, <2>8, Places
<1> QED
  BY <1>3, <1>5, <1>6, <1>7 DEF InStep

LEMMA TripNext ==
    ASSUME TripInv, [Next]_vars
    PROVE  TripInv'
<1>1. TypeInv' /\ Behind'
  BY TypeNext, BehindNext DEF TripInv
<1>2. CASE UNCHANGED vars \/ \E s \in Servers : Subscribe(s)
  <2>1. UNCHANGED <<title, stage, waiting, i, retries, jobs, results, dom, moves>>
    BY <1>2 DEF vars, Subscribe, client
  <2>2. /\ SentOut' = SentOut /\ Arrived' = Arrived /\ Away' = Away
        /\ Num({"toB"})' = Num({"toB"})
    BY <2>1 DEF SentOut, Arrived, Away, Num
  <2>3. TripsCounted'
    BY <2>1, <2>2 DEF TripInv, TripsCounted
  <2>4. InStep'
    BY <2>1 DEF TripInv, InStep
  <2> QED
    BY <1>1, <2>3, <2>4 DEF TripInv
<1>3. CASE Send \/ SendFails \/ Timeout \/ Receive
  BY <1>1, <1>3, SendTrip, FailsTrip, TimeoutTrip, ReceiveTrip DEF TripInv
<1>4. CASE \E j \in jobs : Finish(j)
  BY <1>1, <1>4, FinishTrip, FinishStep DEF TripInv
<1> QED
  BY <1>2, <1>3, <1>4 DEF Next, Daemons

\* When the client prints its times under the documented title, exactly 2n
\* migrations have succeeded, for every n, however the daemons and the repeated
\* start interleave; without a repeated start the domain is stopped, too.
THEOREM TimesMeasured == Spec => []TimesAreMeasured
<1>1. Init => TripInv
  BY TypeInit, BehindInit, TripInit DEF TripInv
<1>2. TripInv => TimesAreMeasured
  <2> SUFFICES ASSUME TripInv, stage = "success", title = MigrateDone
               PROVE  moves = 2 * n /\ (retries = 0 => dom = "off")
    BY DEF TimesAreMeasured
  <2>t. TypeInv /\ TypeOK /\ IsFiniteSet(jobs) /\ Behind /\ RoundsDone
    BY DEF TripInv, TypeInv
  <2>1. i = n /\ ~waiting /\ n \in Nat
    BY <2>t, StageFacts, Numbers DEF RoundsDone
  <2>2. Num({"toA"}) \in Nat /\ Len(results["B"]) \in Nat
    BY <2>t, NumType, LenType
  <2>3. Num({"toA"}) + Len(results["B"]) <= 0
    BY <2>t, <2>1 DEF Behind
  <2>4. results["B"] = <<>>
    BY <2>t, <2>2, <2>3, Queues DEF Servers
  <2>5. Arrived = 0 /\ SentOut = n
    BY <2>1, <2>4 DEF Arrived, SentOut
  <2>6. moves = 2 * (i + Arrived) + Away /\ i + Arrived + Away + Num({"toB"}) <= SentOut
    BY DEF TripInv, TripsCounted
  <2>7. Away \in {0, 1} /\ Num({"toB"}) \in Nat
    BY <2>t, NumType DEF Away
  <2>8. Away = 0
    BY <2>1, <2>5, <2>6, <2>7
  <2>9. moves = 2 * n
    BY <2>1, <2>5, <2>6, <2>8
  <2> QED
    BY <2>9 DEF TripInv, InStep
<1>3. TripInv /\ [Next]_vars => TripInv'
  BY TripNext
<1> QED
  BY <1>1, <1>2, <1>3, PTL DEF Spec

=============================================================================
