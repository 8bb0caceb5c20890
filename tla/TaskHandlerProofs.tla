-------------------------- MODULE TaskHandlerProofs --------------------------
(***************************************************************************)
(* Proofs about TaskHandler for every number of messages, every set of     *)
(* message shapes and every size of a node evacuation: type correctness,   *)
(* the safety invariants, and that TaskHandler implements TaskService.     *)
(***************************************************************************)
EXTENDS TaskHandler, SequenceTheorems, FiniteSetTheorems, TLAPS

\* Messages leave the inbox only at its head and are numbered in the order
\* of their publication: the inbox is an interval that ends at published.
InboxInOrder ==
    /\ Len(inbox) <= published
    /\ \A i \in 1 .. Len(inbox) : inbox[i] = (published - Len(inbox)) + i

\* A message that is still in the inbox, or not yet published, has no worker.
NoWorkerAhead ==
    \A m \in Msgs : m > published - Len(inbox) => worker[m] = "none"

\* Only detached threads are between thread creation and Thread_counter, or
\* between the end of func and ~Thread_counter.
OnlyDetachedCount ==
    \A m \in Msgs : worker[m] \in {"spawned", "uncount"} => shape[m].conc

\* The inductive strengthening of CountAgrees.
CountInv ==
    /\ TypeOK
    /\ InboxInOrder
    /\ NoWorkerAhead
    /\ OnlyDetachedCount
    /\ CountAgrees

-----------------------------------------------------------------------------
(* Facts about the constants and about sequences. *)

\* A shape that is published is well formed (Parameters).
LEMMA ShapeInType == Shapes \subseteq ShapeType /\ NoShape \in ShapeType
BY Parameters DEF Parameters, NoShape, ShapeType, Kinds

\* Replacing an element keeps a sequence typed: std::vector::operator[].
LEMMA ReplaceInSeq ==
    ASSUME NEW S, NEW q \in Seq(S), NEW k \in DOMAIN q, NEW e \in S
    PROVE  [q EXCEPT ![k] = e] \in Seq(S)
<1>1. q \in [1 .. Len(q) -> S] /\ Len(q) \in Nat
  BY LenProperties
<1>2. [q EXCEPT ![k] = e] \in [1 .. Len(q) -> S]
  BY <1>1
<1> QED
  BY <1>1, <1>2, IsASeq

\* The future that LaunchTask appends is a future.
LEMMA LaunchedFuture ==
    ASSUME NEW b \in BOOLEAN
    PROVE  (IF b THEN "running" ELSE "deferred") \in FutureStates
BY DEF FutureStates

-----------------------------------------------------------------------------
(* Type correctness. *)

\* Every reply that is sent is a reply, and the result topic stays typed.
LEMMA SendType ==
    ASSUME NEW m \in Msgs, NEW type \in {"unknown", "quit", "result"},
           NEW id \in BOOLEAN, NEW res \in Seq(Final),
           replies \in [Msgs -> Seq(ReplyType)], Send(m, type, id, res)
    PROVE  replies' \in [Msgs -> Seq(ReplyType)]
<1> DEFINE r == [type |-> type, id |-> id, results |-> res]
<1>1. r \in ReplyType
  BY DEF ReplyType
<1>2. Append(replies[m], r) \in Seq(ReplyType)
  BY <1>1, AppendProperties
<1> QED
  BY <1>2 DEF Send

LEMMA SendParseErrorType ==
    ASSUME NEW m \in Msgs, replies \in [Msgs -> Seq(ReplyType)],
           SendParseErrorNothrow(m)
    PROVE  replies' \in [Msgs -> Seq(ReplyType)]
<1>1. <<>> \in Seq(Final)
  BY EmptySeq
<1> QED
  BY <1>1, SendType DEF SendParseErrorNothrow

\* A message is taken from the head of the inbox.
LEMMA GetMessageType ==
    ASSUME TypeOK, NEW m \in Msgs, NEW kind, GetMessage(m, kind)
    PROVE  /\ inbox' \in Seq(Msgs)
           /\ published' = published /\ shape' = shape
           /\ loop = "get" /\ running
           /\ Len(inbox) \in Nat \ {0} /\ inbox[1] = m
           /\ Len(inbox') = Len(inbox) - 1
           /\ \A i \in 1 .. Len(inbox') : inbox'[i] = inbox[i + 1]
BY HeadTailProperties, LenProperties DEF TypeOK, GetMessage

\* Dispatch starts one container.
LEMMA DispatchType ==
    ASSUME TypeOK, NEW m \in Msgs, NEW ts \in Seq(BOOLEAN), Dispatch(m, ts)
    PROVE  /\ tasks' \in [Msgs -> Seq(BOOLEAN)]
           /\ worker' \in [Msgs -> WorkerStates]
           /\ loop' \in LoopStates
           /\ UNCHANGED <<running, futures, results, count, replies>>
BY DEF TypeOK, Dispatch, WorkerStates, LoopStates

LEMMA HandleMessageType ==
    ASSUME TypeOK, NEW m \in Msgs, HandleMessage(m)
    PROVE  TypeOK'
<1>e. <<>> \in Seq(Final)
  BY EmptySeq
<1>1. CASE RejectMalformed(m)
  BY <1>1, GetMessageType, SendParseErrorType
     DEF RejectMalformed, TypeOK, containerVars
<1>2. CASE RejectEmpty(m)
  <2>1. replies' \in [Msgs -> Seq(ReplyType)]
    BY <1>2, <1>e, SendType, SendParseErrorType DEF RejectEmpty, TypeOK
  <2> QED
    BY <1>2, <2>1, GetMessageType DEF RejectEmpty, TypeOK, containerVars
<1>3. CASE Quit(m)
  <2>1. replies' \in [Msgs -> Seq(ReplyType)]
    BY <1>3, <1>e, SendType, SendParseErrorType DEF Quit, TypeOK
  <2> QED
    BY <1>3, <2>1, GetMessageType DEF Quit, TypeOK, containerVars, LoopStates
<1>4. CASE ExecuteTasks(m)
  <2>1. shape[m].subs \in Seq(BOOLEAN)
    BY DEF TypeOK, ShapeType
  <2> QED
    BY <1>4, <2>1, GetMessageType, DispatchType DEF ExecuteTasks, TypeOK
<1>5. CASE ExecuteEvacuate(m)
  <2>1. \A n \in 0 .. MaxTasks : [k \in 1 .. n |-> TRUE] \in Seq(BOOLEAN)
    BY Parameters, IsASeq DEF Parameters
  <2>2. CASE \E n \in 0 .. MaxTasks : Dispatch(m, [k \in 1 .. n |-> TRUE])
    BY <1>5, <2>1, <2>2, GetMessageType, DispatchType DEF ExecuteEvacuate, TypeOK
  <2>3. CASE /\ SendParseErrorNothrow(m)
             /\ UNCHANGED <<running, loop, containerVars>>
    BY <1>5, <2>3, GetMessageType, SendParseErrorType
       DEF ExecuteEvacuate, TypeOK, containerVars
  <2> QED
    BY <1>5, <2>2, <2>3 DEF ExecuteEvacuate
<1> QED
  BY <1>1, <1>2, <1>3, <1>4, <1>5 DEF HandleMessage

\* The counter is unsigned: ~Thread_counter keeps it typed only because the
\* thread that runs it is counted, which CountAgrees says.
LEMMA WorkerStepType ==
    ASSUME TypeOK, NEW m \in Msgs, WorkerStep(m) \/ TaskEnds(m),
           worker[m] = "uncount" => count # 0
    PROVE  TypeOK'
<1>1. CASE CountThread(m)
  BY <1>1 DEF CountThread, TypeOK, WorkerStates
<1>2. CASE LaunchTask(m)
  <2> DEFINE n == Len(futures[m]) + 1
  <2>1. futures[m] \in Seq(FutureStates) /\ tasks[m] \in Seq(BOOLEAN)
    BY DEF TypeOK
  <2>2. n \in 1 .. Len(tasks[m])
    BY <1>2, <2>1, LenProperties DEF LaunchTask
  <2>3. (IF tasks[m][n] THEN "running" ELSE "deferred") \in FutureStates
    BY <2>1, <2>2, ElementOfSeq, LaunchedFuture
  <2>4. futures' \in [Msgs -> Seq(FutureStates)]
    BY <1>2, <2>1, <2>3, AppendProperties DEF LaunchTask, TypeOK
  <2> QED
    BY <1>2, <2>4 DEF LaunchTask, TypeOK
<1>3. ASSUME NEW k \in DOMAIN futures[m], RunDeferred(m, k)
      PROVE  TypeOK'
  <2>1. [futures[m] EXCEPT ![k] = "running"] \in Seq(FutureStates)
    BY ReplaceInSeq DEF TypeOK, FutureStates
  <2>2. futures' \in [Msgs -> Seq(FutureStates)]
    BY <1>3, <2>1 DEF RunDeferred, TypeOK
  <2> QED
    BY <1>3, <2>2 DEF RunDeferred, TypeOK
<1>4. ASSUME NEW k \in DOMAIN futures[m], Collect(m, k)
      PROVE  TypeOK'
  <2>1. Append(results[m], futures[m][k]) \in Seq(Final)
    BY <1>4, AppendProperties DEF Collect, TypeOK
  <2>2. results' \in [Msgs -> Seq(Final)]
    BY <1>4, <2>1 DEF Collect, TypeOK
  <2> QED
    BY <1>4, <2>2 DEF Collect, TypeOK
<1>5. CASE SendResult(m)
  <2>1. replies' \in [Msgs -> Seq(ReplyType)]
    BY <1>5, SendType, SendParseErrorType DEF SendResult, TypeOK
  <2>2. worker' \in [Msgs -> WorkerStates]
    BY <1>5 DEF SendResult, TypeOK, WorkerStates
  <2>3. loop' \in LoopStates
    BY <1>5 DEF SendResult, TypeOK, LoopStates
  <2> QED
    BY <1>5, <2>1, <2>2, <2>3 DEF SendResult, TypeOK
<1>6. CASE UncountThread(m)
  BY <1>6 DEF UncountThread, TypeOK, WorkerStates, LoopStates
<1>7. ASSUME NEW k \in DOMAIN futures[m], FinishTask(m, k)
      PROVE  TypeOK'
  <2>1. PICK s \in Final : futures' = [futures EXCEPT ![m][k] = s]
    BY <1>7 DEF FinishTask
  <2>2. [futures[m] EXCEPT ![k] = s] \in Seq(FutureStates)
    BY ReplaceInSeq DEF TypeOK, FutureStates
  <2>3. futures' \in [Msgs -> Seq(FutureStates)]
    BY <2>1, <2>2 DEF TypeOK
  <2> QED
    BY <1>7, <2>3 DEF FinishTask, TypeOK
<1> QED
  BY <1>1, <1>2, <1>3, <1>4, <1>5, <1>6, <1>7 DEF WorkerStep, TaskEnds

LEMMA NextType ==
    ASSUME TypeOK, [Next]_vars,
           \A m \in Msgs : worker[m] = "uncount" => count # 0
    PROVE  TypeOK'
<1>1. ASSUME NEW s \in Shapes, Publish(s)
      PROVE  TypeOK'
  <2>1. published + 1 \in Msgs /\ published' \in 0 .. MaxMsgs
    BY <1>1, Parameters DEF Publish, TypeOK, Msgs, Parameters
  <2>2. inbox' \in Seq(Msgs)
    BY <1>1, <2>1, AppendProperties DEF Publish, TypeOK
  <2>3. shape' \in [Msgs -> ShapeType]
    BY <1>1, <2>1, ShapeInType DEF Publish, TypeOK
  <2> QED
    BY <1>1, <2>1, <2>2, <2>3 DEF Publish, TypeOK
<1>2. CASE WaitForThreads \/ SpuriousWakeup \/ ProcessExit
  BY <1>2 DEF WaitForThreads, SpuriousWakeup, ProcessExit, TypeOK, LoopStates
<1>3. CASE UNCHANGED vars
  BY <1>3 DEF vars, TypeOK
<1> QED
  BY <1>1, <1>2, <1>3, HandleMessageType, WorkerStepType DEF Next

-----------------------------------------------------------------------------
(* Thread_counter. *)

LEMMA CountedFinite ==
    IsFiniteSet(Counted) /\ IsFiniteSet(Counted')
<1>1. IsFiniteSet(Msgs)
  BY Parameters, FS_Interval DEF Msgs, Parameters
<1>2. Counted \subseteq Msgs /\ Counted' \subseteq Msgs
  BY DEF Counted
<1> QED
  BY <1>1, <1>2, FS_Subset

\* A thread in ~Thread_counter finds a positive count: no wrap-around of the
\* unsigned counter.
LEMMA CountPositive ==
    ASSUME CountInv, NEW m \in Msgs, worker[m] = "uncount"
    PROVE  count # 0
<1>1. m \in Counted
  BY DEF CountInv, OnlyDetachedCount, Counted
<1> QED
  BY <1>1, CountedFinite, FS_EmptySet DEF CountInv, CountAgrees

\* Taking a message from the inbox keeps the inbox an interval, and the
\* message taken had no worker.
LEMMA GetMessageInv ==
    ASSUME CountInv, NEW m \in Msgs, NEW kind, GetMessage(m, kind)
    PROVE  /\ InboxInOrder'
           /\ worker[m] = "none"
           /\ \A n \in Msgs : n > published' - Len(inbox') => n # m /\ worker[n] = "none"
<1>1. /\ Len(inbox) \in Nat \ {0} /\ inbox[1] = m
      /\ published' = published /\ published \in Nat
      /\ Len(inbox') = Len(inbox) - 1
      /\ \A i \in 1 .. Len(inbox') : inbox'[i] = inbox[i + 1]
  BY GetMessageType, Parameters DEF CountInv, TypeOK, Parameters
<1>2. m = published - Len(inbox) + 1
  BY <1>1 DEF CountInv, InboxInOrder
<1>3. worker[m] = "none"
  BY <1>1, <1>2 DEF CountInv, NoWorkerAhead, Msgs
<1>4. InboxInOrder'
  BY <1>1 DEF CountInv, InboxInOrder
<1>5. \A n \in Msgs : n > published' - Len(inbox') => n # m /\ worker[n] = "none"
  BY <1>1, <1>2 DEF CountInv, NoWorkerAhead, Msgs
<1> QED
  BY <1>3, <1>4, <1>5

LEMMA HandleMessageInv ==
    ASSUME CountInv, TypeOK', NEW m \in Msgs, HandleMessage(m)
    PROVE  CountInv'
<1>t. TypeOK /\ TypeOK'
  BY DEF CountInv
<1>1. ASSUME NEW kind, GetMessage(m, kind), UNCHANGED <<worker, count>>
      PROVE  CountInv'
  <2>1. shape' = shape
    BY <1>1 DEF GetMessage
  <2>2. NoWorkerAhead'
    BY <1>1, GetMessageInv DEF NoWorkerAhead
  <2>3. OnlyDetachedCount' /\ CountAgrees'
    BY <1>1, <2>1 DEF CountInv, OnlyDetachedCount, CountAgrees, Counted
  <2> QED
    BY <1>1, <1>t, <2>2, <2>3, GetMessageInv DEF CountInv
<1>2. ASSUME NEW kind, GetMessage(m, kind), NEW ts, Dispatch(m, ts)
      PROVE  CountInv'
  <2>1. /\ shape' = shape /\ count' = count
        /\ worker' = [worker EXCEPT ![m] = IF shape[m].conc THEN "spawned" ELSE "run"]
    BY <1>2 DEF GetMessage, Dispatch
  <2>2. worker[m] = "none" /\ worker \in [Msgs -> WorkerStates]
    BY <1>2, <1>t, GetMessageInv DEF TypeOK
  <2>3. Counted' = Counted
    BY <2>1, <2>2 DEF Counted
  <2>4. NoWorkerAhead'
    BY <1>2, <2>1, <2>2, GetMessageInv DEF NoWorkerAhead
  <2>5. OnlyDetachedCount'
    BY <2>1, <2>2 DEF CountInv, OnlyDetachedCount
  <2> QED
    BY <1>2, <1>t, <2>1, <2>3, <2>4, <2>5, GetMessageInv DEF CountInv, CountAgrees
<1>3. CASE RejectMalformed(m) \/ RejectEmpty(m) \/ Quit(m)
  BY <1>1, <1>3 DEF RejectMalformed, RejectEmpty, Quit, containerVars
<1>4. CASE ExecuteTasks(m)
  BY <1>2, <1>4 DEF ExecuteTasks
<1>5. CASE ExecuteEvacuate(m)
  BY <1>1, <1>2, <1>5 DEF ExecuteEvacuate, containerVars
<1> QED
  BY <1>3, <1>4, <1>5 DEF HandleMessage

\* Steps that leave the messages alone keep the inbox an interval; it is
\* enough that no worker starts before its message is taken.
LEMMA SameMessages ==
    ASSUME CountInv, TypeOK', UNCHANGED <<published, shape, inbox>>,
           \A n \in Msgs : worker[n] = "none" => worker'[n] = "none",
           OnlyDetachedCount', CountAgrees'
    PROVE  CountInv'
BY DEF CountInv, InboxInOrder, NoWorkerAhead

LEMMA WorkerStepInv ==
    ASSUME CountInv, TypeOK', NEW m \in Msgs, WorkerStep(m) \/ TaskEnds(m)
    PROVE  CountInv'
<1>t. /\ worker \in [Msgs -> WorkerStates]
      /\ count \in Nat /\ count = Cardinality(Counted)
      /\ OnlyDetachedCount
  BY DEF CountInv, TypeOK, CountAgrees
<1>1. CASE CountThread(m)
  <2>1. worker[m] = "spawned" /\ shape[m].conc
    BY <1>1, <1>t DEF CountThread, OnlyDetachedCount
  <2>2. Counted' = Counted \cup {m} /\ m \notin Counted
    BY <1>1, <1>t, <2>1 DEF CountThread, Counted
  <2>3. CountAgrees'
    BY <1>1, <1>t, <2>2, CountedFinite, FS_AddElement DEF CountThread, CountAgrees
  <2>4. OnlyDetachedCount'
    BY <1>1, <1>t DEF CountThread, OnlyDetachedCount
  <2> QED
    BY <1>1, <1>t, <2>1, <2>3, <2>4, SameMessages DEF CountThread
<1>2. CASE UncountThread(m)
  <2>1. worker[m] = "uncount" /\ shape[m].conc
    BY <1>2, <1>t DEF UncountThread, OnlyDetachedCount
  <2>2. Counted' = Counted \ {m} /\ m \in Counted
    BY <1>2, <1>t, <2>1 DEF UncountThread, Counted
  <2>3. CountAgrees'
    BY <1>2, <1>t, <2>2, CountedFinite, FS_RemoveElement DEF UncountThread, CountAgrees
  <2>4. OnlyDetachedCount'
    BY <1>2, <1>t DEF UncountThread, OnlyDetachedCount
  <2> QED
    BY <1>2, <1>t, <2>1, <2>3, <2>4, SameMessages DEF UncountThread
<1>3. CASE SendResult(m)
  <2>1. Counted' = Counted
    BY <1>3, <1>t DEF SendResult, Counted
  <2>2. OnlyDetachedCount'
    BY <1>3, <1>t DEF SendResult, OnlyDetachedCount
  <2>3. \A n \in Msgs : worker[n] = "none" => worker'[n] = "none"
    BY <1>3, <1>t DEF SendResult
  <2> QED
    BY <1>3, <1>t, <2>1, <2>2, <2>3, SameMessages DEF SendResult, CountAgrees
<1>4. ASSUME UNCHANGED <<published, shape, inbox, worker, count>>
      PROVE  CountInv'
  <2>1. Counted' = Counted /\ OnlyDetachedCount'
    BY <1>4, <1>t DEF Counted, OnlyDetachedCount
  <2> QED
    BY <1>4, <1>t, <2>1, SameMessages DEF CountAgrees
<1>5. CASE \/ LaunchTask(m)
           \/ \E k \in DOMAIN futures[m] :
                RunDeferred(m, k) \/ Collect(m, k) \/ FinishTask(m, k)
  BY <1>4, <1>5 DEF LaunchTask, RunDeferred, Collect, FinishTask
<1> QED
  BY <1>1, <1>2, <1>3, <1>5 DEF WorkerStep, TaskEnds

LEMMA PublishInv ==
    ASSUME CountInv, TypeOK', NEW s \in Shapes, Publish(s)
    PROVE  CountInv'
<1>t. /\ published \in Nat /\ published < MaxMsgs /\ published + 1 \in Msgs
      /\ inbox \in Seq(Msgs) /\ shape \in [Msgs -> ShapeType]
      /\ worker \in [Msgs -> WorkerStates]
  BY Parameters DEF CountInv, TypeOK, Publish, Msgs, Parameters
<1>1. /\ Len(inbox) \in Nat /\ Len(inbox') = Len(inbox) + 1
      /\ \A i \in 1 .. Len(inbox) : inbox'[i] = inbox[i]
      /\ inbox'[Len(inbox) + 1] = published + 1
  BY <1>t, AppendProperties, LenProperties DEF Publish
<1>2. InboxInOrder'
  BY <1>t, <1>1 DEF CountInv, InboxInOrder, Publish
<1>3. NoWorkerAhead'
  BY <1>t, <1>1 DEF CountInv, NoWorkerAhead, Publish
<1>4. worker[published + 1] = "none"
  BY <1>t, <1>1 DEF CountInv, NoWorkerAhead
<1>5. OnlyDetachedCount' /\ Counted' = Counted
  BY <1>t, <1>4 DEF CountInv, OnlyDetachedCount, Counted, Publish
<1> QED
  BY <1>2, <1>3, <1>5 DEF CountInv, CountAgrees, Publish

LEMMA CountInvInit == Init => CountInv
<1> SUFFICES ASSUME Init PROVE CountInv
  OBVIOUS
<1>1. TypeOK
  BY Parameters, ShapeInType, EmptySeq
     DEF Init, TypeOK, Parameters, LoopStates, WorkerStates
<1>2. InboxInOrder /\ NoWorkerAhead /\ OnlyDetachedCount
  BY DEF Init, InboxInOrder, NoWorkerAhead, OnlyDetachedCount
<1>3. Counted = {}
  BY DEF Init, Counted
<1> QED
  BY <1>1, <1>2, <1>3, FS_EmptySet DEF Init, CountInv, CountAgrees

LEMMA CountInvNext == CountInv /\ [Next]_vars => CountInv'
<1> SUFFICES ASSUME CountInv, [Next]_vars PROVE CountInv'
  OBVIOUS
<1>t. TypeOK'
  BY CountPositive, NextType DEF CountInv
<1>1. CASE \E s \in Shapes : Publish(s)
  BY <1>1, <1>t, PublishInv
<1>2. CASE \E m \in Msgs : HandleMessage(m)
  BY <1>2, <1>t, HandleMessageInv
<1>3. CASE \E m \in Msgs : WorkerStep(m) \/ TaskEnds(m)
  BY <1>3, <1>t, WorkerStepInv
<1>4. CASE WaitForThreads \/ SpuriousWakeup \/ ProcessExit \/ UNCHANGED vars
  <2>1. UNCHANGED <<published, shape, inbox, worker, count>>
    BY <1>4 DEF WaitForThreads, SpuriousWakeup, ProcessExit, vars
  <2>2. OnlyDetachedCount' /\ CountAgrees'
    BY <2>1 DEF CountInv, OnlyDetachedCount, CountAgrees, Counted
  <2> QED
    BY <1>t, <2>1, <2>2, SameMessages
<1> QED
  BY <1>1, <1>2, <1>3, <1>4 DEF Next

LEMMA CountInvariant == Spec => []CountInv
BY CountInvInit, CountInvNext, PTL DEF Spec

\* Every variable keeps its type; in particular the unsigned thread count
\* never goes below zero.
THEOREM TypeCorrect == Spec => []TypeOK
<1>1. CountInv => TypeOK
  BY DEF CountInv
<1> QED
  BY <1>1, CountInvariant, PTL

\* Thread_counter::count is the number of detached threads that hold a
\* counter, for any number of messages and whatever the threads do.
THEOREM CountCorrect == Spec => []CountAgrees
<1>1. CountInv => CountAgrees
  BY DEF CountInv
<1> QED
  BY <1>1, CountInvariant, PTL

\* ~Task_handler returns only when no detached thread holds a counter.
THEOREM DrainCorrect == Spec => DrainWaits
<1>1. ASSUME CountInv, [Next]_vars
      PROVE  [loop' = "returned" /\ loop # "returned" => Counted = {}]_vars
  <2> SUFFICES ASSUME Next, loop' = "returned", loop # "returned"
               PROVE  Counted = {}
    BY <1>1
  <2>1. WaitForThreads
    <3>1. ASSUME NEW s \in Shapes, Publish(s) PROVE FALSE
      BY <3>1 DEF Publish
    <3>2. ASSUME NEW m \in Msgs, HandleMessage(m) PROVE FALSE
      BY <3>2 DEF HandleMessage, RejectMalformed, RejectEmpty, Quit,
                  ExecuteTasks, ExecuteEvacuate, Dispatch
    <3>3. ASSUME NEW m \in Msgs, WorkerStep(m) \/ TaskEnds(m) PROVE FALSE
      BY <3>3 DEF WorkerStep, TaskEnds, CountThread, LaunchTask, RunDeferred,
                  Collect, SendResult, UncountThread, FinishTask
    <3>4. ~SpuriousWakeup /\ ~ProcessExit
      BY DEF SpuriousWakeup, ProcessExit
    <3> QED
      BY <3>1, <3>2, <3>3, <3>4 DEF Next
  <2>2. count = 0
    BY <2>1 DEF WaitForThreads
  <2> QED
    BY <1>1, <2>2, CountedFinite, FS_EmptySet DEF CountInv, CountAgrees
<1> QED
  BY <1>1, CountInvariant, PTL DEF Spec, DrainWaits

-----------------------------------------------------------------------------
(* The results in an answer. *)

\* Tasks are launched in their order and only by func, and their results are
\* collected in the same order, each after its future is ready.
InTaskOrder(m) ==
    /\ worker[m] \in {"none", "spawned"} => futures[m] = <<>>
    /\ Len(futures[m]) <= Len(tasks[m])
    /\ Len(results[m]) <= Len(futures[m])
    /\ \A i \in 1 .. Len(results[m]) : results[m][i] = futures[m][i]

\* Once the results are sent func is over, and no future is open that could
\* still change.
Settled(m) ==
    /\ worker[m] \in {"uncount", "done"}
    /\ Len(futures[m]) = Len(tasks[m])
    /\ \A k \in DOMAIN futures[m] : futures[m][k] \in Final

FaithfulReply(m) ==
    \A i \in DOMAIN replies[m] :
        replies[m][i].type = "result" => Settled(m) /\ replies[m][i].results = futures[m]

ResultInv == \A m \in Msgs : InTaskOrder(m) /\ FaithfulReply(m)

\* A step about message m leaves the containers of the others alone.
LEMMA OtherResults ==
    ASSUME ResultInv, NEW m \in Msgs, InTaskOrder(m)', FaithfulReply(m)',
           \A n \in Msgs \ {m} :
             /\ worker'[n] = worker[n] /\ tasks'[n] = tasks[n] /\ futures'[n] = futures[n]
             /\ results'[n] = results[n] /\ replies'[n] = replies[n]
    PROVE  ResultInv'
<1>1. ASSUME NEW n \in Msgs \ {m}
      PROVE  InTaskOrder(n)' /\ FaithfulReply(n)'
  BY <1>1 DEF ResultInv, InTaskOrder, FaithfulReply, Settled
<1> QED
  BY <1>1 DEF ResultInv

\* What Send does to the replies.
LEMMA SendEffect ==
    ASSUME TypeOK, NEW m \in Msgs, NEW type, NEW id, NEW res, Send(m, type, id, res)
    PROVE  /\ \A n \in Msgs \ {m} : replies'[n] = replies[n]
           /\ \A i \in DOMAIN replies'[m] :
                \/ i \in DOMAIN replies[m] /\ replies'[m][i] = replies[m][i]
                \/ replies'[m][i].type = type /\ replies'[m][i].results = res
<1> DEFINE r == [type |-> type, id |-> id, results |-> res]
           q == replies[m]
<1>1. q \in Seq(ReplyType) /\ replies \in [Msgs -> Seq(ReplyType)]
  BY DEF TypeOK
<1>2. replies'[m] = Append(q, r)
  BY <1>1 DEF Send
<1>3. r.type = type /\ r.results = res
  OBVIOUS
<1>4. /\ Len(q) \in Nat /\ DOMAIN q = 1 .. Len(q) /\ q \in Seq(ReplyType \cup {r})
      /\ r \in ReplyType \cup {r}
  BY <1>1, LenProperties, SeqMonotonic
<1> HIDE DEF r, q
<1>5. /\ DOMAIN Append(q, r) = 1 .. Len(q) + 1
      /\ \A i \in 1 .. Len(q) : Append(q, r)[i] = q[i]
      /\ Append(q, r)[Len(q) + 1] = r
  BY <1>4, AppendProperties, LenProperties
<1>6. ASSUME NEW i \in 1 .. Len(q) + 1
      PROVE  i \in 1 .. Len(q) \/ i = Len(q) + 1
  BY <1>4
<1>7. \A n \in Msgs \ {m} : replies'[n] = replies[n]
  BY <1>1 DEF Send
<1> QED
  BY <1>2, <1>3, <1>4, <1>5, <1>6, <1>7 DEF q

\* An answer that reports no results: what is in the others stays.
LEMMA OtherAnswer ==
    ASSUME TypeOK, NEW m \in Msgs, NEW type \in {"unknown", "quit"}, NEW id, NEW res,
           Send(m, type, id, res) \/ UNCHANGED replies
    PROVE  /\ \A n \in Msgs \ {m} : replies'[n] = replies[n]
           /\ \A i \in DOMAIN replies'[m] : replies'[m][i].type = "result" =>
                i \in DOMAIN replies[m] /\ replies'[m][i] = replies[m][i]
BY SendEffect

LEMMA ParseErrorAnswer ==
    ASSUME TypeOK, NEW m \in Msgs, SendParseErrorNothrow(m)
    PROVE  /\ \A n \in Msgs \ {m} : replies'[n] = replies[n]
           /\ \A i \in DOMAIN replies'[m] : replies'[m][i].type = "result" =>
                i \in DOMAIN replies[m] /\ replies'[m][i] = replies[m][i]
BY OtherAnswer DEF SendParseErrorNothrow

LEMMA HandleMessageResults ==
    ASSUME CountInv, ResultInv, NEW m \in Msgs, HandleMessage(m)
    PROVE  ResultInv'
<1>t. TypeOK
  BY DEF CountInv
<1>1. worker[m] = "none"
  BY GetMessageInv DEF HandleMessage, RejectMalformed, RejectEmpty, Quit, ExecuteTasks, ExecuteEvacuate
<1>2. \A i \in DOMAIN replies[m] : replies[m][i].type # "result"
  BY <1>1 DEF ResultInv, FaithfulReply, Settled
<1>3. ASSUME UNCHANGED <<worker, tasks, futures, results>>,
             \A n \in Msgs \ {m} : replies'[n] = replies[n],
             \A i \in DOMAIN replies'[m] : replies'[m][i].type = "result" =>
                i \in DOMAIN replies[m] /\ replies'[m][i] = replies[m][i]
      PROVE  ResultInv'
  <2>1. InTaskOrder(m)'
    BY <1>3 DEF ResultInv, InTaskOrder
  <2>2. FaithfulReply(m)'
    BY <1>2, <1>3 DEF FaithfulReply
  <2> QED
    BY <1>3, <2>1, <2>2, OtherResults
<1>4. ASSUME NEW ts \in Seq(BOOLEAN), Dispatch(m, ts)
      PROVE  ResultInv'
  <2>1. /\ UNCHANGED <<futures, results, replies>> /\ tasks'[m] = ts
        /\ \A n \in Msgs \ {m} : worker'[n] = worker[n] /\ tasks'[n] = tasks[n]
    BY <1>4, <1>t DEF Dispatch, TypeOK
  <2>2. futures[m] = <<>> /\ Len(futures[m]) = 0 /\ Len(ts) \in Nat
    BY <1>1, EmptySeq, LenProperties DEF ResultInv, InTaskOrder
  <2>3. InTaskOrder(m)'
    BY <2>1, <2>2 DEF ResultInv, InTaskOrder
  <2>4. FaithfulReply(m)'
    BY <1>2, <2>1 DEF FaithfulReply
  <2> QED
    BY <2>1, <2>3, <2>4, OtherResults
<1>5. CASE RejectMalformed(m)
  BY <1>3, <1>5, <1>t, ParseErrorAnswer DEF RejectMalformed, containerVars
<1>6. CASE RejectEmpty(m)
  BY <1>3, <1>6, <1>t, ParseErrorAnswer, OtherAnswer DEF RejectEmpty, containerVars
<1>7. CASE Quit(m)
  BY <1>3, <1>7, <1>t, ParseErrorAnswer, OtherAnswer DEF Quit, containerVars
<1>8. CASE ExecuteTasks(m)
  <2>1. shape[m].subs \in Seq(BOOLEAN)
    BY <1>t DEF TypeOK, ShapeType
  <2> QED
    BY <1>4, <1>8, <2>1 DEF ExecuteTasks
<1>9. CASE ExecuteEvacuate(m)
  <2>1. \A n \in 0 .. MaxTasks : [k \in 1 .. n |-> TRUE] \in Seq(BOOLEAN)
    BY Parameters, IsASeq DEF Parameters
  <2> QED
    BY <1>3, <1>4, <1>9, <1>t, <2>1, ParseErrorAnswer DEF ExecuteEvacuate, containerVars
<1> QED
  BY <1>5, <1>6, <1>7, <1>8, <1>9 DEF HandleMessage

\* A future that is not ready changes: no result has been taken from it, and
\* no answer sent.
LEMMA FutureChanges ==
    ASSUME TypeOK, ResultInv, NEW m \in Msgs, NEW k \in DOMAIN futures[m],
           futures[m][k] \in {"running", "deferred"}, NEW s \in FutureStates,
           futures' = [futures EXCEPT ![m][k] = s],
           UNCHANGED <<worker, tasks, results, replies>>
    PROVE  ResultInv'
<1> DEFINE f == futures[m]
           r == results[m]
<1>1. /\ f \in Seq(FutureStates) /\ futures \in [Msgs -> Seq(FutureStates)]
      /\ r \in Seq(Final)
  BY DEF TypeOK
<1>2. Len(f) \in Nat /\ DOMAIN f = 1 .. Len(f) /\ Len(r) \in Nat /\ f # <<>>
  BY <1>1, LenProperties, EmptySeq
<1>3. /\ futures'[m] = [f EXCEPT ![k] = s]
      /\ \A n \in Msgs \ {m} : futures'[n] = futures[n]
  BY <1>1
<1>4. Len(futures'[m]) = Len(f) /\ \A i \in 1 .. Len(f) : i # k => futures'[m][i] = f[i]
  BY <1>1, <1>2, <1>3, ExceptSeq
<1>5. ASSUME NEW i \in 1 .. Len(r)
      PROVE  i # k
  <2>1. r[i] = f[i] /\ r[i] \in Final
    BY <1>1, <1>5, ElementOfSeq DEF ResultInv, InTaskOrder
  <2> QED
    BY <2>1 DEF Final
<1>6. ~Settled(m)
  BY DEF Settled, Final
<1>7. InTaskOrder(m)'
  <2>1. InTaskOrder(m)
    BY DEF ResultInv
  <2>2. worker'[m] = worker[m] /\ worker[m] \notin {"none", "spawned"}
    BY <1>2, <2>1 DEF InTaskOrder
  <2>3. ASSUME NEW i \in 1 .. Len(r)
        PROVE  r[i] = futures'[m][i]
    BY <1>2, <1>4, <1>5, <2>1, <2>3 DEF InTaskOrder
  <2> QED
    BY <1>4, <2>1, <2>2, <2>3 DEF InTaskOrder
<1>8. FaithfulReply(m)'
  BY <1>6 DEF ResultInv, FaithfulReply
<1> QED
  BY <1>3, <1>7, <1>8, OtherResults

LEMMA LaunchResults ==
    ASSUME TypeOK, ResultInv, NEW m \in Msgs, LaunchTask(m)
    PROVE  ResultInv'
<1> DEFINE f == futures[m]
           r == results[m]
<1>1. /\ f \in Seq(FutureStates) /\ futures \in [Msgs -> Seq(FutureStates)]
      /\ r \in Seq(Final) /\ tasks[m] \in Seq(BOOLEAN)
  BY DEF TypeOK
<1>2. Len(f) \in Nat /\ Len(r) \in Nat /\ Len(tasks[m]) \in Nat /\ Len(f) < Len(tasks[m])
  BY <1>1, LenProperties DEF LaunchTask
<1>3. tasks[m][Len(f) + 1] \in BOOLEAN
  BY <1>1, <1>2, ElementOfSeq
<1> DEFINE e == IF tasks[m][Len(f) + 1] THEN "running" ELSE "deferred"
<1>4. e \in FutureStates
  BY <1>3, LaunchedFuture
<1>5. /\ futures'[m] = Append(f, e) /\ worker[m] = "run"
      /\ UNCHANGED <<worker, tasks, results, replies>>
      /\ \A n \in Msgs \ {m} : futures'[n] = futures[n]
  BY <1>1 DEF LaunchTask
<1> HIDE DEF e
<1>6. Len(futures'[m]) = Len(f) + 1 /\ \A i \in 1 .. Len(f) : futures'[m][i] = f[i]
  BY <1>1, <1>4, <1>5, AppendProperties
<1>7. InTaskOrder(m)'
  BY <1>2, <1>5, <1>6 DEF ResultInv, InTaskOrder
<1>8. FaithfulReply(m)'
  BY <1>5 DEF ResultInv, FaithfulReply, Settled
<1> QED
  BY <1>5, <1>7, <1>8, OtherResults

LEMMA CollectResults ==
    ASSUME TypeOK, ResultInv, NEW m \in Msgs, NEW k \in DOMAIN futures[m], Collect(m, k)
    PROVE  ResultInv'
<1> DEFINE f == futures[m]
           r == results[m]
<1>1. f \in Seq(FutureStates) /\ r \in Seq(Final) /\ results \in [Msgs -> Seq(Final)]
  BY DEF TypeOK
<1>2. Len(f) \in Nat /\ DOMAIN f = 1 .. Len(f) /\ Len(r) \in Nat
  BY <1>1, LenProperties
<1>3. /\ worker[m] = "run" /\ k = Len(r) + 1 /\ f[k] \in Final
      /\ results'[m] = Append(r, f[k])
      /\ UNCHANGED <<worker, tasks, futures, replies>>
      /\ \A n \in Msgs \ {m} : results'[n] = results[n]
  BY <1>1 DEF Collect, AtFuture
<1>4. /\ Len(results'[m]) = Len(r) + 1
      /\ \A i \in 1 .. Len(r) : results'[m][i] = r[i]
      /\ results'[m][Len(r) + 1] = f[k]
  BY <1>1, <1>3, AppendProperties
<1>5. \A i \in 1 .. Len(r) + 1 : i \in 1 .. Len(r) \/ i = Len(r) + 1
  BY <1>2
<1>6. InTaskOrder(m)'
  BY <1>2, <1>3, <1>4, <1>5 DEF ResultInv, InTaskOrder
<1>7. FaithfulReply(m)'
  BY <1>3 DEF ResultInv, FaithfulReply, Settled
<1> QED
  BY <1>3, <1>6, <1>7, OtherResults

\* func is through its futures: what it sends are their values.
LEMMA SendResultResults ==
    ASSUME TypeOK, ResultInv, NEW m \in Msgs, SendResult(m)
    PROVE  ResultInv'
<1> DEFINE f == futures[m]
           r == results[m]
<1>1. /\ f \in Seq(FutureStates) /\ r \in Seq(Final) /\ tasks[m] \in Seq(BOOLEAN)
      /\ worker \in [Msgs -> WorkerStates] /\ replies \in [Msgs -> Seq(ReplyType)]
  BY DEF TypeOK
<1>2. Len(f) \in Nat /\ DOMAIN f = 1 .. Len(f) /\ Len(r) \in Nat /\ Len(tasks[m]) \in Nat
  BY <1>1, LenProperties
<1>3. Len(r) = Len(tasks[m]) /\ worker[m] = "run" /\ UNCHANGED <<tasks, futures, results>>
  BY DEF SendResult
<1>4. Len(f) = Len(r) /\ \A i \in 1 .. Len(r) : r[i] = f[i]
  BY <1>2, <1>3 DEF ResultInv, InTaskOrder
<1>5. r = f
  <2>1. r \in Seq(FutureStates)
    BY <1>1, SeqMonotonic DEF FutureStates
  <2> QED
    BY <1>1, <1>4, <2>1, SeqEqual
<1>6. \A k \in DOMAIN f : f[k] \in Final
  BY <1>1, <1>2, <1>4, ElementOfSeq
<1>7. \A i \in DOMAIN replies[m] : replies[m][i].type # "result"
  BY <1>3 DEF ResultInv, FaithfulReply, Settled
<1>8. CASE /\ Send(m, "result", TRUE, r)
           /\ worker' = [worker EXCEPT ![m] = IF shape[m].conc THEN "uncount" ELSE "done"]
  <2>1. worker'[m] \in {"uncount", "done"} /\ \A n \in Msgs \ {m} : worker'[n] = worker[n]
    BY <1>1, <1>8
  <2>2. Settled(m)'
    BY <1>3, <1>4, <1>6, <2>1 DEF Settled
  <2>3. /\ \A n \in Msgs \ {m} : replies'[n] = replies[n]
        /\ \A i \in DOMAIN replies'[m] :
             \/ i \in DOMAIN replies[m] /\ replies'[m][i] = replies[m][i]
             \/ replies'[m][i].type = "result" /\ replies'[m][i].results = r
    <3> HIDE DEF r
    <3> QED
      BY <1>8, SendEffect, Zenon
  <2>4. FaithfulReply(m)'
    BY <1>3, <1>5, <1>7, <2>2, <2>3 DEF FaithfulReply
  <2>5. InTaskOrder(m)'
    BY <1>3, <2>1 DEF ResultInv, InTaskOrder
  <2> QED
    BY <1>3, <2>1, <2>3, <2>4, <2>5, OtherResults
<1>9. CASE UNCHANGED <<worker, replies>>
  BY <1>3, <1>9 DEF ResultInv, InTaskOrder, FaithfulReply, Settled
<1>10. CASE SendParseErrorNothrow(m) /\ worker' = [worker EXCEPT ![m] = "done"]
  <2>1. worker'[m] = "done" /\ \A n \in Msgs \ {m} : worker'[n] = worker[n]
    BY <1>1, <1>10
  <2>2. /\ \A n \in Msgs \ {m} : replies'[n] = replies[n]
        /\ \A i \in DOMAIN replies'[m] : replies'[m][i].type = "result" =>
             i \in DOMAIN replies[m] /\ replies'[m][i] = replies[m][i]
    BY <1>10, ParseErrorAnswer
  <2>3. FaithfulReply(m)'
    BY <1>7, <2>2 DEF FaithfulReply
  <2>4. InTaskOrder(m)'
    BY <1>3, <2>1 DEF ResultInv, InTaskOrder
  <2> QED
    BY <1>3, <2>1, <2>2, <2>3, <2>4, OtherResults
<1> QED
  BY <1>8, <1>9, <1>10 DEF SendResult

\* The thread of a container is counted or no longer counted.
LEMMA ThreadResults ==
    ASSUME TypeOK, ResultInv, NEW m \in Msgs, CountThread(m) \/ UncountThread(m)
    PROVE  ResultInv'
<1>1. /\ worker \in [Msgs -> WorkerStates] /\ UNCHANGED <<tasks, futures, results, replies>>
      /\ \/ worker[m] = "spawned" /\ worker' = [worker EXCEPT ![m] = "run"]
         \/ worker[m] = "uncount" /\ worker' = [worker EXCEPT ![m] = "done"]
  BY DEF CountThread, UncountThread, TypeOK
<1>2. InTaskOrder(m)'
  BY <1>1 DEF ResultInv, InTaskOrder
<1>3. FaithfulReply(m)'
  BY <1>1 DEF ResultInv, FaithfulReply, Settled
<1> QED
  BY <1>1, <1>2, <1>3, OtherResults

LEMMA ResultInit == Init => ResultInv
<1> SUFFICES ASSUME Init PROVE ResultInv
  OBVIOUS
<1>1. ASSUME NEW m \in Msgs
      PROVE  InTaskOrder(m) /\ FaithfulReply(m)
  <2>1. futures[m] = <<>> /\ tasks[m] = <<>> /\ results[m] = <<>> /\ replies[m] = <<>>
    BY DEF Init
  <2>2. Len(<<>>) = 0 /\ DOMAIN <<>> = {}
    OBVIOUS
  <2>3. InTaskOrder(m)
    BY <2>1, <2>2 DEF InTaskOrder
  <2>4. FaithfulReply(m)
    BY <2>1, <2>2 DEF FaithfulReply
  <2> QED
    BY <2>3, <2>4
<1> QED
  BY <1>1 DEF ResultInv

LEMMA ResultNext == CountInv /\ ResultInv /\ [Next]_vars => ResultInv'
<1> SUFFICES ASSUME CountInv, ResultInv, [Next]_vars PROVE ResultInv'
  OBVIOUS
<1>t. TypeOK
  BY DEF CountInv
<1>1. ASSUME NEW m \in Msgs, HandleMessage(m)
      PROVE  ResultInv'
  BY <1>1, HandleMessageResults
<1>2. ASSUME NEW m \in Msgs, NEW k \in DOMAIN futures[m], RunDeferred(m, k)
      PROVE  ResultInv'
  BY <1>2, <1>t, FutureChanges DEF RunDeferred, FutureStates
<1>3. ASSUME NEW m \in Msgs, NEW k \in DOMAIN futures[m], FinishTask(m, k)
      PROVE  ResultInv'
  BY <1>3, <1>t, FutureChanges DEF FinishTask, FutureStates
<1>4. ASSUME NEW m \in Msgs, WorkerStep(m) \/ TaskEnds(m)
      PROVE  ResultInv'
  BY <1>2, <1>3, <1>4, <1>t, LaunchResults, CollectResults, SendResultResults, ThreadResults
     DEF WorkerStep, TaskEnds
<1>5. ASSUME UNCHANGED <<worker, tasks, futures, results, replies>>
      PROVE  ResultInv'
  BY <1>5 DEF ResultInv, InTaskOrder, FaithfulReply, Settled
<1>6. ASSUME NEW s \in Shapes, Publish(s)
      PROVE  ResultInv'
  BY <1>5, <1>6 DEF Publish
<1>7. CASE WaitForThreads \/ SpuriousWakeup \/ ProcessExit \/ UNCHANGED vars
  BY <1>5, <1>7 DEF WaitForThreads, SpuriousWakeup, ProcessExit, vars
<1> QED
  BY <1>1, <1>4, <1>6, <1>7 DEF Next

\* A result container reports every task of its container, in their order and
\* with the status each one ended with, for any number of messages and tasks
\* and however the futures become ready.
THEOREM ReplyCorrect == Spec => []ReplyFaithful
<1>1. ResultInv => ReplyFaithful
  BY DEF ResultInv, FaithfulReply, Settled, ReplyFaithful
<1> QED
  BY <1>1, ResultInit, ResultNext, CountInvariant, PTL DEF Spec

-----------------------------------------------------------------------------
(* TaskHandler implements TaskService; what a task message is answered      *)
(* follows from the same inductive invariant.                               *)

\* A message that is still in the inbox, or not yet published, has no answer.
NoReplyAhead == \A m \in Msgs : m > Taken => replies[m] = <<>>

\* A container that has not ended has not been answered.
UnansweredRuns == \A m \in Msgs : worker[m] \in {"spawned", "run"} => replies[m] = <<>>

\* A container that runs in the loop is the message taken last.
InlineLast ==
    \A m \in Msgs :
        worker[m] = "run" /\ ~shape[m].conc => m = Taken /\ loop \in {"inline", "aborted"}

\* The loop ends with the quit that was answered, and only then.
QuitLast ==
    /\ \A m \in Msgs : \A i \in DOMAIN replies[m] :
         replies[m][i].type = "quit" => m = Taken /\ ~running
    /\ loop \in {"get", "inline"} => running
    /\ loop \in {"drain", "waiting", "returned", "gone"} => ~running

\* The inductive invariant behind the refinement.
ServiceInv ==
    /\ CountInv
    /\ NoReplyAhead
    /\ UnansweredRuns
    /\ InlineLast
    /\ QuitLast
    /\ AtMostOneReply

-----------------------------------------------------------------------------
(* What the parts of an action change. *)

LEMMA TakenType ==
    ASSUME CountInv
    PROVE  /\ published \in Nat /\ Len(inbox) \in Nat /\ Taken \in Nat /\ Taken <= published
           /\ Msgs \subseteq Nat
<1>1. published \in Nat /\ inbox \in Seq(Msgs) /\ Msgs \subseteq Nat
  BY Parameters DEF CountInv, TypeOK, Parameters, Msgs
<1>2. Len(inbox) \in Nat /\ Len(inbox) <= published
  BY <1>1, LenProperties DEF CountInv, InboxInOrder
<1> QED
  BY <1>1, <1>2 DEF Taken

\* The loop takes the message behind the last one.
LEMMA GetMessageTaken ==
    ASSUME CountInv, NEW m \in Msgs, NEW kind, GetMessage(m, kind)
    PROVE  /\ m = Taken + 1 /\ Taken' = Taken + 1 /\ m <= published
           /\ loop = "get" /\ running /\ worker[m] = "none"
           /\ published' = published /\ shape' = shape
<1>1. /\ Len(inbox) \in Nat \ {0} /\ inbox[1] = m
      /\ published' = published /\ shape' = shape /\ published \in Nat
      /\ Len(inbox') = Len(inbox) - 1 /\ loop = "get" /\ running
  BY GetMessageType, Parameters DEF CountInv, TypeOK, Parameters
<1>2. m = published - Len(inbox) + 1
  BY <1>1 DEF CountInv, InboxInOrder
<1>3. worker[m] = "none"
  BY GetMessageInv
<1> QED
  BY <1>1, <1>2, <1>3 DEF Taken

\* An answer to a message without one is its only answer.
LEMMA SendFirst ==
    ASSUME TypeOK, NEW m \in Msgs, replies[m] = <<>>, NEW type, NEW id, NEW res,
           Send(m, type, id, res)
    PROVE  /\ replies'[m] # <<>> /\ Len(replies'[m]) = 1 /\ DOMAIN replies'[m] = {1}
           /\ replies'[m][1].type = type /\ replies'[m][1].id = id
           /\ \A n \in Msgs : n # m => replies'[n] = replies[n]
<1> DEFINE e == [type |-> type, id |-> id, results |-> res]
<1>1. replies' = [replies EXCEPT ![m] = Append(<<>>, e)]
  BY DEF Send
<1>2. Append(<<>>, e) = <<e>>
  OBVIOUS
<1>3. replies'[m] = <<e>> /\ \A n \in Msgs : n # m => replies'[n] = replies[n]
  BY <1>1, <1>2 DEF TypeOK
<1>4. Len(<<e>>) = 1 /\ DOMAIN <<e>> = {1} /\ <<e>>[1] = e /\ <<e>> # <<>>
  OBVIOUS
<1> QED
  BY <1>3, <1>4

\* A step that leaves one answer, none, or what there was.
LEMMA OneReplyKept ==
    ASSUME AtMostOneReply, NEW m \in Msgs,
           replies'[m] = <<>> \/ Len(replies'[m]) = 1 \/ replies'[m] = replies[m],
           \A n \in Msgs : n # m => replies'[n] = replies[n]
    PROVE  AtMostOneReply'
<1>1. Len(<<>>) <= 1
  OBVIOUS
<1>2. ASSUME NEW n \in Msgs PROVE Len(replies'[n]) <= 1
  <2>1. CASE replies'[n] = replies[n]
    BY <2>1 DEF AtMostOneReply
  <2>2. CASE replies'[n] = <<>>
    BY <1>1, <2>2
  <2>3. CASE Len(replies'[n]) = 1
    BY <2>3
  <2> QED
    BY <2>1, <2>2, <2>3
<1> QED
  BY <1>2 DEF AtMostOneReply

\* The same for the error message of the loop, which may also be lost.
LEMMA ParseErrorFirst ==
    ASSUME TypeOK, NEW m \in Msgs, replies[m] = <<>>, SendParseErrorNothrow(m)
    PROVE  /\ \/ replies'[m] = <<>>
              \/ /\ replies'[m] # <<>> /\ Len(replies'[m]) = 1 /\ DOMAIN replies'[m] = {1}
                 /\ replies'[m][1].type = "unknown" /\ replies'[m][1].id = FALSE
           /\ \A n \in Msgs : n # m => replies'[n] = replies[n]
BY SendFirst DEF SendParseErrorNothrow

-----------------------------------------------------------------------------
(* One message handled by the loop. *)

\* replies'[m] holds one answer, of this type and with or without the id.
Answered(m, type, id) ==
    /\ replies'[m] # <<>> /\ Len(replies'[m]) = 1 /\ DOMAIN replies'[m] = {1}
    /\ replies'[m][1].type = type /\ replies'[m][1].id = id

\* The message is answered at once, or its answer is lost.
Rejected(m) ==
    /\ worker'[m] = "none"
    /\ replies'[m] = <<>> \/ Answered(m, "unknown", TRUE) \/ Answered(m, "unknown", FALSE)
    /\ UNCHANGED <<running, loop>>

Accepted(m) ==
    /\ worker'[m] = "none"
    /\ Answered(m, "quit", TRUE)
    /\ running' = FALSE /\ loop' = "drain"

Dispatched(m) ==
    /\ worker'[m] = (IF shape[m].conc THEN "spawned" ELSE "run")
    /\ replies'[m] = <<>>
    /\ running' = running
    /\ loop' = (IF shape[m].conc THEN "get" ELSE "inline")

\* The other messages stay as they are.
OthersKept(m) ==
    \A n \in Msgs : n # m => worker'[n] = worker[n] /\ replies'[n] = replies[n]

LEMMA HandleMessageEffect ==
    ASSUME ServiceInv, NEW m \in Msgs, HandleMessage(m)
    PROVE  /\ m = Taken + 1 /\ Taken' = Taken + 1 /\ m <= published
           /\ loop = "get" /\ running
           /\ published' = published /\ shape' = shape
           /\ OthersKept(m)
           /\ Rejected(m) \/ Accepted(m) \/ Dispatched(m)
<1>t. TypeOK /\ CountInv
  BY DEF ServiceInv, CountInv
<1>0. PICK kind \in Kinds : GetMessage(m, kind)
  BY DEF HandleMessage, RejectMalformed, RejectEmpty, Quit, ExecuteTasks, ExecuteEvacuate, Kinds
<1>1. /\ m = Taken + 1 /\ Taken' = Taken + 1 /\ m <= published
      /\ loop = "get" /\ running /\ worker[m] = "none"
      /\ published' = published /\ shape' = shape
  BY <1>t, <1>0, GetMessageTaken
<1>2. replies[m] = <<>>
  BY <1>t, <1>1, TakenType DEF ServiceInv, NoReplyAhead
<1>3. CASE SendParseErrorNothrow(m) /\ UNCHANGED <<running, loop, containerVars>>
  BY <1>t, <1>1, <1>2, <1>3, ParseErrorFirst DEF OthersKept, Rejected, Answered, containerVars
<1>4. ASSUME NEW id \in BOOLEAN, Send(m, "unknown", id, <<>>), UNCHANGED <<running, loop, containerVars>>
      PROVE  OthersKept(m) /\ Rejected(m)
  BY <1>t, <1>1, <1>2, <1>4, SendFirst DEF OthersKept, Rejected, Answered, containerVars
<1>5. CASE /\ Send(m, "quit", TRUE, <<>>) /\ running' = FALSE /\ loop' = "drain"
           /\ UNCHANGED containerVars
  BY <1>t, <1>1, <1>2, <1>5, SendFirst DEF OthersKept, Accepted, Answered, containerVars
<1>6. ASSUME NEW ts, Dispatch(m, ts)
      PROVE  OthersKept(m) /\ Dispatched(m)
  BY <1>t, <1>1, <1>2, <1>6 DEF Dispatch, OthersKept, Dispatched, TypeOK
<1>7. CASE RejectMalformed(m) \/ RejectEmpty(m)
  BY <1>1, <1>3, <1>4, <1>7 DEF RejectMalformed, RejectEmpty
<1>8. CASE Quit(m)
  BY <1>1, <1>3, <1>5, <1>8 DEF Quit
<1>9. CASE ExecuteTasks(m) \/ ExecuteEvacuate(m)
  BY <1>1, <1>3, <1>6, <1>9 DEF ExecuteTasks, ExecuteEvacuate
<1> QED
  BY <1>7, <1>8, <1>9 DEF HandleMessage

\* An answer of one element is what AtMostOneReply and QuitLast look at.
LEMMA HandleMessageService ==
    ASSUME ServiceInv, CountInv', NEW m \in Msgs, HandleMessage(m)
    PROVE  ServiceInv'
<1>e. /\ m = Taken + 1 /\ Taken' = Taken + 1 /\ m <= published
      /\ loop = "get" /\ running
      /\ published' = published /\ shape' = shape
      /\ OthersKept(m)
      /\ Rejected(m) \/ Accepted(m) \/ Dispatched(m)
  BY HandleMessageEffect
<1>t. Taken \in Nat /\ Msgs \subseteq Nat
  BY TakenType DEF ServiceInv
<1>1. NoReplyAhead'
  BY <1>e, <1>t DEF ServiceInv, NoReplyAhead, OthersKept
<1>2. UnansweredRuns'
  BY <1>e DEF ServiceInv, UnansweredRuns, OthersKept, Rejected, Accepted, Dispatched
<1>3. \A n \in Msgs : ~(worker[n] = "run" /\ ~shape[n].conc)
  BY <1>e DEF ServiceInv, InlineLast
<1>4. InlineLast'
  BY <1>e, <1>3 DEF InlineLast, OthersKept, Rejected, Accepted, Dispatched
<1>5. \A n \in Msgs : \A i \in DOMAIN replies[n] : replies[n][i].type # "quit"
  BY <1>e DEF ServiceInv, QuitLast
<1>6. QuitLast'
  <2>1. CASE Rejected(m)
    BY <1>e, <1>5, <2>1 DEF ServiceInv, QuitLast, OthersKept, Rejected, Answered
  <2>2. CASE Accepted(m)
    BY <1>e, <1>5, <2>2 DEF QuitLast, OthersKept, Accepted, Answered
  <2>3. CASE Dispatched(m)
    BY <1>e, <1>5, <2>3 DEF QuitLast, OthersKept, Dispatched
  <2> QED
    BY <1>e, <2>1, <2>2, <2>3
<1>7. AtMostOneReply'
  <2>1. replies'[m] = <<>> \/ Len(replies'[m]) = 1
    BY <1>e DEF Rejected, Accepted, Dispatched, Answered
  <2> QED
    BY <1>e, <2>1, OneReplyKept DEF ServiceInv, OthersKept
<1> QED
  BY <1>1, <1>2, <1>4, <1>6, <1>7 DEF ServiceInv

-----------------------------------------------------------------------------
(* One step of the thread that executes a container. *)

\* A thread goes on: it takes its Thread_counter, launches, runs or collects.
Advanced(m) ==
    /\ \/ worker'[m] = worker[m]
       \/ worker[m] = "spawned" /\ worker'[m] = "run" /\ shape[m].conc
    /\ UNCHANGED <<replies, loop>>

Reported(m) ==
    /\ worker[m] = "run" /\ worker'[m] = (IF shape[m].conc THEN "uncount" ELSE "done")
    /\ Answered(m, "result", TRUE)
    /\ loop' = (IF shape[m].conc THEN loop ELSE "get")

Terminated(m) ==
    /\ worker[m] = "run" /\ shape[m].conc
    /\ loop' = "aborted"
    /\ UNCHANGED <<worker, replies>>

Blamed(m) ==
    /\ worker[m] = "run" /\ ~shape[m].conc /\ worker'[m] = "done"
    /\ replies'[m] = <<>> \/ Answered(m, "unknown", FALSE)
    /\ loop' = "get"

Uncounted(m) ==
    /\ worker[m] = "uncount" /\ worker'[m] = "done"
    /\ loop' = loop \/ (loop = "waiting" /\ loop' = "drain")
    /\ UNCHANGED replies

LEMMA WorkerEffect ==
    ASSUME ServiceInv, NEW m \in Msgs, WorkerStep(m) \/ TaskEnds(m)
    PROVE  /\ Alive
           /\ UNCHANGED <<published, shape, inbox, running>>
           /\ OthersKept(m)
           /\ Advanced(m) \/ Reported(m) \/ Terminated(m) \/ Blamed(m) \/ Uncounted(m)
<1>t. TypeOK /\ worker \in [Msgs -> WorkerStates] /\ OnlyDetachedCount
  BY DEF ServiceInv, CountInv, TypeOK
<1>1. CASE CountThread(m)
  BY <1>t, <1>1 DEF CountThread, OthersKept, Advanced, OnlyDetachedCount
<1>2. CASE \/ LaunchTask(m)
           \/ \E k \in DOMAIN futures[m] :
                RunDeferred(m, k) \/ Collect(m, k) \/ FinishTask(m, k)
  BY <1>t, <1>2 DEF LaunchTask, RunDeferred, Collect, FinishTask, AtFuture, OthersKept, Advanced
<1>3. CASE SendResult(m)
  <2>1. /\ Alive /\ worker[m] = "run"
        /\ UNCHANGED <<published, shape, inbox, running>>
    BY <1>3 DEF SendResult
  <2>2. replies[m] = <<>>
    BY <2>1 DEF ServiceInv, UnansweredRuns
  <2>3. CASE /\ Send(m, "result", TRUE, results[m])
             /\ worker' = [worker EXCEPT ![m] = IF shape[m].conc THEN "uncount" ELSE "done"]
             /\ loop' = (IF shape[m].conc THEN loop ELSE "get")
    BY <1>t, <2>1, <2>2, <2>3, SendFirst DEF OthersKept, Reported, Answered
  <2>4. CASE shape[m].conc /\ loop' = "aborted" /\ UNCHANGED <<worker, replies>>
    BY <2>1, <2>4 DEF OthersKept, Terminated
  <2>5. CASE /\ ~shape[m].conc /\ SendParseErrorNothrow(m)
             /\ worker' = [worker EXCEPT ![m] = "done"] /\ loop' = "get"
    BY <1>t, <2>1, <2>2, <2>5, ParseErrorFirst DEF OthersKept, Blamed, Answered
  <2> QED
    BY <1>3, <2>1, <2>3, <2>4, <2>5 DEF SendResult
<1>4. CASE UncountThread(m)
  BY <1>t, <1>4 DEF UncountThread, OthersKept, Uncounted
<1> QED
  BY <1>1, <1>2, <1>3, <1>4 DEF WorkerStep, TaskEnds

LEMMA WorkerService ==
    ASSUME ServiceInv, CountInv', NEW m \in Msgs, WorkerStep(m) \/ TaskEnds(m)
    PROVE  ServiceInv'
<1>e. /\ Alive
      /\ UNCHANGED <<published, shape, inbox, running>>
      /\ OthersKept(m)
      /\ Advanced(m) \/ Reported(m) \/ Terminated(m) \/ Blamed(m) \/ Uncounted(m)
  BY WorkerEffect
<1>t. Taken \in Nat /\ Msgs \subseteq Nat /\ Taken' = Taken
  BY <1>e, TakenType DEF ServiceInv, Taken
<1>a. \A n \in Msgs : n > Taken => worker[n] = "none"
  BY DEF ServiceInv, CountInv, NoWorkerAhead, Taken
<1>1. NoReplyAhead'
  <2>1. CASE m > Taken
    BY <1>a, <1>e, <1>t, <2>1
       DEF ServiceInv, NoReplyAhead, OthersKept, Advanced, Reported, Terminated, Blamed, Uncounted
  <2>2. CASE ~(m > Taken)
    BY <1>e, <1>t, <2>2 DEF ServiceInv, NoReplyAhead, OthersKept
  <2> QED
    BY <2>1, <2>2
<1>2. UnansweredRuns'
  BY <1>e DEF ServiceInv, UnansweredRuns, OthersKept, Advanced, Reported, Terminated, Blamed, Uncounted
<1>3. InlineLast'
  <2> SUFFICES ASSUME NEW n \in Msgs, worker'[n] = "run", ~shape'[n].conc
               PROVE  n = Taken' /\ loop' \in {"inline", "aborted"}
    BY DEF InlineLast
  <2>1. worker[n] = "run" /\ ~shape[n].conc
    BY <1>e DEF OthersKept, Advanced, Reported, Terminated, Blamed, Uncounted
  <2>2. n = Taken /\ loop = "inline"
    BY <1>e, <2>1 DEF ServiceInv, InlineLast, Alive
  <2>3. ~Blamed(m) /\ (Reported(m) => shape[m].conc)
    BY <2>1, <2>2 DEF ServiceInv, InlineLast, Blamed, Reported
  <2> QED
    BY <1>e, <1>t, <2>2, <2>3 DEF Advanced, Reported, Terminated, Uncounted
<1>4. QuitLast'
  <2>1. \A n \in Msgs : \A i \in DOMAIN replies'[n] :
          replies'[n][i].type = "quit" => n = Taken' /\ ~running'
    BY <1>e, <1>t DEF ServiceInv, QuitLast, OthersKept, Advanced, Reported, Terminated, Blamed,
       Uncounted, Answered
  <2>2. loop' \in {"get", "inline"} => running'
    <3>1. CASE Reported(m) \/ Blamed(m)
      BY <1>e, <3>1 DEF ServiceInv, QuitLast, InlineLast, Reported, Blamed, Alive
    <3>2. CASE Advanced(m) \/ Terminated(m) \/ Uncounted(m)
      BY <1>e, <3>2 DEF ServiceInv, QuitLast, Advanced, Terminated, Uncounted
    <3> QED
      BY <1>e, <3>1, <3>2
  <2>3. loop' \in {"drain", "waiting", "returned", "gone"} => ~running'
    BY <1>e DEF ServiceInv, QuitLast, Advanced, Reported, Terminated, Blamed, Uncounted
  <2> QED
    BY <2>1, <2>2, <2>3 DEF QuitLast
<1>5. AtMostOneReply'
  <2>1. replies'[m] = replies[m] \/ replies'[m] = <<>> \/ Len(replies'[m]) = 1
    BY <1>e DEF Advanced, Reported, Terminated, Blamed, Uncounted, Answered
  <2> QED
    BY <1>e, <2>1, OneReplyKept DEF ServiceInv, OthersKept
<1> QED
  BY <1>1, <1>2, <1>3, <1>4, <1>5 DEF ServiceInv

-----------------------------------------------------------------------------
(* The invariant. *)

LEMMA PublishService ==
    ASSUME ServiceInv, CountInv', NEW s \in Shapes, Publish(s)
    PROVE  ServiceInv' /\ Taken' = Taken
<1>t. /\ published \in Nat /\ Len(inbox) \in Nat /\ inbox \in Seq(Msgs) /\ published + 1 \in Msgs
      /\ shape \in [Msgs -> ShapeType]
  BY TakenType, Parameters DEF ServiceInv, CountInv, TypeOK, Publish, Msgs, Parameters
<1>1. Len(inbox') = Len(inbox) + 1
  BY <1>t, AppendProperties DEF Publish
<1>2. Taken' = Taken
  BY <1>t, <1>1 DEF Taken, Publish
<1>3. worker[published + 1] = "none"
  BY <1>t DEF ServiceInv, CountInv, NoWorkerAhead
<1>4. \A m \in Msgs : m # published + 1 => shape'[m] = shape[m]
  BY <1>t DEF Publish
<1>5. UNCHANGED <<worker, replies, running, loop>>
  BY DEF Publish
<1>6. InlineLast'
  BY <1>2, <1>3, <1>4, <1>5 DEF ServiceInv, InlineLast
<1> QED
  BY <1>2, <1>5, <1>6 DEF ServiceInv, NoReplyAhead, UnansweredRuns, QuitLast, AtMostOneReply

LEMMA LoopService ==
    ASSUME ServiceInv, CountInv', WaitForThreads \/ SpuriousWakeup \/ ProcessExit \/ UNCHANGED vars
    PROVE  ServiceInv'
<1>1. UNCHANGED <<published, shape, inbox, worker, replies, running>>
  BY DEF WaitForThreads, SpuriousWakeup, ProcessExit, vars
<1>2. \/ UNCHANGED loop
      \/ /\ loop \in {"drain", "waiting", "returned"}
         /\ loop' \in {"drain", "waiting", "returned", "gone"}
  BY DEF WaitForThreads, SpuriousWakeup, ProcessExit, vars
<1>3. Taken' = Taken
  BY <1>1 DEF Taken
<1>4. InlineLast' /\ QuitLast'
  BY <1>1, <1>2, <1>3 DEF ServiceInv, InlineLast, QuitLast
<1> QED
  BY <1>1, <1>3, <1>4 DEF ServiceInv, NoReplyAhead, UnansweredRuns, AtMostOneReply

LEMMA ServiceInvInit == Init => ServiceInv
<1> SUFFICES ASSUME Init PROVE ServiceInv
  OBVIOUS
<1>1. CountInv
  BY CountInvInit
<1>2. Len(<<>>) = 0 /\ DOMAIN <<>> = {}
  BY EmptySeq
<1> QED
  BY <1>1, <1>2 DEF Init, ServiceInv, NoReplyAhead, UnansweredRuns, InlineLast, QuitLast, AtMostOneReply

LEMMA ServiceInvNext == ServiceInv /\ [Next]_vars => ServiceInv'
<1> SUFFICES ASSUME ServiceInv, [Next]_vars PROVE ServiceInv'
  OBVIOUS
<1>1. CountInv'
  BY CountInvNext DEF ServiceInv
<1> QED
  BY <1>1, PublishService, HandleMessageService, WorkerService, LoopService DEF Next

LEMMA ServiceInvariant == Spec => []ServiceInv
BY ServiceInvInit, ServiceInvNext, PTL DEF Spec

\* A task message is answered at most once, whatever fails to be sent.
THEOREM AnsweredOnce == Spec => []AtMostOneReply
<1>1. ServiceInv => AtMostOneReply
  BY DEF ServiceInv
<1> QED
  BY <1>1, ServiceInvariant, PTL

\* Nothing behind a container that runs in the loop, or behind an answered
\* quit, is ever acted upon.
THEOREM NothingOvertakes == Spec => []FifoBarrier
<1>1. ServiceInv => FifoBarrier
  <2> SUFFICES ASSUME ServiceInv, NEW m \in Msgs,
                      \/ worker[m] = "run" /\ ~shape[m].conc
                      \/ \E i \in DOMAIN replies[m] : replies[m][i].type = "quit",
                      NEW n \in Msgs, n > m
               PROVE  Untouched(n)
    BY DEF FifoBarrier
  <2>1. m = Taken
    BY DEF ServiceInv, InlineLast, QuitLast
  <2> QED
    BY <2>1 DEF ServiceInv, CountInv, NoWorkerAhead, NoReplyAhead, Untouched, Taken
<1> QED
  BY <1>1, ServiceInvariant, PTL

-----------------------------------------------------------------------------
(* The refinement: every step is a step of TaskService or leaves it alone. *)

Exclusive == {m \in Msgs : m <= published /\ ~shape[m].conc}

LEMMA GotoPhase ==
    ASSUME NEW m \in Msgs, NEW p, Phase(m)' = p,
           \A n \in Msgs : n # m => Phase(n)' = Phase(n)
    PROVE  Service!Goto(m, p)
BY DEF Service!Goto

\* The phase of a message the step does not touch.
LEMMA PhaseKept ==
    ASSUME ServiceInv, NEW m \in Msgs, OthersKept(m), published' = published,
           Taken' = Taken \/ (m = Taken + 1 /\ Taken' = m)
    PROVE  \A n \in Msgs : n # m => Phase(n)' = Phase(n)
<1>t. published \in Nat /\ Taken \in Nat /\ Msgs \subseteq Nat
  BY TakenType DEF ServiceInv
<1> SUFFICES ASSUME NEW n \in Msgs, n # m PROVE Phase(n)' = Phase(n)
  OBVIOUS
<1>1. worker'[n] = worker[n] /\ replies'[n] = replies[n]
  BY DEF OthersKept
<1>2. n > Taken' <=> n > Taken
  BY <1>t
<1> QED
  BY <1>1, <1>2 DEF Phase

\* It is the turn of the message behind the last one, while the loop is idle.
LEMMA NextTurn ==
    ASSUME ServiceInv, NEW m \in Msgs, m = Taken + 1, m <= published, loop = "get", running
    PROVE  Service!Turn(m)
<1>t. published \in Nat /\ Taken \in Nat /\ Msgs \subseteq Nat
  BY TakenType DEF ServiceInv
<1>1. Phase(m) = "queued"
  BY <1>t DEF ServiceInv, NoReplyAhead, Phase
<1>2. \A q \in Msgs : q < m => Phase(q) # "queued"
  BY <1>t DEF Phase
<1>3. \A q \in Exclusive : Phase(q) # "running"
  <2> SUFFICES ASSUME NEW q \in Exclusive, Phase(q) = "running" PROVE FALSE
    OBVIOUS
  <2>1. q \in Msgs /\ ~shape[q].conc /\ worker[q] \in {"spawned", "run"}
    BY DEF Exclusive, Phase
  <2> QED
    BY <2>1 DEF ServiceInv, InlineLast, CountInv, OnlyDetachedCount
<1> QED
  BY <1>1, <1>2, <1>3 DEF Service!Turn, Alive, Exclusive

LEMMA HandleMessageRefines ==
    ASSUME ServiceInv, NEW m \in Msgs, HandleMessage(m)
    PROVE  Service!Next
<1>e. /\ m = Taken + 1 /\ Taken' = Taken + 1 /\ m <= published
      /\ loop = "get" /\ running
      /\ published' = published /\ shape' = shape
      /\ OthersKept(m)
      /\ Rejected(m) \/ Accepted(m) \/ Dispatched(m)
  BY HandleMessageEffect
<1>t. published \in Nat /\ Taken \in Nat /\ Msgs \subseteq Nat
  BY TakenType DEF ServiceInv
<1>1. Service!Turn(m)
  BY <1>e, NextTurn
<1>2. \A n \in Msgs : n # m => Phase(n)' = Phase(n)
  BY <1>e, PhaseKept
<1>3. Exclusive' = Exclusive
  BY <1>e DEF Exclusive
<1>4. CASE Rejected(m)
  <2>1. Phase(m)' \in {"answered", "anonymous", "lost"}
    BY <1>e, <1>t, <1>4 DEF Phase, Rejected, Answered
  <2>2. Alive' = Alive /\ running' = running
    BY <1>4 DEF Rejected, Alive
  <2>3. Service!Reject(m)
    BY <1>1, <1>2, <1>3, <2>1, <2>2, GotoPhase DEF Service!Reject, Exclusive
  <2> QED
    BY <2>3 DEF Service!Next
<1>5. CASE Accepted(m)
  <2>1. Phase(m)' = "answered" /\ running' = FALSE
    BY <1>5 DEF Phase, Accepted, Answered
  <2>2. Alive' = Alive
    BY <1>e, <1>5 DEF Accepted, Alive
  <2>3. Service!Quit(m)
    BY <1>1, <1>2, <1>3, <2>1, <2>2, GotoPhase DEF Service!Quit, Exclusive
  <2> QED
    BY <2>3 DEF Service!Next
<1>6. CASE Dispatched(m)
  <2>1. Phase(m)' = "running" /\ running' = running
    BY <1>e, <1>t, <1>6 DEF Phase, Dispatched
  <2>2. Alive' = Alive
    BY <1>e, <1>6 DEF Dispatched, Alive
  <2>3. Service!Begin(m)
    BY <1>1, <1>2, <1>3, <2>1, <2>2, GotoPhase DEF Service!Begin, Exclusive
  <2> QED
    BY <2>3 DEF Service!Next
<1> QED
  BY <1>e, <1>4, <1>5, <1>6

\* A thread that executes a container belongs to a message that was taken.
LEMMA RunningPhase ==
    ASSUME ServiceInv, NEW m \in Msgs, worker[m] \in {"spawned", "run"}
    PROVE  Phase(m) = "running" /\ m <= Taken /\ m <= published
<1>t. published \in Nat /\ Taken \in Nat /\ Msgs \subseteq Nat /\ Taken <= published
  BY TakenType DEF ServiceInv
<1>1. m <= Taken
  BY <1>t DEF ServiceInv, CountInv, NoWorkerAhead, Taken
<1>2. replies[m] = <<>>
  BY DEF ServiceInv, UnansweredRuns
<1> QED
  BY <1>t, <1>1, <1>2 DEF Phase

LEMMA WorkerRefines ==
    ASSUME ServiceInv, NEW m \in Msgs, WorkerStep(m) \/ TaskEnds(m)
    PROVE  [Service!Next]_(Service!vars)
<1>e. /\ Alive
      /\ UNCHANGED <<published, shape, inbox, running>>
      /\ OthersKept(m)
      /\ Advanced(m) \/ Reported(m) \/ Terminated(m) \/ Blamed(m) \/ Uncounted(m)
  BY WorkerEffect
<1>t. published \in Nat /\ Taken \in Nat /\ Msgs \subseteq Nat /\ Taken' = Taken
  BY <1>e, TakenType DEF ServiceInv, Taken
<1>1. \A n \in Msgs : n # m => Phase(n)' = Phase(n)
  BY <1>e, <1>t, PhaseKept
<1>2. Exclusive' = Exclusive
  BY <1>e DEF Exclusive
<1>3. ASSUME Phase(m)' = Phase(m), Alive'
      PROVE  UNCHANGED Service!vars
  BY <1>1, <1>2, <1>3, <1>e DEF Service!vars, Exclusive
<1>4. CASE Advanced(m)
  <2>1. worker'[m] \in {"spawned", "run"} <=> worker[m] \in {"spawned", "run"}
    BY <1>4 DEF Advanced
  <2>2. Phase(m)' = Phase(m)
    BY <1>4, <1>e, <1>t, <2>1 DEF Phase, Advanced
  <2> QED
    BY <1>3, <1>4, <1>e, <2>2 DEF Advanced, Alive
<1>5. CASE Reported(m)
  <2>1. Phase(m) = "running"
    BY <1>5, RunningPhase DEF Reported
  <2>2. Phase(m)' = "answered"
    BY <1>5 DEF Phase, Reported, Answered
  <2>3. Alive' = Alive
    BY <1>5, <1>e DEF Reported, Alive
  <2>4. Service!Finish(m)
    BY <1>1, <1>2, <1>e, <2>1, <2>2, <2>3, GotoPhase DEF Service!Finish, Exclusive
  <2> QED
    BY <2>4 DEF Service!Next
<1>6. CASE Blamed(m)
  <2>1. Phase(m) = "running" /\ m \in Exclusive
    BY <1>6, RunningPhase DEF Blamed, Exclusive
  <2>2. Phase(m)' \in {"anonymous", "lost"}
    BY <1>6, <1>e, <1>t, RunningPhase DEF Phase, Blamed, Answered
  <2>3. Alive' = Alive
    BY <1>6, <1>e DEF Blamed, Alive
  <2>4. Service!Finish(m)
    BY <1>1, <1>2, <1>e, <2>1, <2>2, <2>3, GotoPhase DEF Service!Finish, Exclusive
  <2> QED
    BY <2>4 DEF Service!Next
<1>7. CASE Terminated(m)
  <2>1. Phase(m) = "running" /\ m \notin Exclusive
    BY <1>7, RunningPhase DEF Terminated, Exclusive
  <2>2. \A n \in Msgs : Phase(n)' = Phase(n)
    BY <1>7, <1>e, <1>t DEF Phase, Terminated
  <2>3. Alive' = FALSE
    BY <1>7 DEF Terminated, Alive
  <2>4. Service!End
    BY <1>2, <1>e, <2>1, <2>2, <2>3 DEF Service!End, Exclusive
  <2> QED
    BY <2>4 DEF Service!Next
<1>8. CASE Uncounted(m)
  <2>1. Phase(m)' = Phase(m)
    BY <1>8, <1>e, <1>t DEF Phase, Uncounted
  <2> QED
    BY <1>3, <1>8, <1>e, <2>1 DEF Uncounted, Alive
<1> QED
  BY <1>e, <1>4, <1>5, <1>6, <1>7, <1>8

LEMMA PublishRefines ==
    ASSUME ServiceInv, CountInv', NEW s \in Shapes, Publish(s)
    PROVE  Service!Next
<1>n. published + 1 \in Msgs
  BY Parameters DEF ServiceInv, CountInv, TypeOK, Publish, Msgs, Parameters
<1>p. PICK m \in Msgs : m = published + 1
  BY <1>n
<1>t. /\ published \in Nat /\ Taken \in Nat /\ Msgs \subseteq Nat /\ Taken <= published
      /\ m = published + 1 /\ shape \in [Msgs -> ShapeType]
  BY <1>p, TakenType DEF ServiceInv, CountInv, TypeOK
<1>1. Taken' = Taken /\ published' = m /\ UNCHANGED <<worker, replies, running, loop>>
  BY <1>t, PublishService DEF Publish
<1>2. Phase(m) = "unsent" /\ Phase(m)' = "queued"
  BY <1>t, <1>1 DEF ServiceInv, NoReplyAhead, Phase
<1>3. \A n \in Msgs : n < m => Phase(n) # "unsent"
  BY <1>t DEF Phase
<1>4. \A n \in Msgs : n # m => Phase(n)' = Phase(n)
  <2> SUFFICES ASSUME NEW n \in Msgs, n # m PROVE Phase(n)' = Phase(n)
    OBVIOUS
  <2>1. n > published' <=> n > published
    BY <1>t, <1>1
  <2> QED
    BY <1>1, <2>1 DEF Phase
<1>5. Exclusive' \in {Exclusive, Exclusive \cup {m}}
  <2>1. \A n \in Msgs : n # m => (n \in Exclusive' <=> n \in Exclusive)
    BY <1>t, <1>1 DEF Exclusive, Publish
  <2>2. m \notin Exclusive /\ Exclusive \subseteq Msgs /\ Exclusive' \subseteq Msgs
    BY <1>t DEF Exclusive
  <2>3. CASE m \in Exclusive'
    <3>1. Exclusive' = Exclusive \cup {m}
      BY <2>1, <2>2, <2>3
    <3> QED
      BY <3>1
  <2>4. CASE m \notin Exclusive'
    <3>1. Exclusive' = Exclusive
      BY <2>1, <2>2, <2>4
    <3> QED
      BY <3>1
  <2> QED
    BY <2>3, <2>4
<1>6. Alive' = Alive
  BY <1>1 DEF Alive
<1>7. Service!Submit(m)
  BY <1>t, <1>1, <1>2, <1>3, <1>4, <1>5, <1>6, GotoPhase DEF Service!Submit, Exclusive
<1> QED
  BY <1>t, <1>7 DEF Service!Next

LEMMA LoopRefines ==
    ASSUME ServiceInv, WaitForThreads \/ SpuriousWakeup \/ ProcessExit \/ UNCHANGED vars
    PROVE  [Service!Next]_(Service!vars)
<1>1. UNCHANGED <<published, shape, inbox, worker, replies, running>>
  BY DEF WaitForThreads, SpuriousWakeup, ProcessExit, vars
<1>2. (\A n \in Msgs : Phase(n)' = Phase(n)) /\ Exclusive' = Exclusive
  BY <1>1 DEF Phase, Taken, Exclusive
<1>3. CASE ProcessExit
  <2>1. Alive /\ ~Alive' /\ ~running
    BY <1>3 DEF ProcessExit, Alive, ServiceInv, QuitLast
  <2>2. Service!End
    BY <1>1, <1>2, <2>1 DEF Service!End, Exclusive
  <2> QED
    BY <2>2 DEF Service!Next
<1>4. CASE WaitForThreads \/ SpuriousWakeup \/ UNCHANGED vars
  <2>1. Alive' = Alive
    BY <1>4 DEF WaitForThreads, SpuriousWakeup, vars, Alive
  <2> QED
    BY <1>1, <1>2, <2>1 DEF Service!vars, Exclusive
<1> QED
  BY <1>3, <1>4

LEMMA InitRefines == Init => Service!Init
<1> SUFFICES ASSUME Init PROVE Service!Init
  OBVIOUS
<1>1. Msgs \subseteq Nat \ {0} /\ published = 0
  BY Parameters DEF Init, Msgs, Parameters
<1>2. \A m \in Msgs : Phase(m) = "unsent"
  BY <1>1 DEF Init, Phase
<1>3. Exclusive = {}
  <2>1. \A m \in Msgs : ~(m <= published)
    BY <1>1
  <2> QED
    BY <2>1 DEF Exclusive
<1>4. Alive /\ running
  BY DEF Init, Alive
<1> QED
  BY <1>2, <1>3, <1>4 DEF Init, Service!Init, Exclusive

\* The daemon implements TaskService: for any number of messages of any shape,
\* every step of its threads is a step the scheduler may expect, or none.
THEOREM Refinement == Spec => ImplementsService
<1>1. ServiceInv /\ [Next]_vars => [Service!Next]_(Service!vars)
  <2> SUFFICES ASSUME ServiceInv, [Next]_vars PROVE [Service!Next]_(Service!vars)
    OBVIOUS
  <2>1. CountInv'
    BY ServiceInvNext DEF ServiceInv
  <2> QED
    BY <2>1, PublishRefines, HandleMessageRefines, WorkerRefines, LoopRefines DEF Next
<1> QED
  BY <1>1, InitRefines, ServiceInvariant, PTL DEF Spec, ImplementsService, Service!Spec

=============================================================================
