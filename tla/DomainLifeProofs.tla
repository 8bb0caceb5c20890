-------------------------- MODULE DomainLifeProofs --------------------------
(***************************************************************************)
(* The life of domains for any number of nodes, domains and tasks: no      *)
(* domain is active on two nodes, and a task that reports success has done *)
(* what it says.                                                           *)
(***************************************************************************)
EXTENDS DomainLife, FiniteSetTheorems, TLAPS

-----------------------------------------------------------------------------
(* The inductive invariant. *)

StartSteps == {"connect", "remote", "lookup", "config", "boot", "attach", "probe"}

StopSteps == {"find", "persistent", "detach", "shutdown", "wait", "undefine"}

\* The thread of task t for d is one that its message asks for.
Roles ==
    \A t \in Tasks :
        /\ IF Busy(t) THEN task[t] \in Requests ELSE task[t] = NoTask
        /\ checked[t] # 0 => Busy(t) /\ task[t].kind = "start"
        /\ stage[t] = "list" => Asks(t, "regex")
        /\ \A d \in Doms :
             /\ pc[t][d] # "none" => Busy(t) /\ d \in task[t].doms
             /\ pc[t][d] \in StartSteps => task[t].kind = "start"
             /\ pc[t][d] \in StopSteps => task[t].kind = "stop"
             /\ pc[t][d] = "act" => task[t].kind \notin {"start", "stop"}
             /\ d \in task[t].doms /\ ~Asks(t, "regex") => pc[t][d] # "none"

\* What the scheduler does not do.
Exclusive ==
    \A t, u \in Tasks : \A d \in task[t].doms \cap task[u].doms :
        t # u => ~calm /\ ~(task[t].kind = "start" /\ task[u].kind = "start")

\* A domain that is off has no shutdown pending, nor has one that is unknown.
OffIsOff ==
    \A n \in Nodes, d \in Doms :
        /\ known[n][d] = "unknown" => ~Active(n, d)
        /\ ~Active(n, d) => ~halting[n][d]

\* What check_remote_state has seen is still true.
Seen ==
    \A t \in Tasks, d \in Doms :
        /\ pc[t][d] = "connect" => checked[t] = 0
        /\ pc[t][d] = "remote" => \A i \in 1 .. checked[t] : ~Active(nodes[i], d)
        /\ pc[t][d] = "lookup" => \A n \in Listed : ~Active(n, d)
        /\ pc[t][d] \in {"config", "boot"} => \A n \in Listed : Active(n, d) => n = Node(t)

Single ==
    \A n, m \in Listed, d \in Doms : Active(n, d) /\ Active(m, d) => n = m

\* How far an undisturbed start task has come.
Starting ==
    \A t \in Tasks, d \in Doms :
        calm /\ task[t].kind = "start" =>
            /\ pc[t][d] \in {"config", "boot"} /\ Asks(t, "transient") => ~halting[Node(t)][d]
            /\ pc[t][d] \in {"attach", "probe", "done"} => ~halting[Node(t)][d]
            /\ pc[t][d] \in {"attach", "probe", "done"} => state[Node(t)][d] = "running"
            /\ pc[t][d] \in {"probe", "done"} /\ Asks(t, "devices") => devs[Node(t)][d]

\* How far an undisturbed stop task has come.
Stopping ==
    \A t \in Tasks, d \in Doms :
        calm /\ task[t].kind = "stop" =>
            /\ pc[t][d] \in {"undefine", "done"} => ~Active(Node(t), d)
            /\ pc[t][d] = "done" /\ Asks(t, "undefine") => known[Node(t)][d] = "unknown"

LifeInv ==
    TypeOK /\ Roles /\ Exclusive /\ OffIsOff /\ Seen /\ Single /\ Starting /\ Stopping

-----------------------------------------------------------------------------
(* Facts about the constants. *)

LEMMA NodeFacts ==
    /\ Len(nodes) \in Nat
    /\ \A i \in 1 .. Len(nodes) : nodes[i] \in Listed
    /\ \A n \in Listed : n \in Nodes /\ \E i \in 1 .. Len(nodes) : n = nodes[i]
<1>1. nodes \in Seq(Nodes)
  BY Parameters DEF Parameters
<1>2. Len(nodes) \in Nat /\ DOMAIN nodes = 1 .. Len(nodes)
  BY <1>1
<1> QED
  BY <1>1, <1>2 DEF Listed

LEMMA RequestFacts ==
    ASSUME NEW r \in Requests
    PROVE  /\ r \in RequestType /\ r # NoTask /\ r.kind \in Kinds /\ r.node \in Nodes
           /\ r.doms \subseteq Doms
           /\ "regex" \in r.opts => r.kind = "stop"
           /\ "regex" \notin r.opts => \E d \in Doms : r.doms = {d}
<1>1. r \in RequestType
  BY Parameters DEF Parameters
<1>2. r.kind \in Kinds /\ r.node \in Nodes /\ r.doms \subseteq Doms
  BY <1>1 DEF RequestType
<1>3. r # NoTask
  BY <1>2 DEF NoTask, Kinds
<1> QED
  BY <1>1, <1>2, <1>3, Parameters DEF Parameters

LEMMA NoTaskFacts ==
    NoTask.kind = "none" /\ NoTask.node \in Nodes /\ NoTask.doms = {} /\ NoTask.opts = {}
  BY Parameters DEF Parameters, NoTask

LEMMA TaskFacts ==
    ASSUME TypeOK, NEW t \in Tasks
    PROVE  /\ Node(t) \in Nodes /\ task[t].doms \subseteq Doms
           /\ task[t] \in Requests \/ task[t] = NoTask
<1>1. task[t] \in Requests \cup {NoTask}
  BY DEF TypeOK
<1> QED
  BY <1>1, RequestFacts, NoTaskFacts DEF Node

-----------------------------------------------------------------------------
(* What a step of the thread of task t for domain d changes. *)

\* Nothing but its own place and what the node of the task knows of d.
Frame(t, d) ==
    /\ UNCHANGED <<calm, sent, task, stage>>
    /\ pc' \in [Tasks -> [Doms -> Steps]]
    /\ \A u \in Tasks, e \in Doms : u # t \/ e # d => pc'[u][e] = pc[u][e]
    /\ checked' \in [Tasks -> 0 .. Len(nodes)]
    /\ \A u \in Tasks : u # t => checked'[u] = checked[u]
    /\ persistent' \in [Tasks -> [Doms -> BOOLEAN]]
    /\ known' \in [Nodes -> [Doms -> {"unknown", "defined", "transient"}]]
    /\ state' \in [Nodes -> [Doms -> {"shutoff", "running", "paused"}]]
    /\ halting' \in [Nodes -> [Doms -> BOOLEAN]]
    /\ devs' \in [Nodes -> [Doms -> BOOLEAN]]
    /\ \A n \in Nodes, e \in Doms : n # Node(t) \/ e # d =>
         /\ known'[n][e] = known[n][e] /\ state'[n][e] = state[n][e]
         /\ halting'[n][e] = halting[n][e] /\ devs'[n][e] = devs[n][e]

\* The steps that only look.
Looks(t, d) ==
    /\ UNCHANGED <<checked, libvirt>>
    /\ \/ pc'[t][d] = "failed"
       \/ pc[t][d] = "connect" /\ pc'[t][d] = "remote"
       \/ pc[t][d] = "remote" /\ pc'[t][d] = "lookup" /\ checked[t] = Len(nodes)
       \/ pc[t][d] = "config" /\ pc'[t][d] = "boot"
       \/ pc[t][d] = "probe" /\ pc'[t][d] = "done"
       \/ pc[t][d] = "find" /\ pc'[t][d] = "persistent"
       \/ pc[t][d] = "persistent" /\ pc'[t][d] = "detach"
       \/ /\ pc[t][d] = "wait" /\ pc'[t][d] = "undefine"
          /\ known[Node(t)][d] = "unknown" \/ ~Active(Node(t), d)

\* The steps of a start task that change something.
Starts(t, d) ==
    \/ /\ pc[t][d] = "remote" /\ pc'[t][d] = "remote" /\ UNCHANGED libvirt
       /\ checked[t] < Len(nodes) /\ ~Active(nodes[checked[t] + 1], d)
       /\ checked'[t] = checked[t] + 1
    \/ /\ pc[t][d] = "lookup" /\ pc'[t][d] = "config" /\ UNCHANGED <<checked, halting, devs>>
       /\ known'[Node(t)][d] # "unknown"
       /\ state'[Node(t)][d] = state[Node(t)][d] \/ ~Active(Node(t), d)
       /\ Asks(t, "transient") => ~Active(Node(t), d)
    \/ /\ pc[t][d] = "boot" /\ pc'[t][d] = "attach" /\ UNCHANGED <<checked, known, halting, devs>>
       /\ state'[Node(t)][d] = "running" /\ known[Node(t)][d] # "unknown"
       /\ Asks(t, "transient") \/ ~Active(Node(t), d)
    \/ /\ pc[t][d] = "attach" /\ pc'[t][d] = "probe" /\ UNCHANGED <<checked, known, state, halting>>
       /\ Asks(t, "devices") => devs'[Node(t)][d]

\* The steps of other tasks that change something.
Stops(t, d) ==
    /\ UNCHANGED checked
    /\ \/ /\ pc[t][d] = "detach" /\ pc'[t][d] = "shutdown" /\ UNCHANGED <<known, state, halting>>
       \/ /\ pc[t][d] = "shutdown" /\ pc'[t][d] = "wait"
          /\ state'[Node(t)][d] = "shutoff" /\ ~halting'[Node(t)][d]
       \/ /\ pc[t][d] = "shutdown" /\ pc'[t][d] = "wait" /\ UNCHANGED <<known, state, devs>>
          /\ Active(Node(t), d)
       \/ /\ pc[t][d] = "undefine" /\ pc'[t][d] = "done" /\ UNCHANGED <<state, halting, devs>>
          /\ \/ ~Asks(t, "undefine") /\ UNCHANGED known
             \/ known'[Node(t)][d] = IF Active(Node(t), d) THEN "transient" ELSE "unknown"
       \/ /\ pc[t][d] = "act" /\ pc'[t][d] = "done" /\ UNCHANGED <<known, halting, devs>>
          /\ \/ UNCHANGED state
             \/ Active(Node(t), d) /\ state'[Node(t)][d] \in {"paused", "running"}

Effect(t, d) ==
    /\ Frame(t, d) /\ stage[t] = "run"
    /\ pc[t][d] \in StartSteps \cup StopSteps \cup {"act"}
    /\ Looks(t, d) \/ Starts(t, d) \/ Stops(t, d)

LEMMA GotoFacts ==
    ASSUME TypeOK, NEW t \in Tasks, NEW d \in Doms, NEW s \in Steps, Goto(t, d, s)
    PROVE  /\ UNCHANGED <<calm, sent, task, stage>>
           /\ pc' \in [Tasks -> [Doms -> Steps]] /\ pc'[t][d] = s
           /\ \A u \in Tasks, e \in Doms : u # t \/ e # d => pc'[u][e] = pc[u][e]
  BY DEF TypeOK, Goto

LEMMA StateFacts ==
    ASSUME TypeOK, NEW n \in Nodes, NEW d \in Doms, NEW s \in {"shutoff", "running", "paused"}, SetState(n, d, s)
    PROVE  /\ state' \in [Nodes -> [Doms -> {"shutoff", "running", "paused"}]]
           /\ state'[n][d] = s
           /\ \A m \in Nodes, e \in Doms : m # n \/ e # d => state'[m][e] = state[m][e]
  BY DEF TypeOK, SetState

SetKnown(n, d, k) == known' = [known EXCEPT ![n][d] = k]

LEMMA KnownFacts ==
    ASSUME TypeOK, NEW n \in Nodes, NEW d \in Doms, NEW k \in {"unknown", "defined", "transient"},
           SetKnown(n, d, k)
    PROVE  /\ known' \in [Nodes -> [Doms -> {"unknown", "defined", "transient"}]]
           /\ known'[n][d] = k
           /\ \A m \in Nodes, e \in Doms : m # n \/ e # d => known'[m][e] = known[m][e]
  BY DEF TypeOK, SetKnown

HaltingIsOn(n, d) == halting' = [halting EXCEPT ![n][d] = TRUE]

LEMMA HaltingOn ==
    ASSUME TypeOK, NEW n \in Nodes, NEW d \in Doms, HaltingIsOn(n, d)
    PROVE  /\ halting' \in [Nodes -> [Doms -> BOOLEAN]] /\ halting'[n][d]
           /\ \A m \in Nodes, e \in Doms : m # n \/ e # d => halting'[m][e] = halting[m][e]
  BY DEF TypeOK, HaltingIsOn

HaltingIsOff(n, d) == halting' = [halting EXCEPT ![n][d] = FALSE]

LEMMA HaltingOff ==
    ASSUME TypeOK, NEW n \in Nodes, NEW d \in Doms, HaltingIsOff(n, d)
    PROVE  /\ halting' \in [Nodes -> [Doms -> BOOLEAN]] /\ ~halting'[n][d]
           /\ \A m \in Nodes, e \in Doms : m # n \/ e # d => halting'[m][e] = halting[m][e]
  BY DEF TypeOK, HaltingIsOff

DevsIsOn(n, d) == devs' = [devs EXCEPT ![n][d] = TRUE]

LEMMA DevsOn ==
    ASSUME TypeOK, NEW n \in Nodes, NEW d \in Doms, DevsIsOn(n, d)
    PROVE  /\ devs' \in [Nodes -> [Doms -> BOOLEAN]] /\ devs'[n][d]
           /\ \A m \in Nodes, e \in Doms : m # n \/ e # d => devs'[m][e] = devs[m][e]
  BY DEF TypeOK, DevsIsOn

DevsIsOff(n, d) == devs' = [devs EXCEPT ![n][d] = FALSE]

LEMMA DevsOff ==
    ASSUME TypeOK, NEW n \in Nodes, NEW d \in Doms, DevsIsOff(n, d)
    PROVE  /\ devs' \in [Nodes -> [Doms -> BOOLEAN]] /\ ~devs'[n][d]
           /\ \A m \in Nodes, e \in Doms : m # n \/ e # d => devs'[m][e] = devs[m][e]
  BY DEF TypeOK, DevsIsOff

LEMMA OffFacts ==
    ASSUME TypeOK, NEW n \in Nodes, NEW d \in Doms, Off(n, d)
    PROVE  /\ known' \in [Nodes -> [Doms -> {"unknown", "defined", "transient"}]]
           /\ state' \in [Nodes -> [Doms -> {"shutoff", "running", "paused"}]]
           /\ halting' \in [Nodes -> [Doms -> BOOLEAN]] /\ devs' \in [Nodes -> [Doms -> BOOLEAN]]
           /\ state'[n][d] = "shutoff" /\ ~halting'[n][d]
           /\ known[n][d] = "unknown" => known'[n][d] = "unknown"
           /\ \A m \in Nodes, e \in Doms : m # n \/ e # d =>
                /\ known'[m][e] = known[m][e] /\ state'[m][e] = state[m][e]
                /\ halting'[m][e] = halting[m][e] /\ devs'[m][e] = devs[m][e]
<1> DEFINE k == IF known[n][d] = "transient" THEN "unknown" ELSE known[n][d]
<1>1. k \in {"unknown", "defined", "transient"} /\ (known[n][d] = "unknown" => k = "unknown")
  BY DEF TypeOK
<1>2. SetKnown(n, d, k) /\ SetState(n, d, "shutoff") /\ HaltingIsOff(n, d) /\ DevsIsOff(n, d)
  BY DEF Off, SetKnown, HaltingIsOff, DevsIsOff
<1> HIDE DEF k
<1>3. /\ state' \in [Nodes -> [Doms -> {"shutoff", "running", "paused"}]]
      /\ state'[n][d] = "shutoff"
      /\ \A m \in Nodes, e \in Doms : m # n \/ e # d => state'[m][e] = state[m][e]
  BY <1>2, StateFacts
<1>4. /\ known' \in [Nodes -> [Doms -> {"unknown", "defined", "transient"}]] /\ known'[n][d] = k
      /\ \A m \in Nodes, e \in Doms : m # n \/ e # d => known'[m][e] = known[m][e]
  BY <1>1, <1>2, KnownFacts
<1>5. /\ halting' \in [Nodes -> [Doms -> BOOLEAN]] /\ ~halting'[n][d]
      /\ \A m \in Nodes, e \in Doms : m # n \/ e # d => halting'[m][e] = halting[m][e]
  BY <1>2, HaltingOff
<1>6. /\ devs' \in [Nodes -> [Doms -> BOOLEAN]]
      /\ \A m \in Nodes, e \in Doms : m # n \/ e # d => devs'[m][e] = devs[m][e]
  BY <1>2, DevsOff
<1> QED
  BY <1>1, <1>3, <1>4, <1>5, <1>6

\* A step that changes neither libvirt nor the locals of the thread.
LEMMA LookFrame ==
    ASSUME TypeOK, NEW t \in Tasks, NEW d \in Doms, NEW s \in Steps, Goto(t, d, s),
           UNCHANGED <<local, libvirt>>
    PROVE  Frame(t, d) /\ UNCHANGED <<checked, libvirt>> /\ pc'[t][d] = s
  BY GotoFacts DEF TypeOK, Frame, local, libvirt

LEMMA FailEffect ==
    ASSUME TypeOK, NEW t \in Tasks, NEW d \in Doms, Fail(t, d)
    PROVE  Frame(t, d) /\ Looks(t, d)
  BY LookFrame DEF Fail, Steps, Looks

LEMMA StartEffect ==
    ASSUME TypeOK, NEW t \in Tasks, NEW d \in Doms,
           \/ Connect(t, d) \/ CheckRemoteState(t, d) \/ GetDomain(t, d)
           \/ SetConfig(t, d) \/ Boot(t, d) \/ AttachDevices(t, d) \/ Probe(t, d)
    PROVE  Effect(t, d)
<1>0. Node(t) \in Nodes
  BY TaskFacts
<1>s. {"remote", "lookup", "config", "boot", "attach", "probe", "done"} \subseteq Steps
  BY DEF Steps
<1>p. stage[t] = "run" /\ pc[t][d] \in StartSteps
  BY DEF Connect, CheckRemoteState, GetDomain, SetConfig, Boot, AttachDevices, Probe, At, StartSteps
<1>1. CASE Fail(t, d)
  BY <1>1, <1>p, FailEffect DEF Effect
<1>2. CASE Connect(t, d) /\ ~Fail(t, d)
  BY <1>2, <1>p, <1>s, LookFrame DEF Connect, At, Effect, Looks
<1>3. CASE CheckRemoteState(t, d) /\ ~Fail(t, d)
  <2>1. CASE checked[t] = Len(nodes) /\ Goto(t, d, "lookup") /\ UNCHANGED <<local, libvirt>>
    BY <1>3, <1>p, <1>s, <2>1, LookFrame DEF CheckRemoteState, At, Effect, Looks
  <2>2. CASE /\ checked[t] < Len(nodes) /\ ShutOff(nodes[checked[t] + 1], d)
             /\ checked' = [checked EXCEPT ![t] = @ + 1]
             /\ UNCHANGED <<calm, sent, task, stage, pc, persistent, libvirt>>
    <3>1. /\ checked' \in [Tasks -> 0 .. Len(nodes)] /\ checked'[t] = checked[t] + 1
          /\ \A u \in Tasks : u # t => checked'[u] = checked[u]
      BY <2>2, NodeFacts DEF TypeOK
    <3>2. Frame(t, d)
      BY <2>2, <3>1 DEF Frame, TypeOK, libvirt
    <3>3. Starts(t, d)
      BY <1>3, <2>2, <3>1 DEF Starts, CheckRemoteState, At, ShutOff, Active
    <3> QED
      BY <1>p, <3>2, <3>3 DEF Effect
  <2> QED
    BY <1>3, <2>1, <2>2 DEF CheckRemoteState
<1>4. CASE GetDomain(t, d) /\ ~Fail(t, d)
  <2>1. pc[t][d] = "lookup" /\ Goto(t, d, "config") /\ UNCHANGED <<checked, persistent>>
    BY <1>4 DEF GetDomain, At, local
  <2>2. /\ UNCHANGED <<halting, devs>>
        /\ known' \in [Nodes -> [Doms -> {"unknown", "defined", "transient"}]]
        /\ state' \in [Nodes -> [Doms -> {"shutoff", "running", "paused"}]]
        /\ \A n \in Nodes, e \in Doms : n # Node(t) \/ e # d =>
             known'[n][e] = known[n][e] /\ state'[n][e] = state[n][e]
        /\ known'[Node(t)][d] # "unknown"
        /\ state'[Node(t)][d] = state[Node(t)][d] \/ ~Active(Node(t), d)
        /\ Asks(t, "transient") => ~Active(Node(t), d)
    <3>1. CASE CreateFromXml(t, d)
      <4> DEFINE k == IF known[Node(t)][d] = "unknown" THEN "transient" ELSE known[Node(t)][d]
      <4>1. k \in {"defined", "transient"}
        BY <1>0 DEF TypeOK
      <4>2. SetKnown(Node(t), d, k)
        BY <3>1 DEF CreateFromXml, SetKnown
      <4> HIDE DEF k
      <4>3. /\ SetState(Node(t), d, "paused") /\ UNCHANGED <<halting, devs>> /\ ~Active(Node(t), d)
        BY <3>1 DEF CreateFromXml
      <4>4. /\ state' \in [Nodes -> [Doms -> {"shutoff", "running", "paused"}]]
            /\ \A m \in Nodes, e \in Doms : m # Node(t) \/ e # d => state'[m][e] = state[m][e]
        BY <1>0, <4>3, StateFacts
      <4>5. /\ known' \in [Nodes -> [Doms -> {"unknown", "defined", "transient"}]]
            /\ known'[Node(t)][d] = k
            /\ \A m \in Nodes, e \in Doms : m # Node(t) \/ e # d => known'[m][e] = known[m][e]
        BY <1>0, <4>1, <4>2, KnownFacts
      <4> QED
        BY <4>1, <4>3, <4>4, <4>5
    <3>2. CASE DefineFromXml(t, d)
      BY <1>0, <3>2, KnownFacts DEF DefineFromXml, TypeOK, SetKnown
    <3>3. CASE FindDefined(t, d)
      BY <1>0, <3>3 DEF FindDefined, TypeOK, libvirt
    <3> QED
      BY <1>4, <3>1, <3>2, <3>3 DEF GetDomain
  <2>3. Frame(t, d) /\ pc'[t][d] = "config"
    BY <1>s, <2>1, <2>2, GotoFacts DEF Frame, TypeOK
  <2> QED
    BY <1>p, <2>1, <2>2, <2>3 DEF Effect, Starts
<1>5. CASE SetConfig(t, d) /\ ~Fail(t, d)
  BY <1>5, <1>p, <1>s, LookFrame DEF SetConfig, At, Effect, Looks
<1>6. CASE Boot(t, d) /\ ~Fail(t, d)
  <2>1. /\ pc[t][d] = "boot" /\ Goto(t, d, "attach") /\ UNCHANGED <<checked, persistent, known, halting, devs>>
        /\ SetState(Node(t), d, "running") /\ known[Node(t)][d] # "unknown"
        /\ Asks(t, "transient") \/ ~Active(Node(t), d)
    BY <1>6 DEF Boot, At, local
  <2>2. Frame(t, d) /\ pc'[t][d] = "attach" /\ state'[Node(t)][d] = "running"
    BY <1>0, <1>s, <2>1, GotoFacts, StateFacts DEF Frame, TypeOK
  <2> QED
    BY <1>p, <2>1, <2>2 DEF Effect, Starts
<1>7. CASE AttachDevices(t, d) /\ ~Fail(t, d)
  <2>1. /\ pc[t][d] = "attach" /\ Goto(t, d, "probe") /\ UNCHANGED <<checked, persistent, known, state, halting>>
        /\ \/ ~Asks(t, "devices") /\ UNCHANGED devs
           \/ DevsIsOn(Node(t), d)
    BY <1>7 DEF AttachDevices, At, local, libvirt, DevsIsOn
  <2>2. Frame(t, d) /\ pc'[t][d] = "probe" /\ (Asks(t, "devices") => devs'[Node(t)][d])
    BY <1>0, <1>s, <2>1, GotoFacts, DevsOn DEF Frame, TypeOK
  <2> QED
    BY <1>p, <2>1, <2>2 DEF Effect, Starts
<1>8. CASE Probe(t, d) /\ ~Fail(t, d)
  BY <1>8, <1>p, <1>s, LookFrame DEF Probe, At, Effect, Looks
<1> QED
  BY <1>1, <1>2, <1>3, <1>4, <1>5, <1>6, <1>7, <1>8

LEMMA StopEffect ==
    ASSUME TypeOK, NEW t \in Tasks, NEW d \in Doms,
           \/ FindRunning(t, d) \/ IsPersistent(t, d) \/ DetachDevices(t, d)
           \/ ShutDown(t, d) \/ WaitForState(t, d) \/ Undefine(t, d) \/ Act(t, d)
    PROVE  Effect(t, d)
<1>0. Node(t) \in Nodes
  BY TaskFacts
<1>s. {"persistent", "detach", "shutdown", "wait", "undefine", "done"} \subseteq Steps
  BY DEF Steps
<1>p. stage[t] = "run" /\ pc[t][d] \in StopSteps \cup {"act"}
  BY DEF FindRunning, IsPersistent, DetachDevices, ShutDown, WaitForState, Undefine, Act, At, StopSteps
<1>1. CASE Fail(t, d)
  BY <1>1, <1>p, FailEffect DEF Effect
<1>2. CASE FindRunning(t, d) /\ ~Fail(t, d)
  BY <1>2, <1>p, <1>s, LookFrame DEF FindRunning, At, Effect, Looks
<1>3. CASE IsPersistent(t, d) /\ ~Fail(t, d)
  <2> DEFINE b == known[Node(t)][d] = "defined"
  <2>1. /\ pc[t][d] = "persistent" /\ Goto(t, d, "detach") /\ UNCHANGED <<checked, libvirt>>
    BY <1>3 DEF IsPersistent, At
  <2>2. persistent' = [persistent EXCEPT ![t][d] = b]
    BY <1>3 DEF IsPersistent
  <2>3. b \in BOOLEAN
    OBVIOUS
  <2> HIDE DEF b
  <2>4. persistent' \in [Tasks -> [Doms -> BOOLEAN]]
    BY <2>2, <2>3 DEF TypeOK
  <2>5. Frame(t, d) /\ pc'[t][d] = "detach"
    BY <1>s, <2>1, <2>4, GotoFacts DEF Frame, TypeOK, libvirt
  <2> QED
    BY <1>p, <2>1, <2>5 DEF Effect, Looks
<1>4. CASE DetachDevices(t, d) /\ ~Fail(t, d)
  <2>1. /\ pc[t][d] = "detach" /\ Goto(t, d, "shutdown") /\ UNCHANGED <<checked, persistent, known, state, halting>>
        /\ UNCHANGED devs \/ DevsIsOff(Node(t), d)
    BY <1>4 DEF DetachDevices, At, local, DevsIsOff
  <2>2. Frame(t, d) /\ pc'[t][d] = "shutdown"
    BY <1>0, <1>s, <2>1, GotoFacts, DevsOff DEF Frame, TypeOK
  <2> QED
    BY <1>p, <2>1, <2>2 DEF Effect, Stops
<1>5. CASE ShutDown(t, d) /\ ~Fail(t, d)
  <2>1. pc[t][d] = "shutdown" /\ Goto(t, d, "wait") /\ UNCHANGED <<checked, persistent>>
    BY <1>5 DEF ShutDown, At, local
  <2>2. CASE Off(Node(t), d)
    <3>1. Frame(t, d) /\ pc'[t][d] = "wait" /\ state'[Node(t)][d] = "shutoff" /\ ~halting'[Node(t)][d]
      BY <1>0, <1>s, <2>1, <2>2, GotoFacts, OffFacts DEF Frame, TypeOK
    <3> QED
      BY <1>p, <2>1, <3>1 DEF Effect, Stops
  <2>3. CASE /\ HaltingIsOn(Node(t), d)
             /\ UNCHANGED <<known, state, devs>> /\ Active(Node(t), d)
    <3>1. Frame(t, d) /\ pc'[t][d] = "wait"
      BY <1>0, <1>s, <2>1, <2>3, GotoFacts, HaltingOn DEF Frame, TypeOK
    <3> QED
      BY <1>p, <2>1, <2>3, <3>1 DEF Effect, Stops
  <2> QED
    BY <1>5, <2>2, <2>3 DEF ShutDown, HaltingIsOn
<1>6. CASE WaitForState(t, d) /\ ~Fail(t, d)
  <2>1. /\ pc[t][d] = "wait" /\ Goto(t, d, "undefine") /\ UNCHANGED <<local, libvirt>>
        /\ known[Node(t)][d] = "unknown" \/ ~Active(Node(t), d)
    BY <1>6 DEF WaitForState, At, Gone
  <2> QED
    BY <1>p, <1>s, <2>1, LookFrame DEF Effect, Looks
<1>7. CASE Undefine(t, d) /\ ~Fail(t, d)
  <2>1. /\ pc[t][d] = "undefine" /\ Goto(t, d, "done")
        /\ UNCHANGED <<checked, persistent, state, halting, devs>>
    BY <1>7 DEF Undefine, At, local, libvirt
  <2>2. CASE ~Asks(t, "undefine") /\ UNCHANGED known
    <3>1. Frame(t, d) /\ pc'[t][d] = "done"
      BY <1>s, <2>1, <2>2, GotoFacts DEF Frame, TypeOK
    <3> QED
      BY <1>p, <2>1, <2>2, <3>1 DEF Effect, Stops
  <2>3. CASE known' = [known EXCEPT ![Node(t)][d] =
                         IF Active(Node(t), d) THEN "transient" ELSE "unknown"]
    <3> DEFINE k == IF Active(Node(t), d) THEN "transient" ELSE "unknown"
    <3>1. k \in {"unknown", "transient"} /\ SetKnown(Node(t), d, k)
      BY <2>3 DEF SetKnown
    <3> HIDE DEF k
    <3>2. Frame(t, d) /\ pc'[t][d] = "done" /\ known'[Node(t)][d] = k
      BY <1>0, <1>s, <2>1, <3>1, GotoFacts, KnownFacts DEF Frame, TypeOK
    <3> QED
      BY <1>p, <2>1, <3>2 DEF Effect, Stops, k
  <2> QED
    BY <1>7, <2>2, <2>3 DEF Undefine, libvirt
<1>8. CASE Act(t, d) /\ ~Fail(t, d)
  <2>1. /\ pc[t][d] = "act" /\ Goto(t, d, "done") /\ UNCHANGED <<checked, persistent, known, halting, devs>>
        /\ \/ UNCHANGED state
           \/ /\ Active(Node(t), d)
              /\ SetState(Node(t), d, "paused") \/ SetState(Node(t), d, "running")
    BY <1>8 DEF Act, At, local, libvirt
  <2>2. /\ Frame(t, d) /\ pc'[t][d] = "done"
        /\ UNCHANGED state \/ (Active(Node(t), d) /\ state'[Node(t)][d] \in {"paused", "running"})
    BY <1>0, <1>s, <2>1, GotoFacts, StateFacts DEF Frame, TypeOK
  <2> QED
    BY <1>p, <2>1, <2>2 DEF Effect, Stops
<1> QED
  BY <1>1, <1>2, <1>3, <1>4, <1>5, <1>6, <1>7, <1>8

-----------------------------------------------------------------------------
(* A step of a thread preserves the invariant. *)

LEMMA EffectFacts ==
    ASSUME LifeInv, NEW t \in Tasks, NEW d \in Doms, Effect(t, d)
    PROVE  /\ Busy(t) /\ task[t] \in Requests /\ d \in task[t].doms /\ Node(t) \in Nodes
           /\ task[t].kind = "start" => task[t].doms = {d}
           /\ pc[t][d] \in StartSteps => task[t].kind = "start"
           /\ pc[t][d] \in StopSteps => task[t].kind = "stop"
           /\ pc[t][d] = "act" => task[t].kind \notin {"start", "stop"}
           /\ pc'[t][d] \in StartSteps => pc[t][d] \in StartSteps
           /\ pc'[t][d] \in StopSteps => pc[t][d] \in StopSteps
           /\ pc'[t][d] \notin {"none", "act"}
<1>1. Busy(t) /\ task[t] \in Requests /\ d \in task[t].doms
  BY DEF Effect, LifeInv, Roles, Busy, StartSteps, StopSteps
<1>2. Node(t) \in Nodes
  BY TaskFacts DEF LifeInv
<1>3. task[t].kind = "start" => task[t].doms = {d}
  <2>1. task[t].kind = "start" => \E e \in Doms : task[t].doms = {e}
    BY <1>1, RequestFacts
  <2> QED
    BY <1>1, <2>1
<1>4. /\ pc'[t][d] \in StartSteps => pc[t][d] \in StartSteps
      /\ pc'[t][d] \in StopSteps => pc[t][d] \in StopSteps
      /\ pc'[t][d] \notin {"none", "act"}
  BY DEF Effect, Looks, Starts, Stops, StartSteps, StopSteps
<1> QED
  BY <1>1, <1>2, <1>3, <1>4 DEF LifeInv, Roles

LEMMA EffectType ==
    ASSUME LifeInv, NEW t \in Tasks, NEW d \in Doms, Effect(t, d)
    PROVE  TypeOK'
  BY DEF LifeInv, Effect, Frame, TypeOK

LEMMA EffectRoles ==
    ASSUME LifeInv, NEW t \in Tasks, NEW d \in Doms, Effect(t, d)
    PROVE  Roles' /\ Exclusive'
<1>1. UNCHANGED <<calm, task, stage>>
  BY DEF Effect, Frame
<1>2. \A u \in Tasks : checked'[u] # checked[u] => u = t /\ pc[t][d] = "remote"
  BY DEF Effect, Frame, Looks, Starts, Stops
<1>3. \A u \in Tasks, e \in Doms : u # t \/ e # d => pc'[u][e] = pc[u][e]
  BY DEF Effect, Frame
<1>4. "remote" \in StartSteps
  BY DEF StartSteps
<1>5. ASSUME NEW u \in Tasks
      PROVE  /\ IF Busy(u)' THEN task'[u] \in Requests ELSE task'[u] = NoTask
             /\ checked'[u] # 0 => Busy(u)' /\ task'[u].kind = "start"
             /\ stage'[u] = "list" => Asks(u, "regex")'
  BY <1>1, <1>2, <1>4, EffectFacts DEF LifeInv, Roles, Busy, Asks
<1>6. ASSUME NEW u \in Tasks, NEW e \in Doms
      PROVE  /\ pc'[u][e] # "none" => Busy(u)' /\ e \in task'[u].doms
             /\ pc'[u][e] \in StartSteps => task'[u].kind = "start"
             /\ pc'[u][e] \in StopSteps => task'[u].kind = "stop"
             /\ pc'[u][e] = "act" => task'[u].kind \notin {"start", "stop"}
             /\ e \in task'[u].doms /\ ~Asks(u, "regex")' => pc'[u][e] # "none"
  <2>1. CASE u = t /\ e = d
    BY <1>1, <2>1, EffectFacts DEF Busy
  <2>2. CASE u # t \/ e # d
    BY <1>1, <1>3, <2>2 DEF LifeInv, Roles, Busy, Asks
  <2> QED
    BY <2>1, <2>2
<1>7. Roles'
  BY <1>5, <1>6 DEF Roles
<1>8. Exclusive'
  BY <1>1 DEF LifeInv, Exclusive
<1> QED
  BY <1>7, <1>8

\* Only a start task that has found the domain off everywhere switches it on.
LEMMA EffectActive ==
    ASSUME LifeInv, NEW t \in Tasks, NEW d \in Doms, Effect(t, d), NEW n \in Nodes, NEW e \in Doms,
           Active(n, e)'
    PROVE  \/ Active(n, e)
           \/ n = Node(t) /\ e = d /\ pc[t][d] \in {"lookup", "boot"}
<1>1. CASE n # Node(t) \/ e # d
  BY <1>1 DEF Effect, Frame, Active
<1>2. CASE n = Node(t) /\ e = d
  BY <1>2 DEF Effect, Looks, Starts, Stops, Active, libvirt
<1> QED
  BY <1>1, <1>2

LEMMA EffectOff ==
    ASSUME LifeInv, NEW t \in Tasks, NEW d \in Doms, Effect(t, d)
    PROVE  OffIsOff'
<1> SUFFICES ASSUME NEW n \in Nodes, NEW e \in Doms
             PROVE  /\ known'[n][e] = "unknown" => ~Active(n, e)'
                    /\ ~Active(n, e)' => ~halting'[n][e]
  BY DEF OffIsOff
<1>0. /\ known[n][e] = "unknown" => ~Active(n, e)
      /\ ~Active(n, e) => ~halting[n][e]
  BY DEF LifeInv, OffIsOff
<1>1. CASE n # Node(t) \/ e # d
  BY <1>0, <1>1 DEF Effect, Frame, Active
<1>2. CASE n = Node(t) /\ e = d
  <2>1. CASE Looks(t, d)
    BY <1>0, <2>1 DEF Looks, libvirt, Active
  <2>2. CASE Starts(t, d)
    BY <1>0, <1>2, <2>2 DEF Starts, libvirt, Active
  <2>3. CASE Stops(t, d)
    BY <1>0, <1>2, <2>3 DEF Stops, Active
  <2> QED
    BY <2>1, <2>2, <2>3 DEF Effect
<1> QED
  BY <1>1, <1>2

LEMMA EffectSingle ==
    ASSUME LifeInv, NEW t \in Tasks, NEW d \in Doms, Effect(t, d)
    PROVE  Single'
<1> SUFFICES ASSUME NEW n \in Listed, NEW m \in Listed, NEW e \in Doms, Active(n, e)', Active(m, e)'
             PROVE  n = m
  BY DEF Single
<1>0. n \in Nodes /\ m \in Nodes
  BY NodeFacts
<1>1. CASE Active(n, e) /\ Active(m, e)
  BY <1>1 DEF LifeInv, Single
<1>2. CASE ~(Active(n, e) /\ Active(m, e))
  <2>1. e = d /\ pc[t][d] \in {"lookup", "boot"}
    BY <1>0, <1>2, EffectActive
  <2>2. \A k \in Listed : Active(k, d) => k = Node(t)
    BY <2>1 DEF LifeInv, Seen
  <2> QED
    BY <1>0, <2>1, <2>2, EffectActive
<1> QED
  BY <1>1, <1>2

\* Task u about e is not the one that has taken the step: if it is a start
\* task, the domain was not switched on; if nothing disturbs it, the step was
\* about another domain.
LEMMA EffectOther ==
    ASSUME LifeInv, NEW t \in Tasks, NEW d \in Doms, Effect(t, d), NEW u \in Tasks, NEW e \in Doms,
           u # t \/ e # d, pc[u][e] # "none"
    PROVE  /\ task[u].kind = "start" =>
                checked'[u] = checked[u] /\ \A n \in Nodes : Active(n, e)' => Active(n, e)
           /\ calm => /\ known'[Node(u)][e] = known[Node(u)][e] /\ state'[Node(u)][e] = state[Node(u)][e]
                      /\ halting'[Node(u)][e] = halting[Node(u)][e] /\ devs'[Node(u)][e] = devs[Node(u)][e]
<1>1. e \in task[u].doms /\ d \in task[t].doms /\ Node(u) \in Nodes
  BY EffectFacts, TaskFacts DEF LifeInv, Roles
<1>2. calm => e # d
  <2>1. CASE u = t
    BY <2>1
  <2>2. CASE u # t
    BY <1>1, <2>2 DEF LifeInv, Exclusive
  <2> QED
    BY <2>1, <2>2
<1>3. task[u].kind = "start" => u # t
  BY <1>1, EffectFacts
<1>4. task[u].kind = "start" /\ e = d => task[t].kind # "start"
  BY <1>1, <1>3 DEF LifeInv, Exclusive
<1>5. pc[t][d] \in {"lookup", "boot"} => task[t].kind = "start"
  BY EffectFacts DEF StartSteps
<1>6. task[u].kind = "start" =>
        checked'[u] = checked[u] /\ \A n \in Nodes : Active(n, e)' => Active(n, e)
  BY <1>3, <1>4, <1>5, EffectActive DEF Effect, Frame
<1>7. calm => /\ known'[Node(u)][e] = known[Node(u)][e] /\ state'[Node(u)][e] = state[Node(u)][e]
              /\ halting'[Node(u)][e] = halting[Node(u)][e] /\ devs'[Node(u)][e] = devs[Node(u)][e]
  BY <1>1, <1>2 DEF Effect, Frame
<1> QED
  BY <1>6, <1>7

LEMMA EffectSeen ==
    ASSUME LifeInv, NEW t \in Tasks, NEW d \in Doms, Effect(t, d)
    PROVE  Seen'
<1> SUFFICES ASSUME NEW u \in Tasks, NEW e \in Doms
             PROVE  /\ pc'[u][e] = "connect" => checked'[u] = 0
                    /\ pc'[u][e] = "remote" => \A i \in 1 .. checked'[u] : ~Active(nodes[i], e)'
                    /\ pc'[u][e] = "lookup" => \A n \in Listed : ~Active(n, e)'
                    /\ pc'[u][e] \in {"config", "boot"} =>
                         \A n \in Listed : Active(n, e)' => n = Node(u)'
  BY DEF Seen
<1>0. Node(u)' = Node(u) /\ checked[u] \in 0 .. Len(nodes) /\ checked'[u] \in 0 .. Len(nodes)
  BY DEF LifeInv, TypeOK, Effect, Frame, Node
<1>i. /\ pc[u][e] = "connect" => checked[u] = 0
      /\ pc[u][e] = "remote" => \A i \in 1 .. checked[u] : ~Active(nodes[i], e)
      /\ pc[u][e] = "lookup" => \A n \in Listed : ~Active(n, e)
      /\ pc[u][e] \in {"config", "boot"} => \A n \in Listed : Active(n, e) => n = Node(u)
  BY DEF LifeInv, Seen
<1>1. CASE u # t \/ e # d
  <2>1. pc'[u][e] = pc[u][e]
    BY <1>1 DEF Effect, Frame
  <2>2. CASE pc[u][e] \in {"connect", "remote", "lookup", "config", "boot"}
    <3>1. task[u].kind = "start"
      BY <2>2 DEF LifeInv, Roles, StartSteps
    <3>2. checked'[u] = checked[u] /\ \A n \in Nodes : Active(n, e)' => Active(n, e)
      BY <1>1, <2>2, <3>1, EffectOther
    <3> QED
      BY <1>0, <1>i, <2>1, <3>2, NodeFacts
  <2>3. CASE pc[u][e] \notin {"connect", "remote", "lookup", "config", "boot"}
    BY <2>1, <2>3
  <2> QED
    BY <2>2, <2>3
<1>2. CASE u = t /\ e = d
  <2>1. CASE pc[t][d] \notin {"lookup", "boot"}
    <3>1. \A n \in Nodes : Active(n, d)' => Active(n, d)
      BY <2>1, EffectActive
    <3>2. pc'[t][d] # "connect"
      BY DEF Effect, Looks, Starts, Stops
    <3>3. pc'[t][d] = "remote" => \A i \in 1 .. checked'[t] : ~Active(nodes[i], d)
      <4>1. CASE pc[t][d] = "connect"
        BY <1>0, <1>i, <1>2, <4>1 DEF Effect, Looks, Starts, Stops
      <4>2. CASE pc[t][d] = "remote" /\ pc'[t][d] = "remote"
        <5>1. checked'[t] = checked[t] + 1 /\ ~Active(nodes[checked[t] + 1], d)
          BY <4>2 DEF Effect, Looks, Starts, Stops
        <5>2. \A i \in 1 .. checked'[t] : i \in 1 .. checked[t] \/ i = checked[t] + 1
          BY <1>0, <1>2, <5>1
        <5> QED
          BY <1>i, <1>2, <4>2, <5>1, <5>2
      <4>3. CASE pc[t][d] \notin {"connect", "remote"}
        BY <4>3 DEF Effect, Looks, Starts, Stops
      <4> QED
        BY <4>1, <4>2, <4>3
    <3>4. pc'[t][d] = "lookup" => \A n \in Listed : ~Active(n, d)
      <4>1. pc'[t][d] = "lookup" => pc[t][d] = "remote" /\ checked[t] = Len(nodes)
        BY DEF Effect, Looks, Starts, Stops
      <4> QED
        BY <1>i, <1>2, <4>1, NodeFacts
    <3>5. pc'[t][d] \in {"config", "boot"} => pc[t][d] = "config"
      BY <2>1 DEF Effect, Looks, Starts, Stops
    <3> QED
      BY <1>0, <1>i, <1>2, <3>1, <3>2, <3>3, <3>4, <3>5, NodeFacts
  <2>2. CASE pc[t][d] \in {"lookup", "boot"}
    <3>1. pc'[t][d] \notin {"connect", "remote", "lookup"}
      BY <2>2 DEF Effect, Looks, Starts, Stops
    <3>2. \A n \in Listed : Active(n, d) => n = Node(t)
      BY <1>i, <1>2, <2>2
    <3>3. \A n \in Listed : Active(n, d)' => n = Node(t)
      BY <3>2, EffectActive, NodeFacts
    <3> QED
      BY <1>0, <1>2, <3>1, <3>3
  <2> QED
    BY <2>1, <2>2
<1> QED
  BY <1>1, <1>2

LEMMA EffectStarting ==
    ASSUME LifeInv, NEW t \in Tasks, NEW d \in Doms, Effect(t, d)
    PROVE  Starting'
<1> SUFFICES ASSUME NEW u \in Tasks, NEW e \in Doms, calm, task[u].kind = "start"
             PROVE  /\ pc'[u][e] \in {"config", "boot"} /\ Asks(u, "transient") => ~halting'[Node(u)][e]
                    /\ pc'[u][e] \in {"attach", "probe", "done"} => ~halting'[Node(u)][e]
                    /\ pc'[u][e] \in {"attach", "probe", "done"} => state'[Node(u)][e] = "running"
                    /\ pc'[u][e] \in {"probe", "done"} /\ Asks(u, "devices") => devs'[Node(u)][e]
  BY DEF Starting, Effect, Frame, Node, Asks
<1>i. /\ pc[u][e] \in {"config", "boot"} /\ Asks(u, "transient") => ~halting[Node(u)][e]
      /\ pc[u][e] \in {"attach", "probe", "done"} => ~halting[Node(u)][e]
      /\ pc[u][e] \in {"attach", "probe", "done"} => state[Node(u)][e] = "running"
      /\ pc[u][e] \in {"probe", "done"} /\ Asks(u, "devices") => devs[Node(u)][e]
  BY DEF LifeInv, Starting
<1>1. CASE u # t \/ e # d
  <2>1. pc'[u][e] = pc[u][e]
    BY <1>1 DEF Effect, Frame
  <2> QED
    BY <1>1, <1>i, <2>1, EffectOther
<1>2. CASE u = t /\ e = d
  <2>1. Node(t) \in Nodes /\ pc[t][d] \in StartSteps
    BY <1>2, EffectFacts DEF Effect
  <2>2. ~Active(Node(t), d) => ~halting[Node(t)][d]
    BY <2>1 DEF LifeInv, OffIsOff
  <2>3. CASE Looks(t, d)
    BY <1>2, <1>i, <2>1, <2>3 DEF Looks, libvirt, StartSteps
  <2>4. CASE Starts(t, d)
    BY <1>2, <1>i, <2>2, <2>4 DEF Starts
  <2>5. CASE Stops(t, d)
    BY <2>1, <2>5 DEF Stops, StartSteps
  <2> QED
    BY <2>3, <2>4, <2>5 DEF Effect
<1> QED
  BY <1>1, <1>2

LEMMA EffectStopping ==
    ASSUME LifeInv, NEW t \in Tasks, NEW d \in Doms, Effect(t, d)
    PROVE  Stopping'
<1> SUFFICES ASSUME NEW u \in Tasks, NEW e \in Doms, calm, task[u].kind = "stop"
             PROVE  /\ pc'[u][e] \in {"undefine", "done"} => state'[Node(u)][e] = "shutoff"
                    /\ pc'[u][e] = "done" /\ Asks(u, "undefine") => known'[Node(u)][e] = "unknown"
  BY DEF Stopping, Effect, Frame, Node, Asks, Active
<1>i. /\ pc[u][e] \in {"undefine", "done"} => state[Node(u)][e] = "shutoff"
      /\ pc[u][e] = "done" /\ Asks(u, "undefine") => known[Node(u)][e] = "unknown"
  BY DEF LifeInv, Stopping, Active
<1>1. CASE u # t \/ e # d
  <2>1. pc'[u][e] = pc[u][e]
    BY <1>1 DEF Effect, Frame
  <2> QED
    BY <1>1, <1>i, <2>1, EffectOther
<1>2. CASE u = t /\ e = d
  <2>1. Node(t) \in Nodes /\ pc[t][d] \in StopSteps
    BY <1>2, EffectFacts DEF Effect
  <2>2. known[Node(t)][d] = "unknown" => ~Active(Node(t), d)
    BY <2>1 DEF LifeInv, OffIsOff
  <2>3. CASE Looks(t, d)
    BY <1>2, <1>i, <2>1, <2>2, <2>3 DEF Looks, libvirt, StopSteps, Active
  <2>4. CASE Starts(t, d)
    BY <2>1, <2>4 DEF Starts, StopSteps
  <2>5. CASE Stops(t, d)
    BY <1>2, <1>i, <2>1, <2>5 DEF Stops, StopSteps, Active
  <2> QED
    BY <2>3, <2>4, <2>5 DEF Effect
<1> QED
  BY <1>1, <1>2

LEMMA ThreadInv ==
    ASSUME LifeInv, NEW t \in Tasks, NEW d \in Doms, ThreadStep(t, d)
    PROVE  LifeInv'
<1>1. Effect(t, d)
  BY StartEffect, StopEffect DEF ThreadStep, LifeInv
<1> QED
  BY <1>1, EffectType, EffectRoles, EffectOff, EffectSingle, EffectSeen, EffectStarting, EffectStopping
     DEF LifeInv

-----------------------------------------------------------------------------
(* The other steps. *)

LEMMA InitInv == Init => LifeInv
<1> SUFFICES ASSUME Init PROVE LifeInv
  OBVIOUS
<1>1. TypeOK
  BY NodeFacts, Parameters DEF Init, TypeOK, Parameters, Steps
<1>2. \A t \in Tasks : task[t] = NoTask /\ stage[t] = "none" /\ checked[t] = 0
  BY DEF Init
<1>3. \A t \in Tasks, d \in Doms : pc[t][d] = "none"
  BY DEF Init
<1>4. \A n \in Nodes, d \in Doms : known[n][d] = "defined" /\ state[n][d] = "shutoff" /\ ~halting[n][d]
  BY DEF Init
<1>5. Roles
  BY <1>2, <1>3, NoTaskFacts DEF Roles, Busy, StartSteps, StopSteps
<1>6. Exclusive
  BY <1>2, NoTaskFacts DEF Exclusive
<1>7. OffIsOff /\ Single
  BY <1>4, NodeFacts DEF OffIsOff, Single, Active
<1>8. Seen /\ Starting /\ Stopping
  BY <1>3 DEF Seen, Starting, Stopping
<1> QED
  BY <1>1, <1>5, <1>6, <1>7, <1>8 DEF LifeInv

\* A step that leaves libvirt alone and moves the threads of task t only to
\* places at which nothing is claimed, or leaves them where they are.
LEMMA TaskOnly ==
    ASSUME LifeInv, NEW t \in Tasks, TypeOK', Roles', Exclusive', UNCHANGED <<calm, libvirt>>,
           \A u \in Tasks : u # t => task'[u] = task[u] /\ pc'[u] = pc[u] /\ checked'[u] = checked[u],
           \A d \in Doms : \/ pc'[t][d] \in {"none", "find", "act"}
                           \/ pc'[t][d] = "connect" /\ checked'[t] = 0
    PROVE  LifeInv'
<1>1. UNCHANGED <<known, state, halting, devs>>
  BY DEF libvirt
<1>2. OffIsOff' /\ Single'
  BY <1>1 DEF LifeInv, OffIsOff, Single, Active
<1>3. ASSUME NEW u \in Tasks, NEW d \in Doms
      PROVE  \/ task'[u] = task[u] /\ pc'[u] = pc[u] /\ checked'[u] = checked[u]
             \/ pc'[u][d] \in {"none", "find", "act"}
             \/ pc'[u][d] = "connect" /\ checked'[u] = 0
  OBVIOUS
<1>4. Seen'
  BY <1>1, <1>3 DEF LifeInv, Seen, Active, Node
<1>5. Starting'
  BY <1>1, <1>3 DEF LifeInv, Starting, Node, Asks
<1>6. Stopping'
  BY <1>1, <1>3 DEF LifeInv, Stopping, Active, Node, Asks
<1> QED
  BY <1>2, <1>4, <1>5, <1>6 DEF LifeInv

LEMMA SendInv ==
    ASSUME LifeInv, NEW t \in Tasks, NEW r \in Requests, Send(t, r)
    PROVE  LifeInv'
<1> DEFINE first == [d \in Doms |-> IF d \in r.doms THEN Entry(r.kind) ELSE "none"]
           begun == IF "regex" \in r.opts THEN "list" ELSE "run"
<1>1. /\ r.kind \in Kinds /\ r.doms \subseteq Doms
      /\ "regex" \in r.opts => r.kind = "stop"
  BY RequestFacts
<1>2. /\ Entry(r.kind) \in {"connect", "find", "act"}
      /\ Entry(r.kind) = "connect" => r.kind = "start"
      /\ Entry(r.kind) = "find" => r.kind = "stop"
      /\ Entry(r.kind) = "act" => r.kind \notin {"start", "stop"}
  BY <1>1 DEF Entry, Kinds
<1>3. first \in [Doms -> {"none", "connect", "find", "act"}] /\ begun \in {"list", "run"}
  BY <1>2
<1>4. /\ task' = [task EXCEPT ![t] = r] /\ stage' = [stage EXCEPT ![t] = begun]
      /\ pc' = [pc EXCEPT ![t] = first] /\ UNCHANGED <<calm, checked, persistent, libvirt>>
      /\ sent' = sent + 1 /\ sent < MaxTasks
  BY DEF Send, local
<1>5. \A d \in Doms : first[d] = IF d \in r.doms THEN Entry(r.kind) ELSE "none"
  OBVIOUS
<1>6. begun = "list" => "regex" \in r.opts
  OBVIOUS
<1> HIDE DEF first, begun
<1>7. TypeOK'
  <2>1. sent' \in 0 .. MaxTasks
    BY <1>4, Parameters DEF LifeInv, TypeOK, Parameters
  <2>2. pc' \in [Tasks -> [Doms -> Steps]]
    BY <1>3, <1>4 DEF LifeInv, TypeOK, Steps
  <2> QED
    BY <1>3, <1>4, <2>1, <2>2 DEF LifeInv, TypeOK, libvirt
<1>8. /\ task'[t] = r /\ stage'[t] = begun /\ pc'[t] = first
      /\ \A u \in Tasks : u # t => task'[u] = task[u] /\ stage'[u] = stage[u] /\ pc'[u] = pc[u]
  BY <1>4 DEF LifeInv, TypeOK
<1>9. checked[t] = 0 /\ task[t] = NoTask
  BY DEF LifeInv, Roles, Send
<1>10. Roles'
  <2>1. ASSUME NEW u \in Tasks
        PROVE  /\ IF Busy(u)' THEN task'[u] \in Requests ELSE task'[u] = NoTask
               /\ checked'[u] # 0 => Busy(u)' /\ task'[u].kind = "start"
               /\ stage'[u] = "list" => Asks(u, "regex")'
    BY <1>3, <1>4, <1>6, <1>8, <1>9 DEF LifeInv, Roles, Busy, Asks
  <2>2. ASSUME NEW u \in Tasks, NEW d \in Doms
        PROVE  /\ pc'[u][d] # "none" => Busy(u)' /\ d \in task'[u].doms
               /\ pc'[u][d] \in StartSteps => task'[u].kind = "start"
               /\ pc'[u][d] \in StopSteps => task'[u].kind = "stop"
               /\ pc'[u][d] = "act" => task'[u].kind \notin {"start", "stop"}
               /\ d \in task'[u].doms /\ ~Asks(u, "regex")' => pc'[u][d] # "none"
    <3>1. CASE u = t
      BY <1>2, <1>3, <1>5, <1>8, <3>1 DEF Busy, StartSteps, StopSteps
    <3>2. CASE u # t
      BY <1>8, <3>2 DEF LifeInv, Roles, Busy, Asks
    <3> QED
      BY <3>1, <3>2
  <2> QED
    BY <2>1, <2>2 DEF Roles
<1>11. Exclusive'
  <2>1. ASSUME NEW u \in Tasks, u # t, NEW d \in task[u].doms \cap r.doms
        PROVE  ~calm /\ ~(task[u].kind = "start" /\ r.kind = "start")
    <3>1. Busy(u)
      BY <2>1, NoTaskFacts DEF LifeInv, Roles
    <3> QED
      BY <2>1, <3>1 DEF Send
  <2> QED
    BY <1>4, <1>8, <2>1 DEF LifeInv, Exclusive
<1>12. \A d \in Doms : \/ pc'[t][d] \in {"none", "find", "act"}
                       \/ pc'[t][d] = "connect" /\ checked'[t] = 0
  BY <1>3, <1>4, <1>8, <1>9
<1> QED
  BY <1>4, <1>7, <1>8, <1>10, <1>11, <1>12, TaskOnly

\* A task that is over: its place is free.
LEMMA Freed ==
    ASSUME LifeInv, NEW t \in Tasks, NEW r \in Over,
           stage' = [stage EXCEPT ![t] = r], task' = [task EXCEPT ![t] = NoTask],
           pc' = [pc EXCEPT ![t] = [d \in Doms |-> "none"]], UNCHANGED <<calm, sent, libvirt>>,
           checked' \in [Tasks -> 0 .. Len(nodes)], checked'[t] = 0,
           \A u \in Tasks : u # t => checked'[u] = checked[u],
           persistent' \in [Tasks -> [Doms -> BOOLEAN]]
    PROVE  LifeInv'
<1>1. TypeOK'
  <2>1. pc' \in [Tasks -> [Doms -> Steps]]
    <3>1. [d \in Doms |-> "none"] \in [Doms -> Steps]
      BY DEF Steps
    <3> QED
      BY <3>1 DEF LifeInv, TypeOK
  <2>2. task' \in [Tasks -> Requests \cup {NoTask}] /\ stage' \in [Tasks -> {"none", "list", "run"} \cup Over]
    BY DEF LifeInv, TypeOK
  <2> QED
    BY <2>1, <2>2 DEF LifeInv, TypeOK, libvirt
<1>2. /\ task'[t] = NoTask /\ stage'[t] = r /\ \A d \in Doms : pc'[t][d] = "none"
      /\ \A u \in Tasks : u # t => task'[u] = task[u] /\ stage'[u] = stage[u] /\ pc'[u] = pc[u]
  BY DEF LifeInv, TypeOK
<1>3. r \notin {"list", "run"}
  BY DEF Over
<1>4. Roles'
  <2>1. ASSUME NEW u \in Tasks
        PROVE  /\ IF Busy(u)' THEN task'[u] \in Requests ELSE task'[u] = NoTask
               /\ checked'[u] # 0 => Busy(u)' /\ task'[u].kind = "start"
               /\ stage'[u] = "list" => Asks(u, "regex")'
    BY <1>2, <1>3 DEF LifeInv, Roles, Busy, Asks
  <2>2. ASSUME NEW u \in Tasks, NEW d \in Doms
        PROVE  /\ pc'[u][d] # "none" => Busy(u)' /\ d \in task'[u].doms
               /\ pc'[u][d] \in StartSteps => task'[u].kind = "start"
               /\ pc'[u][d] \in StopSteps => task'[u].kind = "stop"
               /\ pc'[u][d] = "act" => task'[u].kind \notin {"start", "stop"}
               /\ d \in task'[u].doms /\ ~Asks(u, "regex")' => pc'[u][d] # "none"
    <3>1. CASE u = t
      BY <1>2, <3>1, NoTaskFacts DEF StartSteps, StopSteps
    <3>2. CASE u # t
      BY <1>2, <3>2 DEF LifeInv, Roles, Busy, Asks
    <3> QED
      BY <3>1, <3>2
  <2> QED
    BY <2>1, <2>2 DEF Roles
<1>5. Exclusive'
  BY <1>2, NoTaskFacts DEF LifeInv, Exclusive
<1> QED
  BY <1>1, <1>2, <1>4, <1>5, TaskOnly

LEMMA ListInv ==
    ASSUME LifeInv, NEW t \in Tasks, ListActive(t)
    PROVE  LifeInv'
<1>1. /\ stage[t] = "list" /\ Asks(t, "regex") /\ Busy(t) /\ task[t] \in Requests
      /\ UNCHANGED <<calm, sent, checked, persistent, libvirt>>
  BY DEF ListActive, LifeInv, Roles, Busy, local
<1>2. task[t].kind = "stop" /\ checked[t] = 0
  <2>1. task[t].kind = "stop"
    BY <1>1, RequestFacts DEF Asks
  <2> QED
    BY <2>1 DEF LifeInv, Roles
<1>3. CASE /\ stage' = [stage EXCEPT ![t] = "error"] /\ task' = [task EXCEPT ![t] = NoTask]
           /\ pc' = [pc EXCEPT ![t] = [d \in Doms |-> "none"]]
  BY <1>1, <1>2, <1>3, Freed DEF Over, LifeInv, TypeOK
<1>4. CASE /\ stage' = [stage EXCEPT ![t] = "run"] /\ UNCHANGED task
           /\ pc' = [pc EXCEPT ![t] = [d \in Doms |-> IF Active(Node(t), d) THEN @[d] ELSE "none"]]
  <2> DEFINE go == [d \in Doms |-> IF Active(Node(t), d) THEN pc[t][d] ELSE "none"]
  <2>1. pc' = [pc EXCEPT ![t] = go]
    BY <1>4
  <2>2. go \in [Doms -> Steps] /\ \A d \in Doms : go[d] \in {pc[t][d], "none"}
    BY DEF LifeInv, TypeOK, Steps
  <2> HIDE DEF go
  <2>3. TypeOK'
    BY <1>1, <1>4, <2>1, <2>2 DEF LifeInv, TypeOK, libvirt
  <2>4. /\ stage'[t] = "run" /\ \A d \in Doms : pc'[t][d] \in {pc[t][d], "none"}
        /\ \A u \in Tasks : u # t => stage'[u] = stage[u] /\ pc'[u] = pc[u]
    BY <1>4, <2>1, <2>2 DEF LifeInv, TypeOK
  <2>5. Roles'
    <3>1. ASSUME NEW u \in Tasks
          PROVE  /\ IF Busy(u)' THEN task'[u] \in Requests ELSE task'[u] = NoTask
                 /\ checked'[u] # 0 => Busy(u)' /\ task'[u].kind = "start"
                 /\ stage'[u] = "list" => Asks(u, "regex")'
      BY <1>1, <1>4, <2>4 DEF LifeInv, Roles, Busy, Asks
    <3>2. ASSUME NEW u \in Tasks, NEW d \in Doms
          PROVE  /\ pc'[u][d] # "none" => Busy(u)' /\ d \in task'[u].doms
                 /\ pc'[u][d] \in StartSteps => task'[u].kind = "start"
                 /\ pc'[u][d] \in StopSteps => task'[u].kind = "stop"
                 /\ pc'[u][d] = "act" => task'[u].kind \notin {"start", "stop"}
                 /\ d \in task'[u].doms /\ ~Asks(u, "regex")' => pc'[u][d] # "none"
      <4>1. CASE u = t
        BY <1>1, <1>4, <2>4, <4>1 DEF LifeInv, Roles, Busy, Asks, StartSteps, StopSteps
      <4>2. CASE u # t
        BY <1>4, <2>4, <4>2 DEF LifeInv, Roles, Busy, Asks
      <4> QED
        BY <4>1, <4>2
    <3> QED
      BY <3>1, <3>2 DEF Roles
  <2>6. Exclusive'
    BY <1>1, <1>4 DEF LifeInv, Exclusive
  <2>7. Seen' /\ Starting' /\ Stopping' /\ OffIsOff' /\ Single'
    <3>1. ASSUME NEW u \in Tasks, NEW d \in Doms
          PROVE  pc'[u][d] = "none" \/ pc'[u][d] = pc[u][d]
      BY <2>4
    <3>2. UNCHANGED <<calm, task, checked, known, state, halting, devs>>
      BY <1>1, <1>4 DEF libvirt
    <3>3. Seen'
      BY <3>1, <3>2 DEF LifeInv, Seen, Active, Node
    <3>4. Starting' /\ Stopping'
      BY <3>1, <3>2 DEF LifeInv, Starting, Stopping, Active, Node, Asks
    <3>5. OffIsOff' /\ Single'
      BY <3>2 DEF LifeInv, OffIsOff, Single, Active
    <3> QED
      BY <3>3, <3>4, <3>5
  <2> QED
    BY <2>3, <2>5, <2>6, <2>7 DEF LifeInv
<1> QED
  BY <1>3, <1>4 DEF ListActive

LEMMA FinishInv ==
    ASSUME LifeInv, NEW t \in Tasks, Finish(t)
    PROVE  LifeInv'
<1> DEFINE r == IF ~Asks(t, "regex") /\ \E d \in Doms : pc[t][d] = "failed"
                THEN "error" ELSE "success"
<1>1. r \in Over
  BY DEF Over
<1>2. stage' = [stage EXCEPT ![t] = r]
  BY DEF Finish
<1> HIDE DEF r
<1>3. /\ checked' \in [Tasks -> 0 .. Len(nodes)] /\ checked'[t] = 0
      /\ \A u \in Tasks : u # t => checked'[u] = checked[u]
  BY NodeFacts DEF Finish, LifeInv, TypeOK
<1>4. persistent' \in [Tasks -> [Doms -> BOOLEAN]]
  <2>1. [d \in Doms |-> FALSE] \in [Doms -> BOOLEAN]
    OBVIOUS
  <2> QED
    BY <2>1 DEF Finish, LifeInv, TypeOK
<1>5. /\ task' = [task EXCEPT ![t] = NoTask] /\ UNCHANGED <<calm, sent, libvirt>>
      /\ pc' = [pc EXCEPT ![t] = [d \in Doms |-> "none"]]
  BY DEF Finish
<1> QED
  BY <1>1, <1>2, <1>3, <1>4, <1>5, Freed

LEMMA GuestInv ==
    ASSUME LifeInv, NEW n \in Nodes, NEW d \in Doms, GuestHalts(n, d)
    PROVE  LifeInv'
<1>1. /\ halting[n][d] /\ Off(n, d) /\ TypeOK
      /\ UNCHANGED <<calm, sent, task, stage, pc, checked, persistent>>
  BY DEF GuestHalts, LifeInv, local
<1>2. /\ known' \in [Nodes -> [Doms -> {"unknown", "defined", "transient"}]]
      /\ state' \in [Nodes -> [Doms -> {"shutoff", "running", "paused"}]]
      /\ halting' \in [Nodes -> [Doms -> BOOLEAN]] /\ devs' \in [Nodes -> [Doms -> BOOLEAN]]
      /\ state'[n][d] = "shutoff" /\ ~halting'[n][d]
      /\ known[n][d] = "unknown" => known'[n][d] = "unknown"
      /\ \A m \in Nodes, e \in Doms : m # n \/ e # d =>
           /\ known'[m][e] = known[m][e] /\ state'[m][e] = state[m][e]
           /\ halting'[m][e] = halting[m][e] /\ devs'[m][e] = devs[m][e]
  BY <1>1, OffFacts
<1>3. TypeOK'
  BY <1>1, <1>2 DEF TypeOK
<1>4. \A m \in Nodes, e \in Doms : Active(m, e)' => Active(m, e)
  BY <1>2 DEF Active
<1>5. OffIsOff'
  <2> SUFFICES ASSUME NEW m \in Nodes, NEW e \in Doms
               PROVE  /\ known'[m][e] = "unknown" => state'[m][e] = "shutoff"
                      /\ state'[m][e] = "shutoff" => ~halting'[m][e]
    BY DEF OffIsOff, Active
  <2>1. CASE m = n /\ e = d
    BY <1>2, <2>1
  <2>2. CASE m # n \/ e # d
    <3>1. /\ known'[m][e] = known[m][e] /\ state'[m][e] = state[m][e]
          /\ halting'[m][e] = halting[m][e]
      BY <1>2, <2>2
    <3> QED
      BY <3>1 DEF LifeInv, OffIsOff, Active
  <2> QED
    BY <2>1, <2>2
<1>6. Roles' /\ Exclusive'
  BY <1>1 DEF LifeInv, Roles, Exclusive, Busy, Asks
<1>7. Seen'
  <2>1. \A t \in Tasks : checked[t] \in 0 .. Len(nodes)
    BY <1>1 DEF TypeOK
  <2>2. \A t \in Tasks : \A i \in 1 .. checked[t] : nodes[i] \in Nodes
    BY <2>1, NodeFacts
  <2>3. \A m \in Listed : m \in Nodes
    BY NodeFacts
  <2> QED
    BY <1>1, <1>4, <2>2, <2>3 DEF LifeInv, Seen, Node
<1>8. Single'
  BY <1>4, NodeFacts DEF LifeInv, Single
<1>9. Starting'
  <2>1. \A t \in Tasks : Node(t) \in Nodes /\ Node(t)' = Node(t)
    BY <1>1, TaskFacts DEF Node
  <2> SUFFICES ASSUME NEW t \in Tasks, NEW e \in Doms, calm, task[t].kind = "start"
               PROVE  /\ pc[t][e] \in {"config", "boot"} /\ Asks(t, "transient") => ~halting'[Node(t)][e]
                      /\ pc[t][e] \in {"attach", "probe", "done"} => ~halting'[Node(t)][e]
                      /\ pc[t][e] \in {"attach", "probe", "done"} => state'[Node(t)][e] = "running"
                      /\ pc[t][e] \in {"probe", "done"} /\ Asks(t, "devices") => devs'[Node(t)][e]
    BY <1>1, <2>1 DEF Starting, Asks
  <2>2. CASE Node(t) = n /\ e = d
    BY <1>1, <1>2, <2>2 DEF LifeInv, Starting
  <2>3. CASE Node(t) # n \/ e # d
    <3>1. /\ halting'[Node(t)][e] = halting[Node(t)][e]
          /\ state'[Node(t)][e] = state[Node(t)][e]
          /\ devs'[Node(t)][e] = devs[Node(t)][e]
      BY <1>2, <2>1, <2>3
    <3> QED
      BY <3>1 DEF LifeInv, Starting
  <2> QED
    BY <2>2, <2>3
<1>10. Stopping'
  <2>1. \A t \in Tasks : Node(t) \in Nodes /\ Node(t)' = Node(t)
    BY <1>1, TaskFacts DEF Node
  <2> SUFFICES ASSUME NEW t \in Tasks, NEW e \in Doms, calm, task[t].kind = "stop"
               PROVE  /\ pc[t][e] \in {"undefine", "done"} => state'[Node(t)][e] = "shutoff"
                      /\ pc[t][e] = "done" /\ Asks(t, "undefine") => known'[Node(t)][e] = "unknown"
    BY <1>1, <2>1 DEF Stopping, Asks, Active
  <2>2. CASE Node(t) = n /\ e = d
    BY <1>2, <2>2 DEF LifeInv, Stopping
  <2>3. CASE Node(t) # n \/ e # d
    <3>1. known'[Node(t)][e] = known[Node(t)][e] /\ state'[Node(t)][e] = state[Node(t)][e]
      BY <1>2, <2>1, <2>3
    <3> QED
      BY <3>1 DEF LifeInv, Stopping, Active
  <2> QED
    BY <2>2, <2>3
<1> QED
  BY <1>3, <1>5, <1>6, <1>7, <1>8, <1>9, <1>10 DEF LifeInv

-----------------------------------------------------------------------------
(* The theorems. *)

LEMMA NextInv == LifeInv /\ [Next]_vars => LifeInv'
<1>1. ASSUME LifeInv, UNCHANGED vars PROVE LifeInv'
  BY <1>1 DEF vars, local, libvirt, LifeInv, TypeOK, Roles, Exclusive, OffIsOff, Seen, Single, Starting,
     Stopping, Busy, Asks, Active, Node
<1> QED
  BY <1>1, SendInv, ThreadInv, ListInv, FinishInv, GuestInv DEF Next, TaskStep

LEMMA AlwaysInv == Spec => []LifeInv
  BY InitInv, NextInv, PTL DEF Spec

\* The threads of all tasks and libvirt keep their types; in particular
\* check_remote_state never looks beyond the last node.
THEOREM TypeCorrect == Spec => []TypeOK
<1>1. LifeInv => TypeOK
  BY DEF LifeInv
<1> QED
  BY <1>1, AlwaysInv, PTL

\* For any number of nodes and tasks, a domain is never active on two nodes
\* that the configuration lists, however many it leaves out, if the scheduler
\* does not start it twice at the same time: what check_remote_state saw is
\* still true when create or create_from_xml runs, although other tasks about
\* the domain run in between.
THEOREM NeverTwice == Spec => []OneInstance
<1>1. LifeInv => OneInstance
  <2> SUFFICES ASSUME LifeInv, NEW d \in Doms
               PROVE  Cardinality({n \in Listed : Active(n, d)}) <= 1
    BY DEF OneInstance
  <2> DEFINE S == {n \in Listed : Active(n, d)}
  <2>1. CASE S = {}
    BY <2>1, FS_EmptySet
  <2>2. CASE S # {}
    <3>1. PICK n \in Listed : n \in S
      BY <2>2
    <3>2. S = {n}
      BY <3>1 DEF LifeInv, Single
    <3> QED
      BY <3>2, FS_Singleton
  <2> QED
    BY <2>1, <2>2
<1> QED
  BY <1>1, AlwaysInv, PTL

\* What a task that succeeds has done.
Done(t, d) ==
    /\ task[t].kind = "start" =>
         /\ state[Node(t)][d] = "running"
         /\ Asks(t, "devices") => devs[Node(t)][d]
    /\ task[t].kind = "stop" /\ ~Asks(t, "regex") =>
         /\ ~Active(Node(t), d)
         /\ Asks(t, "undefine") => known[Node(t)][d] = "unknown"

LEMMA SuccessStep ==
    ASSUME LifeInv, [Next]_vars, NEW t \in Tasks, NEW d \in Doms, Succeeds(t, d), calm
    PROVE  Done(t, d)
<1>1. stage[t] = "run" /\ stage'[t] = "success" /\ d \in task[t].doms
  BY DEF Succeeds
<1>2. stage \in [Tasks -> {"none", "list", "run"} \cup Over]
  BY DEF LifeInv, TypeOK
<1>3. Finish(t)
  <2>1. ASSUME NEW u \in Tasks, NEW r \in Requests, Send(u, r) PROVE FALSE
    BY <1>1, <1>2, <2>1 DEF Send
  <2>2. ASSUME NEW u \in Tasks, NEW e \in Doms, ThreadStep(u, e) PROVE FALSE
    <3>1. Effect(u, e)
      BY <2>2, StartEffect, StopEffect DEF ThreadStep, LifeInv
    <3> QED
      BY <1>1, <3>1 DEF Effect, Frame
  <2>3. ASSUME NEW u \in Tasks, ListActive(u) PROVE FALSE
    BY <1>1, <1>2, <2>3 DEF ListActive
  <2>4. ASSUME NEW u \in Tasks, Finish(u), u # t PROVE FALSE
    BY <1>1, <1>2, <2>4 DEF Finish
  <2>5. ASSUME NEW n \in Nodes, NEW e \in Doms, GuestHalts(n, e) PROVE FALSE
    BY <1>1, <2>5 DEF GuestHalts
  <2>6. ~UNCHANGED vars
    BY <1>1 DEF vars
  <2> QED
    BY <2>1, <2>2, <2>3, <2>4, <2>5, <2>6 DEF Next, TaskStep
<1>4. Asks(t, "regex") \/ pc[t][d] = "done"
  <2>1. pc[t][d] \in {"none", "done", "failed"}
    BY <1>3 DEF Finish
  <2>2. ~Asks(t, "regex") => pc[t][d] # "none"
    BY <1>1 DEF LifeInv, Roles
  <2>3. ~Asks(t, "regex") => pc[t][d] # "failed"
    BY <1>1, <1>2, <1>3 DEF Finish
  <2> QED
    BY <2>1, <2>2, <2>3
<1>5. task[t].kind = "start" => ~Asks(t, "regex")
  <2>1. task[t] \in Requests
    BY <1>1 DEF LifeInv, Roles, Busy
  <2> QED
    BY <2>1, RequestFacts DEF Asks
<1> QED
  BY <1>4, <1>5 DEF LifeInv, Starting, Stopping, Done

\* A start or stop task that reports success while nothing else is asked of
\* the domain has done what it says: the domain runs with its devices, or it
\* is off and undefined if asked.  No earlier stop whose shutdown the guest
\* obeys late, and no lost exception of a thread, comes in between.
THEOREM SuccessIsDone == Spec => SuccessMeansDone
<1>1. LifeInv /\ [Next]_vars =>
        [\A t \in Tasks, d \in Doms : Succeeds(t, d) /\ calm => Done(t, d)]_vars
  BY SuccessStep
<1>2. Spec => [][\A t \in Tasks, d \in Doms : Succeeds(t, d) /\ calm => Done(t, d)]_vars
  BY <1>1, AlwaysInv, PTL DEF Spec
<1> QED
  BY <1>2 DEF SuccessMeansDone, Done

=============================================================================
