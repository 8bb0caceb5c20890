-------------------------- MODULE PonciNodeProofs --------------------------
(***************************************************************************)
(* At most one instance of the program is past the check of the pid file,  *)
(* and the success of a task is true of its cgroup, for any number of      *)
(* launches, command lines, tasks and cgroups.                             *)
(***************************************************************************)
EXTENDS PonciNode, SequenceTheorems, TLAPS

\* The part of TypeOK the lock depends on.
LockType ==
    /\ opts \in [Launches -> Options]
    /\ proc \in [Launches -> {"off", "gone"} \cup Up]

\* An instance that is up holds the lock, unless its pid file was a standard
\* stream that its options replace or close.
LockHeld ==
    \A p \in Launches :
        proc[p] \in Up /\ ~LosesLock(opts[p]) => lock = p

LockInv == LockType /\ LockHeld

\* Whatever ends a process releases no lock but its own.
LEMMA ExitKeeps ==
    ASSUME LockInv, NEW p \in Launches, Exit(p)
    PROVE  LockInv'
  <1>1. LockType'
    BY DEF LockInv, LockType, Exit, Goto, Options
  <1>2. ASSUME NEW q \in Launches, proc'[q] \in Up, ~LosesLock(opts'[q])
        PROVE  lock' = q
    <2>1. q # p
      BY <1>2 DEF LockInv, LockType, Exit, Goto, Up
    <2>2. proc[q] \in Up /\ opts'[q] = opts[q]
      BY <1>2, <2>1 DEF LockInv, LockType, Exit, Goto
    <2>3. lock = q
      BY <1>2, <2>2 DEF LockInv, LockHeld
    <2> QED
      BY <2>1, <2>3 DEF Exit, Unlocked
  <1> QED
    BY <1>1, <1>2 DEF LockInv, LockHeld

\* A step of p that goes on from one state of Up to another one keeps the
\* invariant when it releases the lock only with options that lose it.
LEMMA GoOnKeeps ==
    ASSUME LockInv, NEW p \in Launches, NEW step \in Up, proc[p] \in Up, Goto(p, step),
           NEW o \in Options, opts' = [opts EXCEPT ![p] = o],
           LosesLock(opts[p]) <=> LosesLock(o),
           \/ lock' = lock
           \/ LosesLock(opts[p]) /\ lock' = Unlocked(p)
    PROVE  LockInv'
  <1>1. LockType'
    BY DEF LockInv, LockType, Goto
  <1>2. ASSUME NEW q \in Launches, proc'[q] \in Up, ~LosesLock(opts'[q])
        PROVE  lock' = q
    <2>1. ~LosesLock(opts[q])
      BY <1>2 DEF LockInv, LockType
    <2>2. proc[q] \in Up
      BY <1>2 DEF LockInv, LockType, Goto
    <2>3. lock = q
      BY <2>1, <2>2 DEF LockInv, LockHeld
    <2> QED
      BY <2>1, <2>3 DEF Unlocked
  <1> QED
    BY <1>1, <1>2 DEF LockInv, LockHeld

LEMMA LockInit == Init => LockInv
  BY DEF Init, LockInv, LockType, LockHeld, Options, Up

LEMMA LockNext == LockInv /\ [Next]_vars => LockInv'
  <1> SUFFICES ASSUME LockInv, [Next]_vars
               PROVE  LockInv'
    OBVIOUS
  <1> USE DEF LockInv
  <1>1. ASSUME NEW p \in Launches, NEW o \in CmdLines, Launch(p, o)
        PROVE  LockInv'
    <2>1. LockType'
      BY <1>1, Parameters DEF LockType, Launch, Goto, Up
    <2>2. ASSUME NEW q \in Launches, proc'[q] \in Up, ~LosesLock(opts'[q])
          PROVE  lock' = q
      <3>1. CASE lock = Nobody /\ Goto(p, "locked") /\ lock' = p
                 /\ opts' = [opts EXCEPT ![p] = o]
        <4>1. ASSUME q # p
              PROVE  FALSE
          <5>1. proc[q] \in Up /\ ~LosesLock(opts[q])
            BY <2>2, <3>1, <4>1 DEF LockType, Goto
          <5>2. lock = q
            BY <5>1 DEF LockHeld
          <5> QED
            BY <3>1, <5>2 DEF Nobody, Launches
        <4> QED
          BY <3>1, <4>1
      <3>2. CASE Goto(p, "gone") /\ UNCHANGED <<lock, opts>>
        <4>1. proc[q] \in Up /\ ~LosesLock(opts[q])
          BY <2>2, <3>2 DEF LockType, Goto, Up
        <4> QED
          BY <3>2, <4>1 DEF LockHeld
      <3> QED
        BY <1>1, <3>1, <3>2 DEF Launch
    <2> QED
      BY <2>1, <2>2 DEF LockHeld
  <1>2. ASSUME NEW p \in Launches, ParseOptions(p)
        PROVE  LockInv'
    <2>1. CASE Exit(p)
      BY <2>1, ExitKeeps
    <2>2. CASE /\ Goto(p, "started")
               /\ lock' = IF {"log", "stream closed"} \subseteq opts[p] THEN Unlocked(p) ELSE lock
               /\ UNCHANGED <<opts, hyp, tasks, group>>
      <3>1. opts' = [opts EXCEPT ![p] = opts[p]] /\ opts[p] \in Options
        BY <2>2 DEF LockType
      <3>2. proc[p] \in Up /\ "started" \in Up
        BY <1>2 DEF ParseOptions, Up
      <3>3. lock' = lock \/ (LosesLock(opts[p]) /\ lock' = Unlocked(p))
        BY <2>2 DEF LosesLock
      <3> QED
        BY <2>2, <3>1, <3>2, <3>3, GoOnKeeps
    <2> QED
      BY <1>2, <2>1, <2>2 DEF ParseOptions
  <1>3. ASSUME NEW p \in Launches, Daemonize(p)
        PROVE  LockInv'
    <2>1. CASE Exit(p)
      BY <2>1, ExitKeeps
    <2>2. CASE /\ Goto(p, "load")
               /\ lock' = IF {"daemon", "stream closed"} \subseteq opts[p] /\ "log" \notin opts[p]
                          THEN Unlocked(p) ELSE lock
               /\ opts' = [opts EXCEPT ![p] = IF LosesLock(@) THEN @ ELSE {}]
      <3> DEFINE o == IF LosesLock(opts[p]) THEN opts[p] ELSE {}
      <3>1. opts' = [opts EXCEPT ![p] = o] /\ o \in Options
        BY <2>2 DEF LockType, Options
      <3>2. proc[p] \in Up /\ "load" \in Up
        BY <1>3 DEF Daemonize, Up
      <3>3. lock' = lock \/ (LosesLock(opts[p]) /\ lock' = Unlocked(p))
        BY <2>2 DEF LosesLock
      <3>4. LosesLock(opts[p]) <=> LosesLock(o)
        BY DEF LosesLock
      <3> HIDE DEF o
      <3> QED
        BY <2>2, <3>1, <3>2, <3>3, <3>4, GoOnKeeps
    <2> QED
      BY <1>3, <2>1, <2>2 DEF Daemonize
  <1>4. ASSUME NEW p \in Launches, NEW step \in Up, proc[p] \in Up,
               Goto(p, step), UNCHANGED <<lock, opts, hyp, tasks, group>>
        PROVE  LockInv'
    <2>1. opts' = [opts EXCEPT ![p] = opts[p]] /\ opts[p] \in Options
      BY <1>4 DEF LockType
    <2> QED
      BY <1>4, <2>1, GoOnKeeps
  <1>5. ASSUME NEW p \in Launches, Load(p) \/ Crash(p) \/ Quit(p) \/ Leave(p)
        PROVE  LockInv'
    <2>1. Exit(p) \/ \E step \in Up : /\ proc[p] \in Up /\ Goto(p, step)
                                      /\ UNCHANGED <<lock, opts, hyp, tasks, group>>
      BY <1>5 DEF Load, Crash, Quit, LoopFree, Leave, Up
    <2> QED
      BY <2>1, <1>4, ExitKeeps
  <1>6. ASSUME UNCHANGED <<lock, opts, proc>>
        PROVE  LockInv'
    BY <1>6 DEF LockType, LockHeld
  <1>7. ASSUME NEW p \in Launches, NEW r \in Requests, NEW g \in Groups, Take(p, r, g)
        PROVE  LockInv'
    BY <1>6, <1>7 DEF Take
  <1>8. ASSUME NEW k \in 1 .. MaxTasks, TaskStep(k)
        PROVE  LockInv'
    BY <1>6, <1>8 DEF TaskStep, Return, Throw, Dummy
  <1>9. ASSUME NEW g \in Groups, Frozen(g)
        PROVE  LockInv'
    BY <1>6, <1>9 DEF Frozen
  <1>10. CASE UNCHANGED vars
    BY <1>6, <1>10 DEF vars
  <1> QED
    BY <1>1, <1>2, <1>3, <1>5, <1>7, <1>8, <1>9, <1>10 DEF Next

\* The lock of the pid file keeps a second instance out, across fork, failing
\* starts, crashes and new launches, however many there are, unless the pid
\* file of one is a standard stream that its log or its daemon takes over.
THEOREM OnlyOneInstance == Spec => []SingleInstance
  <1>1. LockInv => SingleInstance
    BY DEF LockInv, LockHeld, SingleInstance, LockType
  <1> QED
    BY <1>1, LockInit, LockNext, PTL DEF Spec

-----------------------------------------------------------------------------
(* Tasks and cgroups. *)

\* A task is at one of its calls.
AtCall == \A k \in DOMAIN tasks : tasks[k].at <= Len(Calls(tasks[k]))

\* A task that runs while another one about its cgroup is alone began after
\* the end of that one.
LoneTask ==
    \A j, k \in DOMAIN tasks :
        tasks[k].alone /\ Running(j) /\ j # k /\ tasks[j].group = tasks[k].group =>
            k < j /\ ~Running(k)

\* Nothing has touched the cgroup since the calls of task k.
Last(k) ==
    /\ hyp = "ponci" /\ tasks[k].alone
    /\ \A j \in k + 1 .. Len(tasks) : tasks[j].group # tasks[k].group

\* What the calls that have returned leave for the next call of task k.
Partly(k, G) ==
    tasks[k].kind = "start" =>
        /\ tasks[k].at > 1 => G.state # "none"
        /\ tasks[k].at = 3 => G.mems = k

Kept(k) ==
    Last(k) =>
        /\ Running(k) => Partly(k, group[tasks[k].group])
        /\ tasks[k].end = "success" => Holds(k, group[tasks[k].group])

TaskInv == TypeOK /\ AtCall /\ LoneTask /\ \A k \in DOMAIN tasks : Kept(k)

\* The calls of start in their order, as far as there are maps.
LEMMA StartCalls ==
    ASSUME NEW t \in TaskType, t.kind = "start"
    PROVE  /\ Calls(t)[1] = "create"
           /\ \/ t.maps = {} /\ Len(Calls(t)) = 1
              \/ t.maps = {"mems"} /\ Len(Calls(t)) = 2 /\ Calls(t)[2] = "mems"
              \/ t.maps = {"cpus"} /\ Len(Calls(t)) = 2 /\ Calls(t)[2] = "cpus"
              \/ /\ t.maps = {"mems", "cpus"} /\ Len(Calls(t)) = 3
                 /\ Calls(t)[2] = "mems" /\ Calls(t)[3] = "cpus"
  <1> DEFINE a == <<"create">>
             m == <<"mems">>
             c == <<"cpus">>
             e == <<>>
             s == Calls(t)
  <1>1. s = a \o (IF "mems" \in t.maps THEN m ELSE e) \o (IF "cpus" \in t.maps THEN c ELSE e)
    BY DEF Calls
  <1>2. t.maps \in SUBSET {"mems", "cpus"}
    BY DEF TaskType
  <1> HIDE DEF s
  <1>5. CASE "mems" \in t.maps /\ "cpus" \in t.maps
    <2>1. s = (a \o m) \o c
      BY <1>1, <1>5
    <2>2. Len(s) = 3 /\ s[1] = "create" /\ s[2] = "mems" /\ s[3] = "cpus"
      BY <2>1
    <2>3. t.maps = {"mems", "cpus"}
      BY <1>2, <1>5
    <2> QED
      BY <2>2, <2>3 DEF s
  <1>6. CASE "mems" \in t.maps /\ "cpus" \notin t.maps
    <2>1. s = (a \o m) \o e
      BY <1>1, <1>6
    <2>2. Len(s) = 2 /\ s[1] = "create" /\ s[2] = "mems"
      BY <2>1
    <2>3. t.maps = {"mems"}
      BY <1>2, <1>6
    <2> QED
      BY <2>2, <2>3 DEF s
  <1>7. CASE "mems" \notin t.maps /\ "cpus" \in t.maps
    <2>1. s = (a \o e) \o c
      BY <1>1, <1>7
    <2>2. Len(s) = 2 /\ s[1] = "create" /\ s[2] = "cpus"
      BY <2>1
    <2>3. t.maps = {"cpus"}
      BY <1>2, <1>7
    <2> QED
      BY <2>2, <2>3 DEF s
  <1>8. CASE "mems" \notin t.maps /\ "cpus" \notin t.maps
    <2>1. s = (a \o e) \o e
      BY <1>1, <1>8
    <2>2. Len(s) = 1 /\ s[1] = "create"
      BY <2>1
    <2>3. t.maps = {}
      BY <1>2, <1>8
    <2> QED
      BY <2>2, <2>3 DEF s
  <1> QED
    BY <1>5, <1>6, <1>7, <1>8

LEMMA OtherCalls ==
    ASSUME NEW t \in TaskType
    PROVE  /\ t.kind = "stop" => Len(Calls(t)) = 1 /\ Calls(t)[1] = "delete"
           /\ t.kind = "repin" => Len(Calls(t)) = 1 /\ Calls(t)[1] = "cpus"
           /\ t.kind = "suspend" => /\ Len(Calls(t)) = 2
                                    /\ Calls(t)[1] = "freeze" /\ Calls(t)[2] = "wait frozen"
           /\ t.kind = "resume" => /\ Len(Calls(t)) = 2
                                   /\ Calls(t)[1] = "thaw" /\ Calls(t)[2] = "wait thawed"
           /\ t.kind \in {"migrate", "evacuate"} => Len(Calls(t)) = 1 /\ Calls(t)[1] = "unsupported"
  BY DEF Calls

LEMMA CallsLen ==
    ASSUME NEW t \in TaskType
    PROVE  Len(Calls(t)) \in 1 .. 3
  <1>1. t.kind \in Kinds
    BY DEF TaskType
  <1>2. CASE t.kind = "start"
    BY <1>2, StartCalls
  <1>3. CASE t.kind # "start"
    <2>1. Len(Calls(t)) = 1 \/ Len(Calls(t)) = 2
      BY <1>1, <1>3, OtherCalls, Zenon DEF Kinds
    <2> QED
      BY <2>1
  <1> QED
    BY <1>2, <1>3

\* Which calls a method makes depends on its kind and maps only.
LEMMA SameCalls ==
    ASSUME NEW t, NEW u, t.kind = u.kind, t.maps = u.maps
    PROVE  Calls(t) = Calls(u)
  BY DEF Calls

\* A call keeps a cgroup a cgroup.
LEMMA EffectType ==
    ASSUME NEW c, NEW k \in 1 .. MaxTasks, NEW G \in GroupType
    PROVE  Effect(c, k, G) \in GroupType
  BY Parameters DEF Effect, GroupType, NoGroup

LEMMA TaskFacts ==
    ASSUME TypeOK
    PROVE  /\ Len(tasks) \in Nat /\ DOMAIN tasks = 1 .. Len(tasks)
           /\ \A k \in DOMAIN tasks : tasks[k] \in TaskType /\ k \in 1 .. MaxTasks /\ k \in Nat
  <1>1. tasks \in Seq(TaskType) /\ Len(tasks) <= MaxTasks
    BY DEF TypeOK
  <1>2. Len(tasks) \in Nat /\ DOMAIN tasks = 1 .. Len(tasks) /\ tasks \in [1 .. Len(tasks) -> TaskType]
    BY <1>1, LenProperties
  <1>3. \A k \in 1 .. Len(tasks) : k \in 1 .. MaxTasks /\ k \in Nat
    BY <1>1, <1>2, Parameters
  <1> QED
    BY <1>2, <1>3

\* A step that starts no task and makes no call: tasks may end, though not in
\* a success that Ponci_hypervisor reports, and cgroups may become frozen.
Calm ==
    /\ hyp' = hyp /\ Len(tasks') = Len(tasks)
    /\ \A k \in DOMAIN tasks :
         /\ tasks'[k].kind = tasks[k].kind /\ tasks'[k].maps = tasks[k].maps
         /\ tasks'[k].group = tasks[k].group /\ tasks'[k].at = tasks[k].at
         /\ tasks'[k].alone <=> tasks[k].alone
         /\ \/ tasks'[k].end = tasks[k].end
            \/ tasks'[k].end # "running" /\ (tasks'[k].end = "success" => hyp # "ponci")
    /\ \A g \in Groups :
         \/ group'[g] = group[g]
         \/ group[g].state = "freezing" /\ group'[g] = [group[g] EXCEPT !.state = "frozen"]

LEMMA CalmKeeps ==
    ASSUME TaskInv, TypeOK', Calm
    PROVE  TaskInv'
  <1> USE DEF TaskInv
  <1>1. Len(tasks) \in Nat /\ DOMAIN tasks = 1 .. Len(tasks) /\ DOMAIN tasks' = DOMAIN tasks
    <2>1. DOMAIN tasks' = 1 .. Len(tasks')
      BY LenProperties DEF TypeOK
    <2> QED
      BY <2>1, TaskFacts DEF Calm
  <1>2. \A k \in DOMAIN tasks : (Running(k))' => Running(k)
    BY DEF Calm, Running
  <1>3. AtCall'
    BY <1>1, SameCalls DEF AtCall, Calm
  <1>4. LoneTask'
    BY <1>1, <1>2 DEF LoneTask, Calm
  <1>5. ASSUME NEW k \in DOMAIN tasks, Last(k)'
        PROVE  /\ (Running(k))' => Partly(k, group[tasks[k].group])'
               /\ (tasks[k].end = "success")' => Holds(k, group[tasks[k].group])'
    <2> DEFINE g == tasks[k].group
               G == group[g]
    <2>1. Last(k)
      BY <1>1, <1>5 DEF Last, Calm
    <2>2. tasks[k] \in TaskType /\ g \in Groups /\ G \in GroupType
      BY TaskFacts DEF TypeOK, TaskType
    <2>3. tasks'[k].group = g
      BY DEF Calm
    <2>4. \/ group'[g] = G
          \/ /\ G.state = "freezing" /\ group'[g].state = "frozen"
             /\ group'[g].mems = G.mems /\ group'[g].cpus = G.cpus
      BY <2>2 DEF Calm, GroupType
    <2> HIDE DEF g
    <2>5. Partly(k, G) => Partly(k, group[tasks[k].group])'
      BY <2>3, <2>4 DEF Partly, Calm
    <2>6. Holds(k, G) => Holds(k, group[tasks[k].group])'
      <3>1. tasks[k].kind \in Kinds /\ tasks'[k].kind = tasks[k].kind /\ tasks'[k].maps = tasks[k].maps
        BY <2>2 DEF Calm, TaskType
      <3> QED
        BY <2>3, <2>4, <3>1 DEF Holds, Kinds
    <2>7. (Running(k))' => Partly(k, G)
      BY <1>2, <2>1 DEF Kept, g
    <2>8. tasks'[k].end = "success" => Holds(k, G)
      BY <2>1 DEF Kept, g, Calm, Last
    <2> QED
      BY <2>5, <2>6, <2>7, <2>8
  <1>6. \A k \in DOMAIN tasks' : Kept(k)'
    BY <1>1, <1>5 DEF Kept
  <1> QED
    BY <1>3, <1>4, <1>6

\* A function on 1 .. n is a sequence of length n.
LEMMA SeqOf ==
    ASSUME NEW n \in Nat, NEW S, NEW f \in [1 .. n -> S]
    PROVE  f \in Seq(S) /\ Len(f) = n
  <1>1. f \in Seq(S)
    BY SeqDef
  <1>2. Len(f) \in Nat /\ DOMAIN f = 1 .. Len(f) /\ DOMAIN f = 1 .. n
    BY <1>1, LenProperties
  <1> QED
    BY <1>1, <1>2

\* What ends a process is calm.
LEMMA ExitTasks ==
    ASSUME TaskInv, NEW p \in Launches, Exit(p)
    PROVE  TaskInv'
  <1> USE DEF TaskInv
  <1>1. tasks' \in [1 .. Len(tasks) -> TaskType]
    BY TaskFacts DEF Exit, TaskType
  <1>2. tasks' \in Seq(TaskType) /\ Len(tasks') = Len(tasks)
    BY <1>1, TaskFacts, SeqOf
  <1>3. lock' \in Launches \cup {Nobody} /\ UNCHANGED <<hyp, group>>
    BY DEF TypeOK, Exit, Unlocked
  <1>4. opts' \in [Launches -> Options] /\ proc' \in [Launches -> {"off", "gone"} \cup Up]
    BY DEF TypeOK, Exit, Goto, Options
  <1>5. TypeOK'
    BY <1>2, <1>3, <1>4 DEF TypeOK
  <1>6. Calm
    BY <1>2, <1>3, TaskFacts DEF Exit, Calm, TaskType
  <1> QED
    BY <1>5, <1>6, CalmKeeps

\* A task that ends without a call that returns.
LEMMA EndTasks ==
    ASSUME TaskInv, NEW k \in DOMAIN tasks, NEW e \in {"success", "error"},
           e = "success" => hyp # "ponci",
           tasks' = [tasks EXCEPT ![k].end = e], UNCHANGED <<lock, opts, proc, hyp, group>>
    PROVE  TaskInv'
  <1> USE DEF TaskInv
  <1>1. tasks' \in [1 .. Len(tasks) -> TaskType]
    <2>1. /\ DOMAIN tasks = 1 .. Len(tasks) /\ \A j \in DOMAIN tasks : tasks[j] \in TaskType
          /\ tasks \in Seq(TaskType)
      BY TaskFacts DEF TypeOK
    <2>2. [tasks[k] EXCEPT !.end = e] \in TaskType
      BY <2>1 DEF TaskType
    <2>3. tasks' = [tasks EXCEPT ![k] = [tasks[k] EXCEPT !.end = e]]
      OBVIOUS
    <2>4. tasks' = [j \in 1 .. Len(tasks) |-> IF j = k THEN [tasks[k] EXCEPT !.end = e] ELSE tasks[j]]
      BY <2>1, <2>3
    <2> QED
      BY <2>1, <2>2, <2>4
  <1>2. tasks' \in Seq(TaskType) /\ Len(tasks') = Len(tasks)
    BY <1>1, TaskFacts, SeqOf
  <1>3. TypeOK'
    BY <1>2 DEF TypeOK
  <1>4. Calm
    BY <1>2, TaskFacts DEF Calm, TaskType
  <1> QED
    BY <1>3, <1>4, CalmKeeps

LEMMA FrozenTasks ==
    ASSUME TaskInv, NEW g \in Groups, Frozen(g)
    PROVE  TaskInv'
  <1>1. TypeOK'
    BY DEF TaskInv, TypeOK, Frozen, GroupType
  <1>2. Calm
    BY DEF TaskInv, TypeOK, Frozen, Calm
  <1> QED
    BY <1>1, <1>2, CalmKeeps

\* Steps of main leave tasks and cgroups alone.
LEMMA MainTasks ==
    ASSUME TaskInv, TypeOK', UNCHANGED <<hyp, tasks, group>>
    PROVE  TaskInv'
  <1>1. Calm
    BY DEF Calm
  <1> QED
    BY <1>1, CalmKeeps

LEMMA WithAlone ==
    ASSUME NEW t \in TaskType, NEW b \in BOOLEAN, NEW u, u = [t EXCEPT !.alone = b]
    PROVE  /\ u \in TaskType /\ u.alone = b
           /\ u.kind = t.kind /\ u.maps = t.maps /\ u.group = t.group
           /\ u.at = t.at /\ u.end = t.end
  BY DEF TaskType

LEMMA NewTask ==
    ASSUME NEW r \in RequestType, NEW p \in Launches, NEW g \in Groups, NEW b \in BOOLEAN, NEW u,
           u = [kind |-> r.kind, maps |-> r.maps, inline |-> r.inline, proc |-> p,
                group |-> g, at |-> 1, end |-> "running", alone |-> b]
    PROVE  u \in TaskType /\ u.group = g /\ u.at = 1 /\ u.end = "running" /\ u.alone = b
  BY DEF RequestType, TaskType

\* A task about g that is running.
Rival(k, g) == Running(k) /\ tasks[k].group = g

\* What Take does to the tasks: it adds one, which is alone only without
\* rivals, and its rivals are alone no more.
Taken(n, g) ==
    /\ tasks' \in Seq(TaskType) /\ Len(tasks') = n + 1
    /\ \A k \in 1 .. n :
         /\ tasks'[k].kind = tasks[k].kind /\ tasks'[k].maps = tasks[k].maps
         /\ tasks'[k].group = tasks[k].group /\ tasks'[k].at = tasks[k].at
         /\ tasks'[k].end = tasks[k].end
         /\ tasks'[k].alone => tasks[k].alone /\ ~Rival(k, g)
    /\ tasks'[n + 1].group = g /\ tasks'[n + 1].at = 1 /\ tasks'[n + 1].end = "running"
    /\ tasks'[n + 1].alone => \A k \in 1 .. n : ~Rival(k, g)

LEMMA TakeEffect ==
    ASSUME TypeOK, NEW p \in Launches, NEW r \in Requests, NEW g \in Groups, Take(p, r, g),
           NEW n \in Nat, n = Len(tasks)
    PROVE  Taken(n, g)
  <1> DEFINE Rivals == {k \in DOMAIN tasks : Running(k) /\ tasks[k].group = g}
             b(k) == tasks[k].alone /\ k \notin Rivals
             none == Rivals = {}
             new == [kind |-> r.kind, maps |-> r.maps, inline |-> r.inline, proc |-> p,
                     group |-> g, at |-> 1, end |-> "running", alone |-> none]
             F == [k \in DOMAIN tasks |-> [tasks[k] EXCEPT !.alone = b(k)]]
  <1>1. tasks' = Append(F, new)
    BY DEF Take
  <1>2. DOMAIN tasks = 1 .. n /\ \A k \in 1 .. n : tasks[k] \in TaskType
    BY TaskFacts
  <1>3. new \in TaskType /\ new.group = g /\ new.at = 1 /\ new.end = "running" /\ new.alone = none
    <2>1. none \in BOOLEAN /\ r \in RequestType
      BY Parameters
    <2> HIDE DEF none
    <2> QED
      BY <2>1, NewTask
  <1>4. new.alone => \A k \in 1 .. n : ~Rival(k, g)
    <2>1. none => \A k \in 1 .. n : ~Rival(k, g)
      BY <1>2 DEF Rival
    <2> HIDE DEF none
    <2> QED
      BY <1>3, <2>1
  <1>5. ASSUME NEW k \in 1 .. n
        PROVE  /\ F[k] \in TaskType
               /\ F[k].kind = tasks[k].kind /\ F[k].maps = tasks[k].maps
               /\ F[k].group = tasks[k].group /\ F[k].at = tasks[k].at /\ F[k].end = tasks[k].end
               /\ F[k].alone => tasks[k].alone /\ ~Rival(k, g)
    <2> DEFINE c == b(k)
               u == F[k]
    <2>1. c \in BOOLEAN /\ u = [tasks[k] EXCEPT !.alone = c] /\ tasks[k] \in TaskType
      BY <1>2
    <2>2. c => tasks[k].alone /\ ~Rival(k, g)
      BY <1>2 DEF Rival
    <2> HIDE DEF c, u
    <2>3. /\ u \in TaskType /\ u.alone = c
          /\ u.kind = tasks[k].kind /\ u.maps = tasks[k].maps /\ u.group = tasks[k].group
          /\ u.at = tasks[k].at /\ u.end = tasks[k].end
      BY <2>1, WithAlone
    <2> QED
      BY <2>2, <2>3 DEF u
  <1>6. F \in [1 .. n -> TaskType]
    BY <1>2, <1>5
  <1> HIDE DEF F, new
  <1>7. F \in Seq(TaskType) /\ Len(F) = n
    BY <1>6, SeqOf
  <1>8. /\ tasks' \in Seq(TaskType) /\ Len(tasks') = n + 1
        /\ \A k \in 1 .. n : tasks'[k] = F[k]
        /\ tasks'[n + 1] = new
    BY <1>1, <1>3, <1>7, AppendProperties
  <1> QED
    BY <1>3, <1>4, <1>5, <1>8 DEF Taken

LEMMA TakeTasks ==
    ASSUME TaskInv, NEW p \in Launches, NEW r \in Requests, NEW g \in Groups, Take(p, r, g)
    PROVE  TaskInv'
  <1>0. PICK n \in Nat : n = Len(tasks)
    BY TaskFacts DEF TaskInv
  <1>1. n < MaxTasks /\ UNCHANGED <<lock, opts, proc, hyp, group>>
    BY <1>0 DEF Take
  <1>2. Taken(n, g)
    BY <1>0, TakeEffect DEF TaskInv
  <1>3. DOMAIN tasks = 1 .. n /\ DOMAIN tasks' = 1 .. n + 1
    <2>1. DOMAIN tasks' = 1 .. n + 1
      BY <1>2, LenProperties DEF Taken
    <2> QED
      BY <1>0, <2>1, TaskFacts DEF TaskInv
  <1>4. TypeOK'
    <2>1. Len(tasks') <= MaxTasks /\ tasks' \in Seq(TaskType)
      BY <1>1, <1>2, Parameters DEF Taken
    <2> QED
      BY <1>1, <2>1 DEF TypeOK, TaskInv
  <1>5. \A k \in 1 .. n : k # n + 1 /\ k < n + 1
    OBVIOUS
  <1>6. \A k \in 1 .. n + 1 : k \in 1 .. n \/ k = n + 1
    OBVIOUS
  <1>7. AtCall'
    <2>1. ASSUME NEW k \in 1 .. n
          PROVE  tasks'[k].at <= Len(Calls(tasks'[k]))
      <3>1. Calls(tasks'[k]) = Calls(tasks[k])
        BY <1>2, SameCalls DEF Taken
      <3>2. tasks[k].at <= Len(Calls(tasks[k]))
        BY <1>3 DEF TaskInv, AtCall
      <3> QED
        BY <1>2, <3>1, <3>2 DEF Taken
    <2>2. tasks'[n + 1].at <= Len(Calls(tasks'[n + 1]))
      <3>1. tasks'[n + 1] \in TaskType
        BY <1>2, <1>3, ElementOfSeq DEF Taken
      <3>2. Len(Calls(tasks'[n + 1])) \in 1 .. 3
        BY <3>1, CallsLen
      <3>3. tasks'[n + 1].at = 1
        BY <1>2 DEF Taken
      <3>4. \A L \in 1 .. 3 : 1 <= L
        OBVIOUS
      <3> QED
        BY <3>2, <3>3, <3>4
    <2> QED
      BY <1>3, <1>6, <2>1, <2>2 DEF AtCall
  <1>8. LoneTask'
    <2>1. ASSUME NEW j \in 1 .. n + 1, NEW k \in 1 .. n + 1, tasks'[k].alone, (Running(j))', j # k,
                 tasks'[j].group = tasks'[k].group
          PROVE  k < j /\ ~(Running(k))'
      <3>1. CASE j \in 1 .. n /\ k \in 1 .. n
        <4>1. tasks[k].alone /\ Running(j) /\ tasks[j].group = tasks[k].group
          BY <1>2, <2>1, <3>1 DEF Taken, Running
        <4>2. k < j /\ ~Running(k)
          BY <1>3, <2>1, <3>1, <4>1 DEF TaskInv, LoneTask
        <4> QED
          BY <1>2, <3>1, <4>2 DEF Taken, Running
      <3>2. CASE k = n + 1
        BY <1>2, <1>6, <2>1, <3>2 DEF Taken, Rival, Running
      <3>3. CASE j = n + 1 /\ k \in 1 .. n
        BY <1>2, <1>5, <2>1, <3>3 DEF Taken, Rival, Running
      <3> QED
        BY <1>6, <2>1, <3>1, <3>2, <3>3
    <2> QED
      BY <1>3, <2>1 DEF LoneTask
  <1>9. ASSUME NEW k \in 1 .. n
        PROVE  Kept(k)'
    <2>1. ASSUME Last(k)'
          PROVE  Last(k)
      <3>1. ASSUME NEW j \in k + 1 .. n
            PROVE  tasks[j].group # tasks[k].group
        BY <1>2, <2>1 DEF Last, Taken
      <3> QED
        BY <1>0, <1>1, <1>2, <2>1, <3>1 DEF Last, Taken
    <2>2. /\ tasks'[k].kind = tasks[k].kind /\ tasks'[k].maps = tasks[k].maps
          /\ tasks'[k].group = tasks[k].group /\ tasks'[k].at = tasks[k].at
          /\ tasks'[k].end = tasks[k].end
      BY <1>2 DEF Taken
    <2>3. Kept(k) /\ group' = group
      BY <1>1, <1>3 DEF TaskInv
    <2>4. Partly(k, group[tasks[k].group]) => Partly(k, group[tasks[k].group])'
      BY <2>2, <2>3 DEF Partly
    <2>5. Holds(k, group[tasks[k].group]) => Holds(k, group[tasks[k].group])'
      BY <2>2, <2>3 DEF Holds
    <2> QED
      BY <2>1, <2>2, <2>3, <2>4, <2>5 DEF Kept, Running
  <1>10. Kept(n + 1)'
    BY <1>2 DEF Taken, Kept, Partly
  <1> QED
    BY <1>3, <1>4, <1>6, <1>7, <1>8, <1>9, <1>10 DEF TaskInv

\* What Return does to the tasks and the cgroups.
Returned(n, k) ==
    LET t == tasks[k]
        c == Calls(t)[t.at]
    IN  /\ tasks' \in Seq(TaskType) /\ Len(tasks') = n
        /\ \A m \in 1 .. n :
             /\ tasks'[m].kind = tasks[m].kind /\ tasks'[m].maps = tasks[m].maps
             /\ tasks'[m].group = tasks[m].group
             /\ tasks'[m].alone => tasks[m].alone
             /\ m # k => tasks'[m].at = tasks[m].at /\ tasks'[m].end = tasks[m].end
        /\ IF t.at = Len(Calls(t))
           THEN tasks'[k].end = "success" /\ tasks'[k].at = t.at
           ELSE tasks'[k].end = "running" /\ tasks'[k].at = t.at + 1
        /\ \A g \in Groups : g # t.group => group'[g] = group[g]
        /\ group'[t.group] = Effect(c, k, group[t.group])

LEMMA ReturnEffect ==
    ASSUME TypeOK, AtCall, NEW k \in DOMAIN tasks, Return(k), NEW n \in Nat, n = Len(tasks)
    PROVE  Returned(n, k) /\ TypeOK'
  <1> DEFINE t == tasks[k]
             c == Calls(t)[t.at]
             g == t.group
             last == t.at = Len(Calls(t))
  <1>1. /\ t \in TaskType /\ k \in 1 .. MaxTasks /\ g \in Groups /\ group[g] \in GroupType
        /\ DOMAIN tasks = 1 .. n /\ \A m \in 1 .. n : tasks[m] \in TaskType
    BY TaskFacts DEF TypeOK, TaskType
  <1>2. /\ t.end = "running"
        /\ group' = [group EXCEPT ![g] = Effect(c, k, group[g])]
        /\ UNCHANGED <<lock, opts, proc, hyp>>
    BY DEF Return, Running
  <1>3. tasks' = IF last THEN [tasks EXCEPT ![k].end = "success"] ELSE [tasks EXCEPT ![k].at = @ + 1]
    BY DEF Return
  <1>4. t.at \in 1 .. 3 /\ t.at <= Len(Calls(t)) /\ Len(Calls(t)) \in 1 .. 3
    BY <1>1, CallsLen DEF AtCall, TaskType
  <1>5. DOMAIN tasks' = 1 .. n /\ \A m \in 1 .. n : m # k => tasks'[m] = tasks[m]
    BY <1>1, <1>3
  <1>6. tasks'[k] = IF last THEN [t EXCEPT !.end = "success"] ELSE [t EXCEPT !.at = @ + 1]
    BY <1>1, <1>3
  <1> DEFINE u == tasks'[k]
  <1>7. /\ u \in TaskType /\ u.kind = t.kind /\ u.maps = t.maps /\ u.group = t.group
        /\ u.alone = t.alone
        /\ IF last THEN u.end = "success" /\ u.at = t.at ELSE u.end = "running" /\ u.at = t.at + 1
    <2>1. CASE last
      BY <1>1, <1>6, <2>1 DEF TaskType
    <2>2. CASE ~last
      <3>1. t.at + 1 \in 1 .. 3
        <4> DEFINE a == t.at
                   L == Len(Calls(t))
        <4>1. a \in 1 .. 3 /\ a <= L /\ L \in 1 .. 3 /\ a # L
          BY <1>4, <2>2
        <4> HIDE DEF a, L
        <4>2. a + 1 \in 1 .. 3
          BY <4>1
        <4> QED
          BY <4>2 DEF a
      <3>2. u = [t EXCEPT !.at = t.at + 1]
        BY <1>6, <2>2
      <3> HIDE DEF t, u
      <3> QED
        BY <1>1, <1>2, <2>2, <3>1, <3>2 DEF TaskType
    <2> QED
      BY <2>1, <2>2
  <1>8. tasks' \in [1 .. n -> TaskType]
    BY <1>1, <1>3, <1>5, <1>7
  <1>9. tasks' \in Seq(TaskType) /\ Len(tasks') = n
    BY <1>8, SeqOf
  <1>10. group' \in [Groups -> GroupType]
    BY <1>1, <1>2, EffectType DEF TypeOK
  <1>11. TypeOK'
    BY <1>2, <1>9, <1>10 DEF TypeOK
  <1>12. /\ \A h \in Groups : h # g => group'[h] = group[h]
         /\ group'[g] = Effect(c, k, group[g])
    BY <1>1, <1>2 DEF TypeOK
  <1> QED
    BY <1>5, <1>7, <1>9, <1>11, <1>12 DEF Returned

\* The last call of a task makes its success true, and every other call
\* leaves what the next one needs.
LEMMA CallsAddUp ==
    ASSUME NEW k \in Nat, NEW t \in TaskType, t = tasks[k], t.at <= Len(Calls(t)),
           NEW G \in GroupType, Returns(Calls(t)[t.at], G), Partly(k, G)
    PROVE  LET H == Effect(Calls(t)[t.at], k, G)
           IN  /\ t.at = Len(Calls(t)) => Holds(k, H)
               /\ t.kind = "start" /\ t.at # Len(Calls(t)) =>
                    H.state # "none" /\ (t.at = 2 => H.mems = k)
  <1> DEFINE H == Effect(Calls(t)[t.at], k, G)
  <1>1. t.kind \in Kinds /\ t.at \in 1 .. 3
    BY DEF TaskType
  <1>2. CASE t.kind = "start"
    <2>1. t.at > 1 => G.state # "none"
      BY <1>2 DEF Partly
    <2>2. t.at = 3 => G.mems = k
      BY <1>2 DEF Partly
    <2>3. CASE t.at = 1
      <3>1. Calls(t)[t.at] = "create"
        BY <1>2, <2>3, StartCalls
      <3>2. H.state # "none"
        BY <3>1 DEF Effect, NoGroup, GroupType
      <3>3. t.at = Len(Calls(t)) => t.maps = {}
        BY <1>2, <2>3, StartCalls
      <3> HIDE DEF H
      <3>4. t.at = Len(Calls(t)) => Holds(k, H)
        BY <1>2, <3>2, <3>3 DEF Holds
      <3> QED
        BY <2>3, <3>2, <3>4 DEF H
    <2>4. CASE t.at = 2
      <3>1. CASE Calls(t)[t.at] = "mems" /\ t.maps = {"mems"}
        <4>1. H.state # "none" /\ H.mems = k
          BY <2>1, <2>4, <3>1 DEF Effect, GroupType
        <4> HIDE DEF H
        <4>2. Holds(k, H)
          BY <1>2, <3>1, <4>1 DEF Holds
        <4> QED
          BY <4>1, <4>2 DEF H
      <3>2. CASE Calls(t)[t.at] = "cpus" /\ t.maps = {"cpus"} /\ Len(Calls(t)) = 2
        <4>1. H.state # "none" /\ H.cpus = k
          BY <2>1, <2>4, <3>2 DEF Effect, GroupType
        <4> HIDE DEF H
        <4>2. Holds(k, H)
          BY <1>2, <3>2, <4>1 DEF Holds
        <4> QED
          BY <2>4, <3>2, <4>1, <4>2 DEF H
      <3>3. CASE Calls(t)[t.at] = "mems" /\ Len(Calls(t)) = 3
        <4>1. H.state # "none" /\ H.mems = k
          BY <2>1, <2>4, <3>3 DEF Effect, GroupType
        <4> QED
          BY <2>4, <3>3, <4>1
      <3> QED
        BY <1>2, <2>4, <3>1, <3>2, <3>3, StartCalls
    <2>5. CASE t.at = 3
      <3>1. Len(Calls(t)) = 3 /\ Calls(t)[t.at] = "cpus"
        BY <1>2, <2>5, StartCalls
      <3>2. H.state # "none" /\ H.mems = k /\ H.cpus = k
        BY <2>1, <2>2, <2>5, <3>1 DEF Effect, GroupType
      <3> HIDE DEF H
      <3>3. Holds(k, H)
        BY <1>2, <3>2 DEF Holds
      <3> QED
        BY <2>5, <3>1, <3>3 DEF H
    <2> QED
      BY <1>1, <2>3, <2>4, <2>5
  <1>3. CASE t.kind = "stop" \/ t.kind = "repin"
             \/ t.kind \in {"migrate", "evacuate"}
    <2>0. Len(Calls(t)) = 1
      BY <1>3, OtherCalls, Zenon
    <2>1. t.at = 1 /\ Len(Calls(t)) = 1
      BY <1>1, <2>0
    <2>2. CASE t.kind = "stop"
      <3>1. Calls(t)[t.at] = "delete"
        BY <2>1, <2>2, OtherCalls
      <3>2. H.state = "none"
        BY <3>1 DEF Effect, NoGroup
      <3> HIDE DEF H
      <3>3. Holds(k, H)
        BY <2>2, <3>2 DEF Holds
      <3> QED
        BY <2>2, <3>3 DEF H
    <2>3. CASE t.kind = "repin"
      <3>1. Calls(t)[t.at] = "cpus"
        BY <2>1, <2>3, OtherCalls
      <3>2. H.cpus = k
        BY <3>1 DEF Effect, GroupType
      <3> HIDE DEF H
      <3>3. Holds(k, H)
        BY <2>3, <3>2 DEF Holds
      <3> QED
        BY <2>3, <3>3 DEF H
    <2>4. CASE t.kind \in {"migrate", "evacuate"}
      <3>1. Calls(t)[t.at] = "unsupported"
        BY <2>1, <2>4, OtherCalls
      <3> QED
        BY <3>1 DEF Returns
    <2> QED
      BY <1>3, <2>2, <2>3, <2>4
  <1>4. CASE t.kind = "suspend"
    <2>1. Len(Calls(t)) = 2 /\ Calls(t)[2] = "wait frozen"
      BY <1>4, OtherCalls
    <2>2. t.at = 2 => H.state = "frozen"
      BY <2>1 DEF Effect, Returns
    <2> HIDE DEF H
    <2>3. t.at = 2 => Holds(k, H)
      BY <1>4, <2>2 DEF Holds
    <2> QED
      BY <1>4, <2>1, <2>3 DEF H
  <1>5. CASE t.kind = "resume"
    <2>1. Len(Calls(t)) = 2 /\ Calls(t)[2] = "wait thawed"
      BY <1>5, OtherCalls
    <2>2. t.at = 2 => H.state = "thawed"
      BY <2>1 DEF Effect, Returns
    <2> HIDE DEF H
    <2>3. t.at = 2 => Holds(k, H)
      BY <1>5, <2>2 DEF Holds
    <2> QED
      BY <1>5, <2>1, <2>3 DEF H
  <1> QED
    BY <1>1, <1>2, <1>3, <1>4, <1>5 DEF Kinds

\* The call of task k returns: no other task relies on the cgroup, and what
\* task k promises holds after its last call.
LEMMA ReturnTasks ==
    ASSUME TaskInv, NEW k \in DOMAIN tasks, Return(k)
    PROVE  TaskInv'
  <1>0. PICK n \in Nat : n = Len(tasks)
    BY TaskFacts DEF TaskInv
  <1> DEFINE t == tasks[k]
             g == t.group
             G == group[g]
  <1>1. /\ t \in TaskType /\ k \in Nat /\ g \in Groups /\ G \in GroupType
        /\ t.at <= Len(Calls(t)) /\ DOMAIN tasks = 1 .. n
    BY <1>0, TaskFacts DEF TaskInv, AtCall, TypeOK, TaskType
  <1>2. t.end = "running" /\ hyp = "ponci" /\ Returns(Calls(t)[t.at], G) /\ UNCHANGED hyp
    BY DEF Return, Running
  <1>3. Returned(n, k) /\ TypeOK'
    BY <1>0, ReturnEffect DEF TaskInv
  <1>4. DOMAIN tasks' = 1 .. n
    BY <1>3, LenProperties DEF Returned
  <1>5. \A m \in 1 .. n : Calls(tasks'[m]) = Calls(tasks[m])
    BY <1>3, SameCalls DEF Returned
  <1>6. AtCall'
    <2>1. ASSUME NEW m \in 1 .. n
          PROVE  tasks'[m].at <= Len(Calls(tasks'[m]))
      <3>1. CASE m # k
        BY <1>1, <1>3, <1>5, <3>1 DEF TaskInv, AtCall, Returned
      <3>2. CASE m = k
        <4> DEFINE a == t.at
                   L == Len(Calls(t))
        <4>1. a \in 1 .. 3 /\ L \in 1 .. 3 /\ a <= L
          BY <1>1, CallsLen DEF TaskType
        <4>2. tasks'[k].at = (IF a = L THEN a ELSE a + 1) /\ Len(Calls(tasks'[k])) = L
          BY <1>1, <1>3, <1>5 DEF Returned
        <4> HIDE DEF a, L
        <4> QED
          BY <3>2, <4>1, <4>2
      <3> QED
        BY <3>1, <3>2
    <2> QED
      BY <1>4, <2>1 DEF AtCall
  <1>7. \A m \in 1 .. n : (Running(m))' => Running(m)
    BY <1>1, <1>2, <1>3 DEF Returned, Running
  <1>8. LoneTask'
    <2>1. ASSUME NEW j \in 1 .. n, NEW m \in 1 .. n, tasks'[m].alone, (Running(j))', j # m,
                 tasks'[j].group = tasks'[m].group
          PROVE  m < j /\ ~(Running(m))'
      <3>1. tasks[m].alone /\ Running(j) /\ tasks[j].group = tasks[m].group
        BY <1>3, <1>7, <2>1 DEF Returned
      <3>2. m < j /\ ~Running(m)
        BY <1>1, <2>1, <3>1 DEF TaskInv, LoneTask
      <3> QED
        BY <1>7, <3>2
    <2> QED
      BY <1>4, <2>1 DEF LoneTask
  <1>9. ASSUME NEW m \in 1 .. n, Last(m)'
        PROVE  Last(m)
    <2>1. ASSUME NEW j \in m + 1 .. n
          PROVE  tasks[j].group # tasks[m].group
      BY <1>3, <1>9, <2>1 DEF Last, Returned
    <2> QED
      BY <1>0, <1>2, <1>3, <1>9, <2>1 DEF Last, Returned
  <1>10. ASSUME NEW m \in 1 .. n, m # k
         PROVE  Kept(m)'
    <2>1. ASSUME Last(m)'
          PROVE  /\ (Running(m))' => Partly(m, group[tasks[m].group])'
                 /\ (tasks[m].end = "success")' => Holds(m, group[tasks[m].group])'
      <3>1. Last(m)
        BY <1>9, <2>1
      <3>2. ASSUME tasks[m].group = g
            PROVE  FALSE
        <4>1. m < k
          BY <1>1, <1>2, <1>10, <3>1, <3>2 DEF TaskInv, LoneTask, Last, Running
        <4>2. k \in m + 1 .. Len(tasks)
          BY <1>0, <1>1, <4>1
        <4> QED
          BY <3>1, <3>2, <4>2 DEF Last
      <3>3. tasks[m].group \in Groups
        BY <1>1, TaskFacts DEF TaskInv, TaskType
      <3>4. (group[tasks[m].group])' = group[tasks[m].group]
        BY <1>3, <3>2, <3>3 DEF Returned
      <3>5. /\ tasks'[m].kind = tasks[m].kind /\ tasks'[m].maps = tasks[m].maps
            /\ tasks'[m].at = tasks[m].at /\ tasks'[m].end = tasks[m].end
        BY <1>3, <1>10 DEF Returned
      <3>6. Kept(m)
        BY <1>1 DEF TaskInv
      <3>7. Partly(m, group[tasks[m].group]) => Partly(m, group[tasks[m].group])'
        BY <3>4, <3>5 DEF Partly
      <3>8. Holds(m, group[tasks[m].group]) => Holds(m, group[tasks[m].group])'
        BY <3>4, <3>5 DEF Holds
      <3> QED
        BY <3>1, <3>5, <3>6, <3>7, <3>8 DEF Kept, Running
    <2> QED
      BY <2>1 DEF Kept
  <1>11. Kept(k)'
    <2>1. ASSUME Last(k)'
          PROVE  /\ (Running(k))' => Partly(k, group[tasks[k].group])'
                 /\ (tasks[k].end = "success")' => Holds(k, group[tasks[k].group])'
      <3> DEFINE H == Effect(Calls(t)[t.at], k, G)
      <3>1. Partly(k, G)
        BY <1>1, <1>2, <1>9, <2>1 DEF TaskInv, Kept, Running
      <3>2. /\ t.at = Len(Calls(t)) => Holds(k, H)
            /\ t.kind = "start" /\ t.at # Len(Calls(t)) => H.state # "none" /\ (t.at = 2 => H.mems = k)
        BY <1>1, <1>2, <3>1, CallsAddUp
      <3>3. /\ (group[tasks[k].group])' = H
            /\ tasks'[k].kind = t.kind /\ tasks'[k].maps = t.maps
            /\ IF t.at = Len(Calls(t))
               THEN tasks'[k].end = "success" /\ tasks'[k].at = t.at
               ELSE tasks'[k].end = "running" /\ tasks'[k].at = t.at + 1
        BY <1>1, <1>3 DEF Returned
      <3> HIDE DEF H
      <3>4. Holds(k, H) => Holds(k, group[tasks[k].group])'
        BY <3>3 DEF Holds
      <3>5. ASSUME t.at # Len(Calls(t))
            PROVE  Partly(k, group[tasks[k].group])'
        <4>1. t.at \in 1 .. 3 /\ (t.at + 1 = 3 => t.at = 2)
          BY <1>1 DEF TaskType
        <4> QED
          BY <3>2, <3>3, <3>5, <4>1 DEF Partly
      <3> QED
        BY <3>2, <3>3, <3>4, <3>5 DEF Running
    <2> QED
      BY <2>1 DEF Kept
  <1> QED
    BY <1>3, <1>4, <1>6, <1>8, <1>10, <1>11 DEF TaskInv

LEMMA TaskInit == Init => TaskInv
  <1> SUFFICES ASSUME Init
               PROVE  TaskInv
    OBVIOUS
  <1>1. tasks \in Seq(TaskType) /\ Len(tasks) = 0 /\ DOMAIN tasks = {}
    <2>1. tasks = <<>>
      BY DEF Init
    <2> QED
      BY <2>1, EmptySeq, LenProperties
  <1>2. group \in [Groups -> GroupType]
    <2>1. NoGroup \in GroupType /\ [NoGroup EXCEPT !.state = "thawed"] \in GroupType
      BY Parameters DEF GroupType, NoGroup
    <2> QED
      BY <2>1 DEF Init
  <1>3. lock \in Launches \cup {Nobody} /\ hyp \in {"ponci", "dummy", "dummy throws"}
        /\ opts \in [Launches -> Options] /\ proc \in [Launches -> {"off", "gone"} \cup Up]
    BY DEF Init, Options, Up
  <1>4. TypeOK
    <2>1. 0 <= MaxTasks
      BY Parameters
    <2> QED
      BY <1>1, <1>2, <1>3, <2>1 DEF TypeOK
  <1> QED
    BY <1>1, <1>4 DEF TaskInv, AtCall, LoneTask

LEMMA TaskNext == TaskInv /\ [Next]_vars => TaskInv'
  <1> SUFFICES ASSUME TaskInv, [Next]_vars
               PROVE  TaskInv'
    OBVIOUS
  <1>1. ASSUME NEW p \in Launches, NEW o \in CmdLines, Launch(p, o)
        PROVE  TaskInv'
    <2>1. TypeOK'
      BY <1>1, Parameters DEF TaskInv, TypeOK, Launch, Goto, Up
    <2> QED
      BY <1>1, <2>1, MainTasks DEF Launch
  <1>2. ASSUME NEW p \in Launches, ParseOptions(p)
        PROVE  TaskInv'
    <2>1. CASE /\ Goto(p, "started")
               /\ lock' = IF {"log", "stream closed"} \subseteq opts[p] THEN Unlocked(p) ELSE lock
               /\ UNCHANGED <<opts, hyp, tasks, group>>
      <3>1. TypeOK'
        BY <2>1 DEF TaskInv, TypeOK, Goto, Up, Unlocked
      <3> QED
        BY <2>1, <3>1, MainTasks
    <2> QED
      BY <1>2, <2>1, ExitTasks DEF ParseOptions
  <1>3. ASSUME NEW p \in Launches, Daemonize(p)
        PROVE  TaskInv'
    <2>1. CASE /\ Goto(p, "load")
               /\ lock' = IF {"daemon", "stream closed"} \subseteq opts[p] /\ "log" \notin opts[p]
                          THEN Unlocked(p) ELSE lock
               /\ opts' = [opts EXCEPT ![p] = IF LosesLock(@) THEN @ ELSE {}]
               /\ UNCHANGED <<hyp, tasks, group>>
      <3>1. lock' \in Launches \cup {Nobody} /\ opts' \in [Launches -> Options]
        BY <2>1 DEF TaskInv, TypeOK, Unlocked, Options
      <3>2. TypeOK'
        BY <2>1, <3>1 DEF TaskInv, TypeOK, Goto, Up
      <3> QED
        BY <2>1, <3>2, MainTasks
    <2> QED
      BY <1>3, <2>1, ExitTasks DEF Daemonize
  <1>4. ASSUME NEW p \in Launches, Load(p) \/ Crash(p) \/ Quit(p) \/ Leave(p)
        PROVE  TaskInv'
    <2>1. \/ Exit(p)
          \/ \E step \in {"serve", "quit"} :
               Goto(p, step) /\ UNCHANGED <<lock, opts, hyp, tasks, group>>
      BY <1>4 DEF Load, Crash, Quit, Leave
    <2>2. ASSUME NEW step \in {"serve", "quit"}, Goto(p, step),
                 UNCHANGED <<lock, opts, hyp, tasks, group>>
          PROVE  TaskInv'
      <3>1. TypeOK'
        BY <2>2 DEF TaskInv, TypeOK, Goto, Up
      <3> QED
        BY <2>2, <3>1, MainTasks
    <2> QED
      BY <2>1, <2>2, ExitTasks
  <1>5. ASSUME NEW p \in Launches, NEW r \in Requests, NEW g \in Groups, Take(p, r, g)
        PROVE  TaskInv'
    BY <1>5, TakeTasks
  <1>6. ASSUME NEW k \in 1 .. MaxTasks, TaskStep(k)
        PROVE  TaskInv'
    <2>1. k \in DOMAIN tasks
      BY <1>6 DEF TaskStep
    <2>2. CASE Return(k)
      BY <2>1, <2>2, ReturnTasks
    <2>3. CASE Throw(k)
      BY <2>1, <2>3, EndTasks DEF Throw
    <2>4. CASE Dummy(k)
      <3> DEFINE e == IF hyp = "dummy" THEN "success" ELSE "error"
      <3>1. e \in {"success", "error"} /\ (e = "success" => hyp # "ponci")
        OBVIOUS
      <3>2. tasks' = [tasks EXCEPT ![k].end = e] /\ UNCHANGED <<lock, opts, proc, hyp, group>>
        BY <2>4 DEF Dummy
      <3> HIDE DEF e
      <3> QED
        BY <2>1, <3>1, <3>2, EndTasks
    <2> QED
      BY <1>6, <2>2, <2>3, <2>4 DEF TaskStep
  <1>7. ASSUME NEW g \in Groups, Frozen(g)
        PROVE  TaskInv'
    BY <1>7, FrozenTasks
  <1>8. CASE UNCHANGED vars
    <2>1. TypeOK'
      BY <1>8 DEF TaskInv, TypeOK, vars
    <2> QED
      BY <1>8, <2>1, MainTasks DEF vars
  <1> QED
    BY <1>1, <1>2, <1>3, <1>4, <1>5, <1>6, <1>7, <1>8 DEF Next

\* The variables stay in their types: in particular a task is always at one of
\* its calls, and every limit of a cgroup names the task that set it.
THEOREM TypeCorrect == Spec => []TypeOK
  <1>1. TaskInv => TypeOK
    BY DEF TaskInv
  <1> QED
    BY <1>1, TaskInit, TaskNext, PTL DEF Spec

\* The success that Ponci_hypervisor reports for a task is true of the cgroup
\* until the next task about it, whatever earlier tasks, crashed instances and
\* failed calls have left there, for any number of launches, tasks and cgroups.
THEOREM SuccessTrue == Spec => []SuccessIsTrue
  <1>1. TaskInv => SuccessIsTrue
    BY DEF TaskInv, Kept, Last, SuccessIsTrue
  <1> QED
    BY <1>1, TaskInit, TaskNext, PTL DEF Spec

=============================================================================
