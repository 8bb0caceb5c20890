----------------------------- MODULE PonciNode -----------------------------
(***************************************************************************)
(* One machine whose hypervisor is Ponci_hypervisor or Dummy_hypervisor:   *)
(* main() with the lock of the pid file and the start as a daemon, the     *)
(* choice of the hypervisor in Task_handler::load, and tasks that create,  *)
(* limit, freeze and delete cgroups.  The processes may crash and be       *)
(* launched again; the cgroups, which are the kernel's, stay.              *)
(*                                                                         *)
(* The ponci library and the kernel are external: a call throws when the   *)
(* cgroup does not exist and may throw otherwise, and freezing takes time. *)
(* A map of a wrong dimension throws where its call would.                 *)
(***************************************************************************)
EXTENDS Integers, Sequences

CONSTANTS
    MaxLaunch,  \* bound: launches of the program on this machine
    CmdLines,   \* the command lines it is launched with
    Groups,     \* names of cgroups, the vm-names of tasks
    Requests,   \* what the scheduler may ask for
    MaxTasks    \* bound: number of tasks

Nobody == 0

\* The launches, in their order.
Launches == 1 .. MaxLaunch

Kinds == {"start", "stop", "repin", "suspend", "resume", "migrate", "evacuate"}

RequestType == [kind : Kinds, maps : SUBSET {"mems", "cpus"}, inline : BOOLEAN]

\* The options of the command line, and whether one of the standard streams is
\* closed at the launch, which makes the pid file file 0, 1 or 2.
Options == SUBSET {"help", "log", "daemon", "stream closed"}

ASSUME Parameters ==
    /\ MaxLaunch \in Nat
    /\ CmdLines \subseteq Options
    /\ Requests \subseteq RequestType
    /\ MaxTasks \in Nat

VARIABLES
    lock,    \* who holds the lock of the pid file
    opts,    \* the options of each launch, as far as they still matter
    proc,    \* where each process is
    hyp,     \* the hypervisor the configuration file of the machine names
    tasks,   \* the tasks taken so far: request, owner and progress
    group    \* kernel: freezer state and limits, each with the task that set it

vars == <<lock, opts, proc, hyp, tasks, group>>

Up == {"locked", "started", "load", "serve", "quit"}

NoGroup == [state |-> "none", mems |-> 0, cpus |-> 0]

GroupType ==
    [state : {"none", "thawed", "freezing", "frozen"}, mems : 0 .. MaxTasks, cpus : 0 .. MaxTasks]

TaskType ==
    [kind : Kinds, maps : SUBSET {"mems", "cpus"}, inline : BOOLEAN, proc : Launches,
     group : Groups, at : 1 .. 3, end : {"running", "success", "error", "lost"}, alone : BOOLEAN]

TypeOK ==
    /\ lock \in Launches \cup {Nobody}
    /\ opts \in [Launches -> Options]
    /\ proc \in [Launches -> {"off", "gone"} \cup Up]
    /\ hyp \in {"ponci", "dummy", "dummy throws"}
    /\ tasks \in Seq(TaskType) /\ Len(tasks) <= MaxTasks
    /\ group \in [Groups -> GroupType]

\* Cgroups may be there from before.
Init ==
    /\ lock = Nobody
    /\ opts = [p \in Launches |-> {}]
    /\ proc = [p \in Launches |-> "off"]
    /\ hyp \in {"ponci", "dummy", "dummy throws"}
    /\ tasks = <<>>
    /\ group \in [Groups -> {NoGroup, [NoGroup EXCEPT !.state = "thawed"]}]

-----------------------------------------------------------------------------
(* main *)

Goto(p, step) == proc' = [proc EXCEPT ![p] = step]

Unlocked(p) == IF lock = p THEN Nobody ELSE lock

\* The pid file is one of the standard streams, and they are replaced or closed.
LosesLock(o) == "stream closed" \in o /\ o \cap {"log", "daemon"} # {}

Running(k) == tasks[k].end = "running"

\* The process ends, its threads with it; the kernel closes the pid file.
Exit(p) ==
    /\ Goto(p, "gone")
    /\ lock' = Unlocked(p)
    /\ tasks' = [k \in DOMAIN tasks |->
                   IF Running(k) /\ tasks[k].proc = p
                   THEN [tasks[k] EXCEPT !.end = "lost"] ELSE tasks[k]]
    /\ opts' = [opts EXCEPT ![p] = {}]
    /\ UNCHANGED <<hyp, group>>

\* flock with LOCK_NB: another holder makes the launch end at once.
Launch(p, o) ==
    /\ proc[p] = "off" /\ \A q \in 1 .. p - 1 : proc[q] # "off"
    /\ \/ lock = Nobody /\ Goto(p, "locked") /\ lock' = p /\ opts' = [opts EXCEPT ![p] = o]
       \/ Goto(p, "gone") /\ UNCHANGED <<lock, opts>>
    /\ UNCHANGED <<hyp, tasks, group>>

\* The log file becomes file 0, 1 and 2, which closes what was there.
ParseOptions(p) ==
    /\ proc[p] = "locked"
    /\ \/ Exit(p)
       \/ /\ "help" \notin opts[p]
          /\ Goto(p, "started")
          /\ lock' = IF {"log", "stream closed"} \subseteq opts[p] THEN Unlocked(p) ELSE lock
          /\ UNCHANGED <<opts, hyp, tasks, group>>

\* The child keeps the lock the parent has taken, and, without a log file,
\* closes the files 0, 1 and 2.  fork, setsid or chdir may fail.
MutParentUnlocks(p) ==
    /\ proc[p] = "started"
    /\ \/ "daemon" \in opts[p] /\ Exit(p)
       \/ /\ Goto(p, "load")
          /\ lock' = IF "daemon" \in opts[p] THEN Unlocked(p) ELSE lock
          /\ UNCHANGED <<opts, hyp, tasks, group>>

Daemonize(p) ==
    /\ proc[p] = "started"
    /\ \/ "daemon" \in opts[p] /\ Exit(p)
       \/ /\ Goto(p, "load")
          /\ lock' = IF {"daemon", "stream closed"} \subseteq opts[p] /\ "log" \notin opts[p]
                     THEN Unlocked(p) ELSE lock
          /\ opts' = [opts EXCEPT ![p] = IF LosesLock(@) THEN @ ELSE {}]
          /\ UNCHANGED <<hyp, tasks, group>>

\* Task_handler::Task_handler: the configuration is complete or the program ends.
Load(p) ==
    /\ proc[p] = "load"
    /\ Exit(p) \/ (Goto(p, "serve") /\ UNCHANGED <<lock, opts, hyp, tasks, group>>)

Crash(p) == proc[p] \in {"serve", "quit"} /\ Exit(p)

\* A task without concurrent execution keeps the loop from its next message.
LoopFree(p) ==
    proc[p] = "serve" /\ \A k \in DOMAIN tasks : Running(k) /\ tasks[k].proc = p => ~tasks[k].inline

Quit(p) == LoopFree(p) /\ Goto(p, "quit") /\ UNCHANGED <<lock, opts, hyp, tasks, group>>

\* The destructor of Task_handler has waited for the threads.
Leave(p) ==
    /\ proc[p] = "quit"
    /\ \A k \in DOMAIN tasks : tasks[k].proc = p => ~Running(k)
    /\ Exit(p)

-----------------------------------------------------------------------------
(* Tasks *)

\* A task begins.  It and those about the same cgroup are not alone.
Take(p, r, g) ==
    LET Rivals == {k \in DOMAIN tasks : Running(k) /\ tasks[k].group = g}
    IN  /\ LoopFree(p)
        /\ Len(tasks) < MaxTasks
        /\ tasks' = Append([k \in DOMAIN tasks |->
                              [tasks[k] EXCEPT !.alone = @ /\ k \notin Rivals]],
                           [kind |-> r.kind, maps |-> r.maps, inline |-> r.inline, proc |-> p,
                            group |-> g, at |-> 1, end |-> "running", alone |-> Rivals = {}])
        /\ UNCHANGED <<lock, opts, proc, hyp, group>>

\* The calls of the ponci library that a method makes, in their order.
Calls(t) ==
    CASE t.kind = "start"   -> <<"create">> \o (IF "mems" \in t.maps THEN <<"mems">> ELSE <<>>)
                                            \o (IF "cpus" \in t.maps THEN <<"cpus">> ELSE <<>>)
      [] t.kind = "stop"    -> <<"delete">>
      [] t.kind = "repin"   -> <<"cpus">>
      [] t.kind = "suspend" -> <<"freeze", "wait frozen">>
      [] t.kind = "resume"  -> <<"thaw", "wait thawed">>
      [] t.kind \in {"migrate", "evacuate"} -> <<"unsupported">>

\* What call c of task k makes of cgroup G, if it returns.
Effect(c, k, G) ==
    CASE c = "create" -> IF G.state = "none" THEN [NoGroup EXCEPT !.state = "thawed"] ELSE G
      [] c = "mems"   -> [G EXCEPT !.mems = k]
      [] c = "cpus"   -> [G EXCEPT !.cpus = k]
      [] c = "delete" -> NoGroup
      [] c = "freeze" -> [G EXCEPT !.state = IF @ = "frozen" THEN @ ELSE "freezing"]
      [] c = "thaw"   -> [G EXCEPT !.state = "thawed"]
      [] OTHER        -> G

\* The calls that wait read the state of the cgroup until it is the wanted one.
MutNoWait(c, G) == c = "create" \/ (c # "unsupported" /\ G.state # "none")

MutWaitForFrozen(c, G) ==
    MutNoWait(c, G) /\ (c \in {"wait frozen", "wait thawed"} => G.state = "frozen")

Returns(c, G) ==
    CASE c = "create"      -> TRUE
      [] c = "wait frozen" -> G.state = "frozen"
      [] c = "wait thawed" -> G.state = "thawed"
      [] c = "unsupported" -> FALSE
      [] OTHER             -> G.state # "none"

\* A call returns; after the last one the task has succeeded.
Return(k) ==
    LET t == tasks[k]
        c == Calls(t)[t.at]
    IN  /\ Running(k) /\ hyp = "ponci"
        /\ Returns(c, group[t.group])
        /\ group' = [group EXCEPT ![t.group] = Effect(c, k, @)]
        /\ tasks' = IF t.at = Len(Calls(t)) THEN [tasks EXCEPT ![k].end = "success"]
                                            ELSE [tasks EXCEPT ![k].at = @ + 1]
        /\ UNCHANGED <<lock, opts, proc, hyp>>

\* A call throws: the calls before it are not undone.
MutUncaught(k) ==
    Running(k) /\ hyp = "ponci" /\ tasks' = [tasks EXCEPT ![k].end = "uncaught"]
    /\ UNCHANGED <<lock, opts, proc, hyp, group>>

Throw(k) ==
    LET t == tasks[k]
    IN  /\ Running(k) /\ hyp = "ponci"
        /\ \/ Calls(t)[t.at] \notin {"wait frozen", "wait thawed"}
           \/ group[t.group].state = "none"
        /\ tasks' = [tasks EXCEPT ![k].end = "error"]
        /\ UNCHANGED <<lock, opts, proc, hyp, group>>

\* Every method of Dummy_hypervisor returns, or every one throws.
Dummy(k) ==
    /\ Running(k) /\ hyp \in {"dummy", "dummy throws"}
    /\ tasks' = [tasks EXCEPT ![k].end = IF hyp = "dummy" THEN "success" ELSE "error"]
    /\ UNCHANGED <<lock, opts, proc, hyp, group>>

\* The kernel has stopped the last process of a cgroup.
Frozen(g) ==
    /\ group[g].state = "freezing"
    /\ group' = [group EXCEPT ![g].state = "frozen"]
    /\ UNCHANGED <<lock, opts, proc, hyp, tasks>>

TaskStep(k) == k \in DOMAIN tasks /\ (Return(k) \/ Throw(k) \/ Dummy(k))

Next ==
    \/ \E p \in Launches, o \in CmdLines : Launch(p, o)
    \/ \E p \in Launches :
         ParseOptions(p) \/ Daemonize(p) \/ Load(p) \/ Crash(p) \/ Quit(p) \/ Leave(p)
    \/ \E p \in Launches, r \in Requests, g \in Groups : Take(p, r, g)
    \/ \E k \in 1 .. MaxTasks : TaskStep(k)
    \/ \E g \in Groups : Frozen(g)

\* Task threads run, and the kernel goes on freezing.
Spec ==
    /\ Init /\ [][Next]_vars
    /\ \A k \in 1 .. MaxTasks : WF_vars(TaskStep(k))
    /\ \A g \in Groups : WF_vars(Frozen(g))

-----------------------------------------------------------------------------
(* Properties. *)

\* "Check for other instances running on this machine": at most one instance
\* is past the check, across fork, crashes and new launches, unless the pid
\* file of one was opened as a standard stream, which its log file replaces or
\* its start as a daemon closes.
SingleInstance ==
    \A p, q \in Launches :
        p # q /\ proc[p] \in Up /\ proc[q] \in Up =>
            LosesLock(opts[p]) \/ LosesLock(opts[q])

\* What the success of a task says about its cgroup.
Holds(k, G) ==
    CASE tasks[k].kind = "start"   -> /\ G.state # "none"
                                      /\ "mems" \in tasks[k].maps => G.mems = k
                                      /\ "cpus" \in tasks[k].maps => G.cpus = k
      [] tasks[k].kind = "stop"    -> G.state = "none"
      [] tasks[k].kind = "repin"   -> G.cpus = k
      [] tasks[k].kind = "suspend" -> G.state = "frozen"
      [] tasks[k].kind = "resume"  -> G.state = "thawed"
      [] OTHER                     -> FALSE

\* A result "success" of Ponci_hypervisor is true until the next task about
\* the cgroup, whatever crashed or failed half-way before, if no other task
\* about it ran at the same time.
SuccessIsTrue ==
    \A k \in DOMAIN tasks :
        /\ tasks[k].end = "success" /\ hyp = "ponci" /\ tasks[k].alone
        /\ \A j \in k + 1 .. Len(tasks) : tasks[j].group # tasks[k].group
        => Holds(k, group[tasks[k].group])

\* cgroup_wait_frozen and cgroup_wait_thawed have no timeout; a task that is
\* alone with its cgroup ends nevertheless.  (A resume that overlaps a suspend
\* leaves the latter waiting for ever.)
LoneTaskEnds ==
    \A k \in 1 .. MaxTasks :
        LET Lone == k \in DOMAIN tasks /\ Running(k) /\ tasks[k].alone
        IN  Lone ~> ~Lone

=============================================================================
