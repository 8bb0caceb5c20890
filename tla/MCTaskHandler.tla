--------------------------- MODULE MCTaskHandler ---------------------------
(***************************************************************************)
(* Instances of TaskHandler for TLC.                                       *)
(***************************************************************************)
EXTENDS TaskHandler

Container(kind, conc, subs) == [kind |-> kind, conc |-> conc, subs |-> subs]

\* Containers of up to two tasks, run inside or beside the loop, with launched
\* and deferred tasks in either order, and the messages without tasks.
MCShapes ==
    {Container("malformed", TRUE, <<>>), Container("empty", TRUE, <<>>),
     Container("quit", TRUE, <<>>),
     Container("tasks", TRUE, <<TRUE, FALSE>>),
     Container("tasks", FALSE, <<FALSE, FALSE>>),
     Container("evacuate", TRUE, <<>>)}

\* For the runs about progress and the end of the process: the messages that
\* start threads, hold up the loop or end it.
MCThreadShapes ==
    {Container("quit", TRUE, <<>>), Container("tasks", TRUE, <<TRUE, FALSE>>),
     Container("tasks", FALSE, <<FALSE, TRUE>>),
     Container("evacuate", FALSE, <<>>)}

=============================================================================
