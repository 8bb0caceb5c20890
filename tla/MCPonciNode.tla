---------------------------- MODULE MCPonciNode ----------------------------
(***************************************************************************)
(* An instance of PonciNode for TLC.                                       *)
(***************************************************************************)
EXTENDS PonciNode

Request(kind, maps, inline) == [kind |-> kind, maps |-> maps, inline |-> inline]

\* Every task runs in a thread of its own, suspend also in the loop.
MCRequests ==
    {Request("start", m, FALSE) : m \in {{}, {"mems", "cpus"}}}
    \cup {Request(k, {}, FALSE) : k \in Kinds \ {"start"}}
    \cup {Request("suspend", {}, TRUE)}

\* In the foreground and as a daemon; where the pid file is a standard stream,
\* the log file replaces it, the daemon closes it, and otherwise it stays.
MCCmdLines ==
    {{"help"}, {}, {"daemon"},
     {"stream closed"}, {"daemon", "stream closed"}, {"log", "stream closed"}}

============================================================================
