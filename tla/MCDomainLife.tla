---------------------------- MODULE MCDomainLife ----------------------------
(***************************************************************************)
(* An instance of DomainLife for TLC.                                      *)
(***************************************************************************)
EXTENDS DomainLife

CONSTANTS n1, n2, n3, d1, d2

ThreeNodes == {n1, n2, n3}

\* The configuration leaves one node out.
TwoListed == <<n1, n2>>

TwoDoms == {d1, d2}

Task(kind, node, doms, opts) ==
    [kind |-> kind, node |-> node, doms |-> doms, opts |-> opts]

\* Domain d1 is started on every node, persistent and transient; d2 only
\* takes part in the stop of all domains of a node.
MCRequests ==
    {Task("start", n, {d1}, o) :
        n \in Listed,
        o \in {{"probe"}, {"xml", "transient", "devices"},
               {"xml", "transient", "config"}, {"xml", "config", "devices", "probe"},
               {"transient"}}}
    \cup {Task("start", n1, {d2}, {}), Task("start", n3, {d1}, {"xml"})}
    \cup {Task("stop", n1, {d1}, o) : o \in {{}, {"undefine"}, {"force"}, {"force", "undefine"}}}
    \cup {Task("stop", n3, {d1}, {}), Task("stop", n1, {d1, d2}, {"regex"})}
    \cup {Task(k, n1, {d1}, {}) : k \in {"suspend", "resume", "repin"}}

=============================================================================
