--------------------------- MODULE MCNodeScheduler ---------------------------
(***************************************************************************)
(* Instances of NodeScheduler for TLC: the sets of topologies its runs     *)
(* start from.                                                             *)
(***************************************************************************)
EXTENDS NodeScheduler, TLC

CONSTANTS n1, n2, n3

Symmetry == Permutations(Node)

Plain == [n \in Node |-> NoNode]

Topo(static, waitFor, networkMode, execs) ==
    [static |-> static, waitFor |-> waitFor, networkMode |-> networkMode, execs |-> execs]

Wait(node, at, dependee, until) ==
    [node |-> node, stage |-> at, dependee |-> dependee, until |-> until]

\* One wait-for entry of any kind, on its own or together with static addresses
\* or with a shared network namespace, external owners and self references too.
SingleWait ==
    LET waits == {{}} \cup {{w} : w \in WaitFor}
    IN  {Topo(s, W, Plain, {}) : W \in waits, s \in SUBSET Node}
        \cup {Topo({}, W, [Plain EXCEPT ![n] = o], {}) :
                  W \in waits, n \in Node, o \in Node \cup {Absent}}

\* Two wait-for entries between different nodes, and execs in every stage.
DoubleWait ==
    {Topo({}, {v, w}, Plain, x) :
        v, w \in {u \in WaitFor : u.dependee \in Node \ {u.node}},
        x \in {{}, Node \X Stage}}

Pairs == SingleWait \cup DoubleWait

\* Chains, fans and joins over three nodes in which each stage is waited for.
Shapes ==
    {{Wait(n1, "create", n2, s), Wait(n2, "create", n3, t)} : s, t \in Stage}
    \cup {{Wait(n1, "create", n2, s), Wait(n1, t, n3, s)} : s \in Stage, t \in {"create", "create-links"}}
    \cup {{Wait(n1, "configure", n3, s), Wait(n2, "create-links", n3, s)} : s \in Stage}

Triples == {Topo(s, W, Plain, {}) : W \in Shapes, s \in {{}, {n3}}}

\* Chains and joins over three nodes in which at most n1 waits in a later stage
\* than create, where it holds a worker: what two workers can cope with.
OneLateWaiter ==
    {Topo({}, W, Plain, {}) : W \in
        {{Wait(n1, t, n2, s), Wait(n2, "create", n3, u)} :
            s, t \in Stage, u \in {"create", "configure", "exit"}}
        \cup {{Wait(n1, t, n2, s), Wait(n1, "create", n3, "healthy")} : s, t \in Stage}}

\* n1 and n2 wait in a later stage for n3, which has no worker yet.
LateWaits == {Topo({}, {Wait(n1, "create-links", n3, "create"), Wait(n2, "configure", n3, "create")},
                   Plain, {})}

\* n1 waits for n2 to be created or to be healthy.
OnePair == {Topo({}, {Wait(n1, "create", n2, s)}, Plain, {}) : s \in {"create", "healthy"}}
=============================================================================
