---------------------------- MODULE MCNodeConfig ----------------------------
(***************************************************************************)
(* The topology files of the runs of NodeConfig: for every kind, the       *)
(* settings that bear on its configuration spread over the four levels,    *)
(* and links with pairs of interface names; for one kind, lists on every   *)
(* level.                                                                  *)
(***************************************************************************)
EXTENDS NodeConfig

Kinds == DOMAIN Registry

File(node, group, kind, defaults, k) ==
    [Node |-> node, Groups |-> [g |-> group], Kinds |-> (k :> kind), Defaults |-> defaults,
     Links |-> << >>, CA |-> "lab"]

(* Everything on the node.                                                  *)
OnNode(k, d) == File([d EXCEPT !.kind = k], NodeDefinition, NodeDefinition, NodeDefinition, k)

(* The kind comes from the group, the startup-config from the defaults, the *)
(* rest from the kind; the defaults enforce what the kind may revoke.       *)
Spread(k, d) ==
    File([NodeDefinition EXCEPT !.group = "g"],
         [NodeDefinition EXCEPT !.kind = k],
         [d EXCEPT !.startup = Unset],
         [NodeDefinition EXCEPT !.startup = d.startup, !.enforce = "true"], k)

(* A node without a body: its kind is that of the defaults.                 *)
Null(k, d) == File(NullDefinition, NodeDefinition, d, [NodeDefinition EXCEPT !.kind = k], k)

Settings ==
    {[NodeDefinition EXCEPT !.startup = s, !.enforce = e, !.suppress = p, !.issue = "true",
                            !.license = "lic"] :
        s \in {Unset, "full", "embedded"}, e \in {Unset, "true", "false"}, p \in {Unset, "true"}}

ConfigFiles ==
    UNION {{OnNode(k, d), Spread(k, d), Null(k, d)} : k \in Kinds, d \in Settings}

Names == [form : Forms, port : 0..3]

LinkFiles ==
    {[OnNode(k, [NodeDefinition EXCEPT !.networkMode = m]) EXCEPT !.Links = <<a, b>>] :
        k \in Kinds, a \in Names, b \in {[form |-> "eth", port |-> 1], [form |-> "short", port |-> 1]},
        m \in {Unset, "none"}}

Bind(src) == [src |-> src, dst |-> "/cfg"]
Lists(S) == {<< >>} \cup {<<x>> : x \in S}

ListFiles ==
    {[File([NodeDefinition EXCEPT !.kind = "linux", !.group = "g", !.stage.waitFor = w1],
           [NodeDefinition EXCEPT !.stage.waitFor = w2, !.username = "u"],
           [NodeDefinition EXCEPT !.stage.waitFor = w3],
           [NodeDefinition EXCEPT !.stage.waitFor = <<"n1", "n2">>, !.password = "p"],
           "linux") EXCEPT !.CA = ca] :
        w1 \in Lists({"n1", "n2"}), w2 \in Lists({"n2"}), w3 \in Lists({"n1", "n3"}),
        ca \in {"lab", "external"}}

UnknownKind == {OnNode("unknown", NodeDefinition)}

AllFiles == ConfigFiles \cup LinkFiles \cup ListFiles \cup UnknownKind

(* SR Linux with a configuration in CLI format in the topology file.        *)
SrlFiles == {OnNode("nokia_srlinux", [NodeDefinition EXCEPT !.startup = "embedded", !.enforce = "true"])}
=============================================================================
