------------------------------ MODULE Topology ------------------------------
(***************************************************************************)
(* How the settings of a node are put together from the four levels of a   *)
(* topology file: the node's own definition, its group's, its kind's and   *)
(* the defaults. A topology is a record                                    *)
(*                                                                         *)
(*   [Defaults |-> d, Kinds |-> (kind -> d), Groups |-> (group -> d),      *)
(*    Node |-> d]                                                          *)
(*                                                                         *)
(* for one node, and a definition d is a NodeDefinition whose field is     *)
(* Unset, or empty, where the file does not mention it. The definition of  *)
(* a node is null when the file names the node and nothing else.           *)
(***************************************************************************)
EXTENDS Integers, SequencesExt

Unset == "unset"

EmptyStage == [waitFor |-> << >>, execs |-> << >>]

NodeDefinition ==
    [null |-> FALSE, kind |-> Unset, group |-> Unset, startup |-> Unset, enforce |-> Unset,
     suppress |-> Unset, license |-> Unset, networkMode |-> Unset, issue |-> Unset,
     username |-> Unset, password |-> Unset, binds |-> << >>, env |-> << >>,
     stage |-> EmptyStage]

(* n1: without a body.                                                      *)
NullDefinition == [NodeDefinition EXCEPT !.null = TRUE]

FirstSet(values, otherwise) ==
    LET set == {i \in DOMAIN values : values[i] # Unset}
    IN IF set = {} THEN otherwise ELSE values[Min(set)]

GetKind(t, kind) == IF kind \in DOMAIN t.Kinds THEN t.Kinds[kind] ELSE NodeDefinition

GetGroup(t, group) == IF group \in DOMAIN t.Groups THEN t.Groups[group] ELSE NodeDefinition

(* The kind of the node, of the group the node itself names, of the group   *)
(* the defaults name, of the defaults. The group of the kind cannot matter. *)
GetNodeKind(t) ==
    FirstSet(<<t.Node.kind, GetGroup(t, t.Node.group).kind,
               GetGroup(t, t.Defaults.group).kind, t.Defaults.kind>>, Unset)

(* A null node has the group of the defaults, whatever its kind says.       *)
GetNodeGroup(t) ==
    IF t.Node.null THEN t.Defaults.group
    ELSE FirstSet(<<t.Node.group, GetKind(t, GetNodeKind(t)).group, t.Defaults.group>>, Unset)

(* The definitions that bear on the node, the most specific one first.      *)
Levels(t) ==
    <<t.Node, GetGroup(t, GetNodeGroup(t)), GetKind(t, GetNodeKind(t)), t.Defaults>>

(* Mutant: the defaults are not consulted.                                  *)
getFieldNoDefaults(t, field) ==
    FirstSet([i \in 1..3 |-> Levels(t)[i][field]], Unset)

getField(t, field) ==
    FirstSet([i \in 1..4 |-> Levels(t)[i][field]], Unset)

(* The getter of the fields that are pointers goes to the defaults at once  *)
(* when the node is null.                                                   *)
getFieldPtr(t, field, lastResort) ==
    IF t.Node.null THEN FirstSet(<<t.Defaults[field]>>, lastResort)
    ELSE FirstSet([i \in 1..4 |-> Levels(t)[i][field]], lastResort)

(* The getters of single-valued fields: one stands for the others of its    *)
(* sort (type, image, entrypoint, runtime, memory, ...).                    *)
GetNodeStartupConfig(t) == getField(t, "startup")
GetNodeLicense(t) == getField(t, "license")
GetNodeNetworkMode(t) == getField(t, "networkMode")
GetNodeEnforceStartupConfig(t) == getFieldPtr(t, "enforce", "false")
GetNodeSuppressStartupConfig(t) == getFieldPtr(t, "suppress", "false")

----------------------------------------------------------------------------
(* Lists and maps are merged, from the defaults to the node.                *)

(* The loops that add to s what it does not have yet of the sequence new.   *)
AppendMissing(s, new) ==
    LET merged[i \in 0..Len(new)] ==
            IF i = 0 THEN s
            ELSE IF new[i] \in ToSet(merged[i-1]) THEN merged[i-1]
            ELSE Append(merged[i-1], new[i])
    IN merged[Len(new)]

MergeStringSlices(ss) == AppendMissing(<< >>, FlattenSeq(ss))

mergeStringSliceFields(t, field) ==
    MergeStringSlices([i \in 1..4 |-> Levels(t)[5 - i][field]])

(* A map is a sequence of pairs [key, value] with distinct keys. Merging    *)
(* maps is folding @@ over them: a later map wins.                          *)
MergeStringMaps(maps) ==
    LET pairs == FlattenSeq(maps)
    IN {pairs[i] : i \in {i \in DOMAIN pairs :
                             \A j \in DOMAIN pairs : j > i => pairs[j].key # pairs[i].key}}

mergeStringMapFields(t, field) ==
    MergeStringMaps([i \in 1..4 |-> Levels(t)[5 - i][field]])

(* The binds by destination: of the merged list the last one counts.        *)
GetNodeBinds(t) ==
    LET merged == mergeStringSliceFields(t, "binds")
    IN {merged[i] : i \in {i \in DOMAIN merged :
                              \A j \in DOMAIN merged : j > i => merged[j].dst # merged[i].dst}}

(* The environment: files first, the env of the four levels over it.        *)
GetNodeEnv(t) == mergeStringMapFields(t, "env")

(* Mutant: dependencies are appended as the commands are.                   *)
MergeStageAppends(s, sb) ==
    [waitFor |-> s.waitFor \o sb.waitFor, execs |-> s.execs \o sb.execs]

(* StageBase.Merge: a dependency is added once, commands are appended.      *)
MergeStage(s, sb) ==
    [waitFor |-> AppendMissing(s.waitFor, sb.waitFor), execs |-> s.execs \o sb.execs]

GetStages(t) ==
    LET merged(s, i) == MergeStage(s, Levels(t)[i].stage)
    IN merged(merged(merged(merged(EmptyStage, 4), 3), 2), 1)

----------------------------------------------------------------------------

(* CertificateConfig.Merge over the levels: the last level that says so.    *)
GetCertificateConfig(t) ==
    FirstSet([i \in 1..4 |-> Levels(t)[i].issue], "false")

credentialsPresent(d) == d.username # Unset \/ d.password # Unset

(* User name and password come from the same level.                         *)
resolveTopologyCredentials(t) ==
    LET present == SelectSeq(Levels(t), credentialsPresent)
    IN IF present = << >> THEN NodeDefinition ELSE Head(present)

(* createNodeCfg fills what the topology leaves open from the registry.     *)
Credentials(t, registry) ==
    LET d == resolveTopologyCredentials(t)
    IN [username |-> FirstSet(<<d.username>>, registry),
        password |-> FirstSet(<<d.password>>, registry)]

=============================================================================
