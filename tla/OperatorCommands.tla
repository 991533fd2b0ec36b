-------------------------- MODULE OperatorCommands --------------------------
(***************************************************************************)
(* The commands about namespaces, search attributes and clusters           *)
(* (commands.operator_namespace.go, commands.operator_search_attribute.go and *)
(* commands.operator_cluster.go). The word "argument" among the flags is the *)
(* namespace given as an argument.                                         *)
(***************************************************************************)
EXTENDS CommandHelpers

NamespaceCreateFlags ==
  Takes({}, {"active-cluster", "cluster", "data", "description", "email", "global",
    "history-archival-state", "history-uri", "retention", "visibility-archival-state",
    "visibility-uri"})

NamespaceDeleteFlags == Takes({}, {"yes"})

NamespaceDescribeFlags == Takes({}, {"namespace-id"})

NamespaceListFlags == NoFlags

NamespaceUpdateFlags ==
  Takes({}, {"active-cluster", "cluster", "data", "description", "email",
    "promote-global", "history-archival-state", "history-uri", "replication-state",
    "retention", "visibility-archival-state", "visibility-uri"})

AttributeCreateFlags == Takes({"name", "type"}, {})

AttributeListFlags == NoFlags

AttributeRemoveFlags == Takes({"name"}, {"yes"})

ClusterDescribeFlags == Takes({}, {"detail"})

ClusterHealthFlags == NoFlags

ClusterListFlags == Takes({}, {"limit"})

ClusterRemoveFlags == Takes({"name"}, {})

ClusterSystemFlags == NoFlags

ClusterUpsertFlags ==
  Takes({"frontend-address"}, {"enable-connection", "enable-replication"})

-----------------------------------------------------------------------------

\* getNSFromFlagOrArg0: an argument, which is deprecated, or the flag.
NamespaceOnce(f) == Check(~({"argument", "namespace"} \subseteq f))

NamespaceCreate(f) ==
  NamespaceOnce(f) \o Dial \o Parse(f, {"data"})
  \o Send("RegisterNamespace", AllFlags(NamespaceCreateFlags), {})

\* promptString: the name has to be typed.
NamespaceDelete(f) ==
  Dial \o NamespaceOnce(f) \o Ask \o Send("DeleteNamespace", {}, {})
  \o When("output" \in f, Show({}))

\* One of the identifier and the name; the default name is no name.
NamespaceDescribe(f) ==
  Dial \o NamespaceOnce(f)
  \o Check(~("namespace-id" \in f /\ {"argument", "namespace"} \cap f # {}))
  \o Read("DescribeNamespace", {"namespace-id"}) \o Show({})

\* Listed until the last page, one document for each namespace.
NamespaceList(f) == Dial \o Read("ListNamespaces", {}) \o Show({})

\* Promoting and failing over ask for that alone; otherwise what was read is
\* written back with what was given.
NamespaceUpdate(f) ==
  Dial \o NamespaceOnce(f)
  \o Check(~({"promote-global", "active-cluster"} \subseteq f))
  \o CASE "promote-global" \in f -> Send("UpdateNamespace", {"promote-global"}, {})
       [] "active-cluster" \in f -> Send("UpdateNamespace", {"active-cluster"}, {})
       [] OTHER ->
            Read("DescribeNamespace", {}) \o Parse(f, {"data"})
            \o Send("UpdateNamespace",
                    AllFlags(NamespaceUpdateFlags) \ {"promote-global", "active-cluster"}, {})
  \o When("output" \in f, Show({}))

-----------------------------------------------------------------------------

\* An attribute that exists keeps its type.  The i-th type goes with the i-th
\* name: a type too many ends the process, which panics, and a name too many is
\* forgotten.
AttributeCreate(f) ==
  Dial \o Read("ListSearchAttributes", {}) \o Parse(f, {"type"})
  \o Expect("no attribute of that name has another type")
  \o Check("more_types" \notin f)
  \o Send("AddSearchAttributes", {"type"} \cup (IF "more_names" \in f THEN {} ELSE {"name"}), {})

AttributeRemove(f) == Dial \o Ask \o Send("RemoveSearchAttributes", {"name"}, {})

AttributeList(f) == Dial \o Read("ListSearchAttributes", {}) \o Show({})

-----------------------------------------------------------------------------

ClusterHealth(f) == Dial \o Read("CheckHealth", {}) \o When("output" \in f, Show({}))

ClusterSystem(f) == Dial \o Read("GetSystemInfo", {}) \o Show({})

ClusterDescribe(f) ==
  Dial \o Read("GetClusterInfo", {}) \o Show(IF "output" \in f THEN {} ELSE {"detail"})

ClusterList(f) == Dial \o Read("ListClusters", {"limit"}) \o Show({})

ClusterUpsert(f) ==
  Dial \o Send("AddOrUpdateRemoteCluster", AllFlags(ClusterUpsertFlags), {})
  \o When("output" \in f, Show({}))

\* Nothing is asked.
ClusterRemove(f) ==
  Dial \o Send("RemoveRemoteCluster", {"name"}, {}) \o When("output" \in f, Show({}))

-----------------------------------------------------------------------------
(* The commands of this family, by name.                                   *)

Commands == [
  namespace_create |-> NamespaceCreateFlags, namespace_delete |-> NamespaceDeleteFlags,
  namespace_describe |-> NamespaceDescribeFlags, namespace_list |-> NamespaceListFlags,
  namespace_update |-> NamespaceUpdateFlags, attribute_create |-> AttributeCreateFlags,
  attribute_list |-> AttributeListFlags, attribute_remove |-> AttributeRemoveFlags,
  cluster_describe |-> ClusterDescribeFlags, cluster_health |-> ClusterHealthFlags,
  cluster_list |-> ClusterListFlags, cluster_remove |-> ClusterRemoveFlags,
  cluster_system |-> ClusterSystemFlags, cluster_upsert |-> ClusterUpsertFlags]

Handler(name, f) ==
  CASE name = "namespace_create" -> NamespaceCreate(f)
    [] name = "namespace_delete" -> NamespaceDelete(f)
    [] name = "namespace_describe" -> NamespaceDescribe(f)
    [] name = "namespace_list" -> NamespaceList(f)
    [] name = "namespace_update" -> NamespaceUpdate(f)
    [] name = "attribute_create" -> AttributeCreate(f)
    [] name = "attribute_list" -> AttributeList(f)
    [] name = "attribute_remove" -> AttributeRemove(f)
    [] name = "cluster_describe" -> ClusterDescribe(f)
    [] name = "cluster_health" -> ClusterHealth(f)
    [] name = "cluster_list" -> ClusterList(f)
    [] name = "cluster_remove" -> ClusterRemove(f)
    [] name = "cluster_system" -> ClusterSystem(f)
    [] name = "cluster_upsert" -> ClusterUpsert(f)

=============================================================================
