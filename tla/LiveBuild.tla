------------------------------ MODULE LiveBuild ------------------------------
(***************************************************************************)
(* The pure half of the live reader (src/internal/cluster): which resources *)
(* of the API it lists, and how the listed items become a State.           *)
(*                                                                         *)
(* Data.  An API resource is a record [group, version, name, kind,         *)
(* namespaced, verbs, subresource, tokens]: `tokens` are the spellings of  *)
(* the kind that ResolveKind accepts (its kind, plural and singular names, *)
(* whatever their case).  A discovery answer is a sequence of them.  A live *)
(* object is a record [group, kind, ns, name, uid, labels, selector,       *)
(* owners, refs, finalizers]: `selector` is a set of at most one           *)
(* [labelled, matchLabels, exprs], empty for an absent one, and `refs` the *)
(* references of its pod spec or scaleTargetRef as [kind, to, name].  An    *)
(* item is a live object with the apiVersion under which it was listed, the *)
(* pair of its group and version.  A Service keeps a flat map where others *)
(* have a wrapper: it is in matchLabels, with some exprs when not all of   *)
(* its values are strings.                                                 *)
(***************************************************************************)
EXTENDS ScanState

readTargets ==
  {"Pod", "Service", "ConfigMap", "Secret", "PersistentVolumeClaim", "Namespace",
   "Deployment", "ReplicaSet", "StatefulSet", "DaemonSet", "Job", "CronJob",
   "PodDisruptionBudget", "NetworkPolicy", "HorizontalPodAutoscaler"}

builtInGroups ==
  {"", "apps", "batch", "policy", "networking.k8s.io", "autoscaling",
   "rbac.authorization.k8s.io", "storage.k8s.io", "apiextensions.k8s.io"}

Operators == {"In", "NotIn", "Exists", "DoesNotExist"}

-----------------------------------------------------------------------------
(* Discovery.                                                              *)

apiVersion(res) == <<res.group, res.version>>

(* Slip kept for checking: a resource with no verbs is taken as unlistable. *)
supportsListStrict(verbs) == "list" \in verbs

supportsList(verbs) == verbs = {} \/ "list" \in verbs

followed(kind, group) == kind \in readTargets \/ group \notin builtInGroups

(* Slip kept for checking: subresources are listed too.                    *)
wantedWithSubresources(res) == followed(res.kind, res.group) /\ supportsList(res.verbs)

wanted(res) == ~res.subresource /\ followed(res.kind, res.group) /\ supportsList(res.verbs)

gvr(res) == <<res.group, res.version, res.name>>

(* The places in the discovery answer that are listed: each wanted group,  *)
(* version and resource once, where it is first named.                     *)
selectTargets(lists) ==
  {i \in DOMAIN lists :
     /\ wanted(lists[i])
     /\ \A j \in DOMAIN lists : wanted(lists[j]) /\ gvr(lists[j]) = gvr(lists[i]) => i <= j}

(* The resources a token may name; ResolveKind takes the first.            *)
named(lists, token) ==
  {i \in DOMAIN lists : ~lists[i].subresource /\ token \in lists[i].tokens}

ResolveKind(lists, token) ==
  lists[CHOOSE i \in named(lists, token) : \A j \in named(lists, token) : i <= j].kind

(* The scope map: whether each discovered version of a kind is namespaced. *)
scopeFromLists(lists) ==
  LET kinds == {i \in DOMAIN lists : ~lists[i].subresource}
      gvk(i) == <<apiVersion(lists[i]), lists[i].kind>>
  IN  [g \in {gvk(i) : i \in kinds} |->
         \E i \in kinds : /\ gvk(i) = g
                          /\ lists[i].namespaced
                          /\ \A j \in kinds : gvk(j) = g => j <= i]

-----------------------------------------------------------------------------
(* From items to Objects.                                                  *)

(* Slip kept for checking: the scope of the kind is not asked for.         *)
resolveNamespaceUnscoped(item, scope) == IF item.ns = "" THEN "default" ELSE item.ns

(* A cluster-scoped kind has no namespace; a kind whose scope is unknown is *)
(* taken for a namespaced one.                                             *)
resolveNamespace(item, scope) ==
  LET gvk == <<item.apiVersion, item.kind>>
  IN  IF gvk \in DOMAIN scope /\ ~scope[gvk] THEN ""
      ELSE IF item.ns = "" THEN "default" ELSE item.ns

(* The identity under which the index files a listed object; the last item *)
(* of the sequence wins.                                                   *)
filedAs(item, scope) == <<item.kind, resolveNamespace(item, scope), item.name>>

newNameUIDIndex(items, scope) ==
  [h \in {filedAs(items[i], scope) : i \in {j \in DOMAIN items : items[j].uid # ""}} |->
     items[CHOOSE i \in DOMAIN items :
             /\ items[i].uid # "" /\ filedAs(items[i], scope) = h
             /\ \A j \in DOMAIN items :
                  items[j].uid # "" /\ filedAs(items[j], scope) = h => j <= i].uid]

uidFor(ix, h) == IF h \in DOMAIN ix THEN ix[h] ELSE ""

(* A wrapper with neither field is present and empty, one with expressions *)
(* alone leaves the map nil.  A Service's map counts as empty unless all   *)
(* its values are strings.                                                 *)
selectorFrom(item) ==
  LET nothing == [k \in {} |-> ""]
      w == CHOOSE x \in item.selector : TRUE
  IN  IF item.selector = {}
        THEN [present |-> FALSE, matchLabels |-> nothing, matchExpressions |-> <<>>]
      ELSE IF item.kind = "Service"
        THEN [present |-> TRUE, matchLabels |-> IF w.exprs = <<>> THEN w.matchLabels ELSE nothing,
              matchExpressions |-> <<>>]
      ELSE [present |-> w.labelled \/ w.exprs = <<>>, matchLabels |-> w.matchLabels,
            matchExpressions |-> w.exprs]

(* A reference is taken to name an object of the referrer's namespace; one *)
(* to a mounted object is to a core kind, a scale target's group is not    *)
(* read.                                                                   *)
crossRef(ref_, ns_, ix) ==
  [kind |-> ref_.kind,
   ref |-> [kind |-> ref_.to, group |-> IF ref_.kind = "RefScaleTarget" THEN noGroup ELSE <<"", "v1">>,
            ns |-> ns_, name |-> ref_.name, uid |-> uidFor(ix, <<ref_.to, ns_, ref_.name>>)]]

buildOne(item, scope, ix) ==
  LET namespace == resolveNamespace(item, scope)
  IN  [ref |-> [kind |-> item.kind, group |-> item.apiVersion, ns |-> namespace,
                name |-> item.name, uid |-> item.uid],
       labels |-> item.labels, selector |-> selectorFrom(item), owners |-> item.owners,
       crossRefs |-> {crossRef(r, namespace, ix) : r \in item.refs},
       finalizers |-> item.finalizers]

(* The whole build is an error when one item lacks a kind or a name, or    *)
(* has a selector with an unknown operator.                                *)
buildable(items) ==
  \A i \in DOMAIN items :
    /\ items[i].kind # "" /\ items[i].name # ""
    /\ items[i].kind = "Service" \/
         \A w \in items[i].selector : \A j \in DOMAIN w.exprs : w.exprs[j].op \in Operators

BuildObjects(items, scope) ==
  LET ix == newNameUIDIndex(items, scope)
  IN  [i \in DOMAIN items |-> buildOne(items[i], scope, ix)]
=============================================================================
