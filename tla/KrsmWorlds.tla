------------------------------ MODULE KrsmWorlds ------------------------------
(***************************************************************************)
(* Small clusters and actions for model checking.  One namespace "n" holds *)
(* a chain Deployment -> ReplicaSet -> Pod, a second Pod, a Service with an *)
(* EndpointSlice, a ConfigMap and an autoscaler; the namespace "m" holds a *)
(* pod with the first one's name.  Which ownerReferences, selectors, labels *)
(* and cross-references are there is the choice of each cluster.           *)
(***************************************************************************)
EXTENDS ScanState

noLabels == [k \in {} |-> ""]
app(v)   == [k \in {"app"} |-> v]

nilSelector    == [present |-> FALSE, matchLabels |-> noLabels, matchExpressions |-> <<>>]
selecting(m)   == [present |-> TRUE, matchLabels |-> m, matchExpressions |-> <<>>]
requiring(key_, op_, values_) ==
  [present |-> FALSE, matchLabels |-> noLabels,
   matchExpressions |-> << [key |-> key_, op |-> op_, values |-> values_] >>]

groupOf(kind) == <<IF kind \in workloadKinds THEN "apps" ELSE "", "v1">>

refOf(kind_, ns_, name_) ==
  [kind |-> kind_, group |-> groupOf(kind_), ns |-> ns_, name |-> name_,
   uid |-> ns_ \o kind_ \o name_]

(* The target of the live command line: no group and no uid.               *)
uidless(r) == [r EXCEPT !.uid = "", !.group = noGroup]

object(r) ==
  [ref |-> r, labels |-> noLabels, selector |-> nilSelector,
   owners |-> {}, crossRefs |-> {}, finalizers |-> {}]

ownedBy(o, refs) == [o EXCEPT !.owners = {r.uid : r \in refs}]

-----------------------------------------------------------------------------
NS    == refOf("Namespace", "", "n")
DEP   == refOf("Deployment", "n", "d")
RS    == refOf("ReplicaSet", "n", "r")
POD   == refOf("Pod", "n", "p")
POD2  == refOf("Pod", "n", "q")
SVC   == refOf("Service", "n", "v")
PDB   == refOf("PodDisruptionBudget", "n", "v")
SLICE == refOf("EndpointSlice", "n", "e")
CM    == refOf("ConfigMap", "n", "c")
HPA   == refOf("HorizontalPodAutoscaler", "n", "h")
FAR   == refOf("Pod", "m", "p")
GONE  == refOf("Deployment", "n", "gone")

(* depOwners closes an ownership cycle when it is {POD}; binder is the      *)
(* object that owns the slice and carries the selector sel; label2 and     *)
(* mounts are the labels and the references of the second pod; cmOwners    *)
(* are the owners of the ConfigMap.                                        *)
cluster(depOwners, cmOwners, binder, sel, label2, mounts) ==
  NewScanState(<<
    object(NS),
    [ownedBy(object(DEP), depOwners) EXCEPT !.selector = selecting(app("x"))],
    ownedBy(object(RS), {DEP}),
    [ownedBy(object(POD), {RS}) EXCEPT !.labels = app("x")],
    [object(POD2) EXCEPT !.labels = label2, !.crossRefs = mounts],
    [object(binder) EXCEPT !.selector = sel],
    ownedBy(object(SLICE), {binder}),
    ownedBy(object(CM), cmOwners),
    [object(HPA) EXCEPT !.crossRefs = {[kind |-> "RefScaleTarget", ref |-> uidless(DEP)]}],
    [object(FAR) EXCEPT !.labels = app("x")] >>)

mounting(r) == {[kind |-> "RefVolume", ref |-> r]}

(* Every ownership choice over one set of bindings, and every choice of    *)
(* bindings over one ownership tree.                                       *)
clusters ==
  {cluster(depOwners, cmOwners, SVC, selecting(app("x")), app("x"), mounting(CM)) :
     depOwners \in {{}, {POD}}, cmOwners \in {{}, {DEP}}}
  \cup
  {cluster({}, {}, binder, sel, label2, mounts) :
     binder \in {SVC, PDB},
     sel \in {nilSelector, selecting(noLabels), selecting(app("x")),
              requiring("app", "NotIn", <<"x">>)},
     label2 \in {app("x"), noLabels},
     mounts \in {{}, mounting(CM)}}

-----------------------------------------------------------------------------
payload(labels_, selector_, finalizers_) ==
  [labels |-> labels_, selector |-> selector_, finalizers |-> finalizers_]

action(verb_, target_, cascade_) ==
  [verb |-> verb_, target |-> target_, cascade |-> cascade_, old |-> {}, new |-> {}]

mutation(target_, old_, new_) ==
  [verb |-> "patch", target |-> target_, cascade |-> FALSE, old |-> old_, new |-> new_]
=============================================================================
