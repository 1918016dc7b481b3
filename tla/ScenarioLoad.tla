----------------------------- MODULE ScenarioLoad -----------------------------
(***************************************************************************)
(* The scenario loader (src/internal/scenario/scenario.go): what becomes   *)
(* of the files of a scenario directory.                                   *)
(*                                                                         *)
(* Data, as the YAML decoder delivers it.  A manifest is a record          *)
(* [apiVersion, kind, ns, name, labels, selector, owners, refs,            *)
(* finalizers]: apiVersion is the pair of its group and version; `selector` *)
(* is what its kind keeps the selector in, a set of at most one [labelled, *)
(* matchLabels, exprs], a wrapper but for a Service, whose flat map is in  *)
(* matchLabels, with some exprs when not all of its values are strings;    *)
(* owners is a set of [kind, name]; refs are the references of its pod     *)
(* specs or scaleTargetRef as [kind, to, name].  A request is a record     *)
(* [verb, target, cascade, old, new], its target [kind, group, ns, name],  *)
(* cascade "unset" when absent, and old and new sets of at most one        *)
(* [labels, selector, finalizers] whose selector is a set of at most one   *)
(* label map.  An entry of scope.yaml or of a contract is a record         *)
(* [dim, kind, group, gvk, ns, name, sel, root]: kind and group at its top *)
(* level, gvk and root sets of at most one, name a name pattern and sel    *)
(* the selector fields at its top level.  Wherever there is a kind, group  *)
(* is the pair of group and version.  "" and {} are absent fields.         *)
(***************************************************************************)
EXTENDS Contract

clusterScopedKinds ==
  {"Namespace", "Node", "PersistentVolume", "ClusterRole", "ClusterRoleBinding",
   "StorageClass", "PriorityClass", "CustomResourceDefinition", "IngressClass",
   "APIService", "ValidatingWebhookConfiguration", "MutatingWebhookConfiguration",
   "RuntimeClass"}

nsOf(kind, ns) ==
  IF kind \in clusterScopedKinds THEN "" ELSE IF ns = "" THEN "default" ELSE ns

(* Slip kept for checking: a uid does not tell two namespaces apart.       *)
uidOfNoNamespace(kind, ns, name) == "uid:" \o kind \o "/" \o name

uidOf(kind, ns, name) == "uid:" \o kind \o "/" \o ns \o "/" \o name

(* The Ref of a kind and a name in a namespace that is already resolved.   *)
refAt(kind_, group_, ns_, name_) ==
  [kind |-> kind_, group |-> group_, ns |-> ns_, name |-> name_, uid |-> uidOf(kind_, ns_, name_)]

(* The Ref of a rawRef.                                                    *)
refOf(raw) == refAt(raw.kind, raw.group, nsOf(raw.kind, raw.ns), raw.name)

-----------------------------------------------------------------------------
(* Selectors.                                                              *)

operatorsKnown(w) ==
  \A i \in DOMAIN w.exprs : w.exprs[i].op \in {"In", "NotIn", "Exists", "DoesNotExist"}

(* The wrapper w of a selector that is there: neither field is {}, which   *)
(* is present and empty, and expressions alone leave the map nil.          *)
matchLabels(w) ==
  [present |-> w.labelled \/ w.exprs = <<>>, matchLabels |-> w.matchLabels,
   matchExpressions |-> w.exprs]

(* A Service's flat map is there even if it is empty.                      *)
selectorFrom(m) ==
  LET w == CHOOSE x \in m.selector : TRUE
  IN  IF m.selector = {} THEN absentSelector
      ELSE IF m.kind = "Service"
        THEN [absentSelector EXCEPT !.present = TRUE, !.matchLabels = w.matchLabels]
      ELSE matchLabels(w)

(* A Service's map must be one of strings, a wrapper's operators be known. *)
selectorParses(m) ==
  \A w \in m.selector : IF m.kind = "Service" THEN w.exprs = <<>> ELSE operatorsKnown(w)

(* In a clause {} is no selector, and not the one that matches all.        *)
scopeSelectorFrom(w) ==
  IF isEmptySelector(matchLabels(w)) THEN absentSelector ELSE matchLabels(w)

-----------------------------------------------------------------------------
(* cluster.yaml: a sequence of manifests.                                  *)

(* References carry the group they are written with, a scale target none.  *)
crossRefsFrom(ns_, m) ==
  {[kind |-> r.kind,
    ref |-> refAt(r.to, IF r.kind = "RefScaleTarget" THEN noGroup ELSE <<"", "v1">>, ns_, r.name)] :
     r \in m.refs}

(* Slip kept for checking: owners are looked for in the namespace the      *)
(* manifest writes, before it is defaulted.                                *)
ownersFromAsWritten(m) == {uidOf(o.kind, m.ns, o.name) : o \in m.owners}

(* An owner is looked for in the namespace of the object it owns.          *)
ownersFrom(m) == {uidOf(o.kind, nsOf(m.kind, m.ns), o.name) : o \in m.owners}

objectFrom(m) ==
  [ref       |-> refAt(m.kind, m.apiVersion, nsOf(m.kind, m.ns), m.name),
   labels    |-> m.labels,
   selector  |-> selectorFrom(m),
   owners    |-> ownersFrom(m),
   crossRefs |-> crossRefsFrom(nsOf(m.kind, m.ns), m),
   finalizers |-> m.finalizers]

(* A document without a kind is skipped; the others keep their places,     *)
(* whose order is all that the State makes of them.                        *)
kinded(docs) == [i \in {j \in DOMAIN docs : docs[j].kind # ""} |-> docs[i]]

clusterParses(docs) == \A i \in DOMAIN kinded(docs) : selectorParses(kinded(docs)[i])

parseCluster(docs) == [i \in DOMAIN kinded(docs) |-> objectFrom(kinded(docs)[i])]

-----------------------------------------------------------------------------
(* request.yaml.                                                           *)

payloadFrom(p) ==
  [labels |-> p.labels, finalizers |-> p.finalizers,
   selector |-> [present |-> p.selector # {}, matchExpressions |-> <<>>,
                 matchLabels |-> IF p.selector = {} THEN absentSelector.matchLabels
                                 ELSE CHOOSE l \in p.selector : TRUE]]

(* The verb is taken as it is written; an absent cascade is a cascade.     *)
parseAction(raw) ==
  [verb    |-> raw.verb,
   target  |-> refOf(raw.target),
   cascade |-> raw.cascade \in {"unset", "true"},
   old     |-> {payloadFrom(p) : p \in raw.old},
   new     |-> {payloadFrom(p) : p \in raw.new}]

-----------------------------------------------------------------------------
(* scope.yaml: a set of entries.                                           *)

(* Only the selector dimension reads the selector fields.                  *)
clauseSelector(e) == IF e.dim = "selector" THEN scopeSelectorFrom(e.sel) ELSE absentSelector

scopeClause(e) ==
  IF e.dim = "ownership"
    THEN OwnershipClause(refOf(CHOOSE r \in e.root : TRUE))
    ELSE [clauseOf(e.dim, e.kind, e.group, nsOf(e.kind, e.ns)) EXCEPT
            !.name = e.name, !.selector = clauseSelector(e)]

entryParses(e) ==
  /\ IF e.dim = "ownership"
       THEN /\ e.root # {}
            /\ e.group = noGroup /\ e.kind = "" /\ e.ns = "" /\ e.name = {}
            /\ operatorsKnown(e.sel) /\ isEmptySelector(scopeSelectorFrom(e.sel))
       ELSE e.root = {} /\ (e.dim = "selector" => operatorsKnown(e.sel))
  /\ valid(scopeClause(e))

scopeParses(entries) == \A e \in entries : entryParses(e)

parseScope(entries) == {scopeClause(e) : e \in entries}

-----------------------------------------------------------------------------
(* taskcontract.yaml: a contract whose allow is a set of entries.  Compile *)
(* judges what is shaped here.                                             *)

gvkOf(e) == IF e.gvk = {} THEN [kind |-> "", group |-> noGroup] ELSE CHOOSE g \in e.gvk : TRUE

(* Slip kept for checking: kind and group are read as scope.yaml has them.  *)
allowClauseFromTop(e) ==
  [clauseOf(e.dim, e.kind, e.group, nsOf(e.kind, e.ns)) EXCEPT
     !.name = e.name, !.selector = clauseSelector(e)]

allowClause(e) ==
  LET gvk == gvkOf(e)
  IN  [clauseOf(e.dim, gvk.kind, gvk.group, nsOf(gvk.kind, e.ns)) EXCEPT
         !.name = e.name, !.selector = clauseSelector(e)]

contractParses(tc) == \A e \in tc.allow : e.dim = "selector" => operatorsKnown(e.sel)

parseTaskContract(tc) ==
  [apiVersion |-> tc.apiVersion, kind |-> tc.kind, maxSeverity |-> tc.maxSeverity,
   allow |-> {allowClause(e) : e \in tc.allow}]
=============================================================================
