------------------------------ MODULE KrsmModel ------------------------------
(***************************************************************************)
(* The domain model of package closure: the identity of a resource, label  *)
(* selectors, cross-references and the effect classes of an action         *)
(* (src/closure/model.go, selector.go, classify.go).                       *)
(*                                                                         *)
(* Data.  A Ref is a record [kind, group, ns, name, uid] of strings, "" for *)
(* a field Go leaves empty, except that `group` is the pair of the group   *)
(* and the version of its GVK.  A label map is a function from a finite    *)
(* set of keys to strings.  A LabelSelector is a record             *)
(* [present, matchLabels, matchExpressions]: `present` is the nil / non-nil *)
(* distinction of the Go map, matchLabels is the empty function when it is *)
(* FALSE, and matchExpressions is a sequence of [key, op, values], values  *)
(* being a sequence.  An Object is a record                                *)
(* [ref, labels, selector, owners, crossRefs, finalizers]: owners is the   *)
(* set of the owner uids (the only part of an OwnerRef the closure reads), *)
(* crossRefs a set of [kind, ref] and finalizers a set.  An Action is a    *)
(* record [verb, target, cascade, old, new]; old and new are sets of at    *)
(* most one payload [labels, selector, finalizers], empty for a nil        *)
(* pointer.                                                                *)
(***************************************************************************)
EXTENDS Naturals, Sequences, FiniteSets

workloadKinds  == {"Deployment", "ReplicaSet", "StatefulSet", "DaemonSet"}
selectorKinds  == {"Service", "PodDisruptionBudget", "NetworkPolicy"}
mountableKinds == {"ConfigMap", "Secret", "PersistentVolumeClaim"}

(* Neither a group nor a version.                                          *)
noGroup == <<"", "">>

-----------------------------------------------------------------------------
(* Identity.  key is the walk's dedup key, human the fallback identity; the *)
(* two never collide because they have different lengths.                  *)

human(r) == <<r.kind, r.ns, r.name>>
key(r)   == IF r.uid # "" THEN <<"uid", r.uid>> ELSE human(r)

keysOf(refs) == {key(r) : r \in refs}

-----------------------------------------------------------------------------
(* Label maps and selectors.                                               *)

(* Go's m[k]: a missing key reads as the zero value.                       *)
at(m, k) == IF k \in DOMAIN m THEN m[k] ELSE ""

(* m and n have the same size and m's pairs read the same in n: the loop   *)
(* shared by sameLabels and LabelSelector.equal.                           *)
sameMap(m, n) ==
  /\ Cardinality(DOMAIN m) = Cardinality(DOMAIN n)
  /\ \A k \in DOMAIN m : at(n, k) = m[k]

sameLabels(a, b) == sameMap(a, b)

isNil(sel) == ~sel.present /\ sel.matchExpressions = <<>>

isEmptySelector(sel) == DOMAIN sel.matchLabels = {} /\ sel.matchExpressions = <<>>

selectorEqual(s, o) ==
  /\ sameMap(s.matchLabels, o.matchLabels)
  /\ s.matchExpressions = o.matchExpressions

contains(values, v) == \E i \in DOMAIN values : values[i] = v

reqMatches(req, labels) ==
  LET present == req.key \in DOMAIN labels
      listed  == contains(req.values, at(labels, req.key))
  IN  \/ req.op = "In"           /\ present /\ listed
      \/ req.op = "NotIn"        /\ (~present \/ ~listed)
      \/ req.op = "Exists"       /\ present
      \/ req.op = "DoesNotExist" /\ ~present

Matches(sel, labels) ==
  /\ \A k \in DOMAIN sel.matchLabels : at(labels, k) = sel.matchLabels[k]
  /\ \A i \in DOMAIN sel.matchExpressions : reqMatches(sel.matchExpressions[i], labels)

(* Does a selector carried by an object of ownerKind bind these labels?    *)
(* nil binds nothing, {} binds everything except for a Service.            *)
selectorBinds(ownerKind, sel, labels) ==
  /\ ~isNil(sel)
  /\ IF isEmptySelector(sel) THEN ownerKind # "Service" ELSE Matches(sel, labels)

(* A cross-reference names a resource by uid when both sides have one.     *)
crossRefMatches(refd, target) ==
  IF refd.uid # "" /\ target.uid # ""
    THEN refd.uid = target.uid
    ELSE human(refd) = human(target)

-----------------------------------------------------------------------------
(* Effect classes of an action.                                            *)

bothPayloads(a) == {<<o, n>> : o \in a.old, n \in a.new}

selectorChanged(a) ==
  \E p \in bothPayloads(a) : ~selectorEqual(p[1].selector, p[2].selector)

labelsChanged(a) ==
  \E p \in bothPayloads(a) : ~sameLabels(p[1].labels, p[2].labels)

finalizersRemoved(a) ==
  \E p \in bothPayloads(a) : p[1].finalizers \ p[2].finalizers # {}

(* What an Update/Patch that keeps nothing removes: old minus new, with an *)
(* absent new keeping nothing.                                             *)
removedFinalizers(a) ==
  (UNION {o.finalizers : o \in a.old}) \ UNION {n.finalizers : n \in a.new}

(* Slip kept for checking: deleting a mounted object is no mutation of it. *)
classifyForgetsMounts(a) ==
  LET kind == a.target.kind
      when(c, class) == IF c THEN {class} ELSE {}
  IN  when(a.verb = "delete" /\ a.cascade, "CascadeDelete")
      \cup when(a.verb = "delete" /\ kind = "Namespace", "Containment")
      \cup when(kind \in workloadKinds, "Disruptive")
      \cup when(kind \in mountableKinds /\ a.verb \in {"update", "patch"}, "MutateConfig")

classify(a) ==
  LET kind == a.target.kind
      when(c, class) == IF c THEN {class} ELSE {}
      mutating == a.verb \in {"update", "patch"}
  IN  when(a.verb = "delete" /\ a.cascade, "CascadeDelete")
      \cup when(a.verb = "delete" /\ kind = "Namespace", "Containment")
      \cup when(kind \in workloadKinds /\ a.verb \in {"delete", "scale", "restart", "update", "patch"},
                "Disruptive")
      \cup when(kind \in mountableKinds /\ (a.verb = "delete" \/ mutating), "MutateConfig")
      \cup when(kind \in workloadKinds /\ a.verb = "scale", "ScaleEffect")
      \cup when(mutating /\ selectorChanged(a), "MutateSelector")
      \cup when(mutating /\ labelsChanged(a), "MutateLabels")
      \cup when(mutating /\ finalizersRemoved(a), "FinalizerRemoval")
=============================================================================
