----------------------------- MODULE AffectedSet -----------------------------
(***************************************************************************)
(* The affected-resource closure said without a walk: the least set of live *)
(* objects that holds the target and is closed under the relations the     *)
(* action licenses, together with the objects that bind one of its pods.   *)
(* The relations are stated between objects of the cluster, not between    *)
(* refs that are looked up.                                                *)
(***************************************************************************)
EXTENDS ScanState

-----------------------------------------------------------------------------
(* The relations of the live graph.                                        *)

Owns(o, child) == o.ref.uid # "" /\ o.ref.uid \in child.owners

Contains(n, o) ==
  n.ref.kind = "Namespace" /\ o.ref.ns = n.ref.name /\ o.ref.kind # "Namespace"

SelectsPod(ns, ownerKind, sel, p) ==
  p.ref.kind = "Pod" /\ p.ref.ns = ns /\ selectorBinds(ownerKind, sel, p.labels)

BindsLabels(b, ns, labels) ==
  /\ b.ref.kind \in selectorKinds
  /\ b.ref.ns = ns
  /\ selectorBinds(b.ref.kind, b.selector, labels)

BindsPod(b, p) == p.ref.kind = "Pod" /\ BindsLabels(b, p.ref.ns, p.labels)

RefersTo(o, target, scaling) ==
  \E cr \in o.crossRefs : (cr.kind = "RefScaleTarget") = scaling /\ crossRefMatches(cr.ref, target.ref)

-----------------------------------------------------------------------------
(* o affects p under the effect classes of the action.                     *)
Affects(classes, o, p) ==
  \/ "CascadeDelete" \in classes /\ Owns(o, p)
  \/ "Containment" \in classes /\ Contains(o, p)
  \/ /\ "Disruptive" \in classes
     /\ o.ref.kind \in workloadKinds
     /\ SelectsPod(o.ref.ns, o.ref.kind, o.selector, p)
  \/ "ScaleEffect" \in classes /\ o.ref.kind \in workloadKinds /\ RefersTo(p, o, TRUE)
  \/ "MutateConfig" \in classes /\ o.ref.kind \in mountableKinds /\ RefersTo(p, o, FALSE)

(* p is affected because the action changes the target's own selector or   *)
(* labels: it is bound before or after.                                    *)
AffectedByMutation(a, p) ==
  \E payload \in a.old \cup a.new :
    \/ /\ "MutateSelector" \in classify(a)
       /\ SelectsPod(a.target.ns, a.target.kind, payload.selector, p)
    \/ /\ "MutateLabels" \in classify(a)
       /\ BindsLabels(p, a.target.ns, payload.labels)

Seeds(s, a) ==
  IF tracked(s, a.target)
    THEN {lookup(s, a.target)} \cup {p \in s.objs : AffectedByMutation(a, p)}
    ELSE {}

Edges(s, a) ==
  LET classes == classify(a) IN {e \in s.objs \X s.objs : Affects(classes, e[1], e[2])}

(* The sets of objects that hold the seeds and are closed under the        *)
(* relations, drawn from the objects an edge leads to; the least of them   *)
(* is their intersection.                                                  *)
Touchable(s, a) == Seeds(s, a) \cup {e[2] : e \in Edges(s, a)}

ClosedSets(s, a) ==
  LET edges == Edges(s, a)
      seeds == Seeds(s, a)
  IN  {X \in SUBSET Touchable(s, a) :
         seeds \subseteq X /\ \A e \in edges : e[1] \in X => e[2] \in X}

Reached(s, a) ==
  LET closed == ClosedSets(s, a) IN {o \in Touchable(s, a) : \A X \in closed : o \in X}

Bindings(s, X) == {b \in s.objs : \E p \in X : BindsPod(b, p)}

AffectedObjects(s, a) ==
  LET reached == Reached(s, a) IN reached \cup Bindings(s, reached)
=============================================================================
