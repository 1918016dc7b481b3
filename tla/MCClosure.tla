------------------------------ MODULE MCClosure ------------------------------
(* Closure on clusters of ten objects, for every verb and every kind of    *)
(* target, with cyclic owners and mutation payloads.                       *)
EXTENDS Closure, KrsmWorlds

relabel(l)  == payload(l, nilSelector, {})
reselect(l) == payload(noLabels, selecting(l), {})

Targets == {NS, DEP, RS, POD, SVC, CM, GONE}

Actions ==
  {action("delete", t, c) : t \in Targets, c \in BOOLEAN}
  \cup {action(v, t, TRUE) : v \in {"scale", "restart", "update"}, t \in {DEP, POD, CM}}
  \cup {mutation(POD, {relabel(app("x"))}, {relabel(l)}) : l \in {app("y"), noLabels}}
  \cup {mutation(POD, {relabel(app("x"))}, {})}
  \cup {mutation(PDB, {reselect(app("x"))}, {reselect(app("y"))}),
        mutation(DEP, {reselect(app("y"))}, {reselect(app("x"))})}

(* The Namespace n owns the Namespace m, where one pod lives.              *)
NS2 == refOf("Namespace", "", "m")

NestedNamespaceCalls ==
  {[s |-> NewScanState(<< object(NS), ownedBy(object(NS2), owners),
                          [object(POD) EXCEPT !.labels = app("x")], object(SVC), object(FAR) >>),
    a |-> action("delete", t, cascade)] :
     owners \in {{}, {NS}}, t \in {NS, NS2}, cascade \in BOOLEAN}

MCCalls == {[s |-> c, a |-> x] : c \in clusters, x \in Actions} \cup NestedNamespaceCalls

(* The calls meet what the theorems on mutations and namespaces ask for.   *)
ASSUME MutationsShow == \A c \in MCCalls : ChangesShow(c.a)
ASSUME ReferencesHome == \A c \in MCCalls : ReferencesStayHome(c.s)

(* Payloads with empty label values: {app: ""} to {tier: ""} on a pod.     *)
blank(k) == [k_ \in {k} |-> ""]

BlankLabelCalls ==
  {[s |-> cluster({}, {}, PDB, requiring("app", "Exists", <<>>), l, {}),
    a |-> mutation(POD2, {relabel(l)}, {relabel(m)})] :
     l, m \in {blank("app"), blank("tier"), app("x"), noLabels}}
=============================================================================
