------------------------------- MODULE MCLive -------------------------------
(* Live checks on a small cluster behind an API of up to nine listable     *)
(* resources.                                                              *)
EXTENDS LiveCheck

NoCalls == {}   \* the check makes its own call, from what it read

-----------------------------------------------------------------------------
(* The API.                                                                *)
all == {"get", "list", "watch", "create", "delete"}

resource(group_, version_, name_, kind_) ==
  [group |-> group_, version |-> version_, name |-> name_, kind |-> kind_,
   namespaced |-> kind_ # "Namespace", verbs |-> all, subresource |-> FALSE,
   tokens |-> {kind_, name_}]

pods     == resource("", "v1", "pods", "Pod")
podLogs  == [resource("", "v1", "pods/log", "Pod") EXCEPT !.subresource = TRUE, !.verbs = {}]
services == resource("", "v1", "services", "Service")
spaces   == resource("", "v1", "namespaces", "Namespace")
maps     == resource("", "v1", "configmaps", "ConfigMap")
deploys  == resource("apps", "v1", "deployments", "Deployment")
hpas1    == resource("autoscaling", "v1", "horizontalpodautoscalers", "HorizontalPodAutoscaler")
hpas2    == resource("autoscaling", "v2", "horizontalpodautoscalers", "HorizontalPodAutoscaler")
policies == [resource("networking.k8s.io", "v1", "networkpolicies", "NetworkPolicy") EXCEPT !.verbs = {}]
ingress  == resource("networking.k8s.io", "v1", "ingresses", "Ingress")
reviews  == [resource("authorization.k8s.io", "v1", "subjectaccessreviews", "SubjectAccessReview")
               EXCEPT !.verbs = {"create"}, !.namespaced = FALSE]
widgets  == resource("example.com", "v1", "widgets", "Widget")
knative  == resource("serving.knative.dev", "v1", "services", "Service")

builtIn == <<pods, podLogs, services, spaces, maps, deploys, hpas1, hpas2, policies, ingress, reviews>>

MCDiscoveries == {builtIn, Append(builtIn, widgets)}

-----------------------------------------------------------------------------
(* The objects.                                                            *)
noLabels == [k \in {} |-> ""]
app(v)   == [k \in {"app"} |-> v]

selecting(m) == {[labelled |-> TRUE, matchLabels |-> m, exprs |-> <<>>]}
requiring(op_) ==
  {[labelled |-> FALSE, matchLabels |-> noLabels,
    exprs |-> << [key |-> "app", op |-> op_, values |-> <<"x">>] >>]}

live(group_, kind_, ns_, name_) ==
  [group |-> group_, kind |-> kind_, ns |-> ns_, name |-> name_, uid |-> kind_ \o name_,
   labels |-> noLabels, selector |-> {}, owners |-> {}, refs |-> {}, finalizers |-> {}]

N == live("", "Namespace", "", "n")
D == [live("apps", "Deployment", "n", "d") EXCEPT !.selector = selecting(app("x"))]
W == [live("example.com", "Widget", "n", "w") EXCEPT !.owners = {D.uid}]
P == [live("", "Pod", "n", "p") EXCEPT !.owners = {W.uid}, !.labels = app("x")]
Q == [live("", "Pod", "n", "q") EXCEPT !.labels = app("x"),
                                       !.refs = {[kind |-> "RefVolume", to |-> "ConfigMap", name |-> "c"]}]
V == [live("", "Service", "n", "v") EXCEPT !.selector = selecting(app("x"))]
C == live("", "ConfigMap", "n", "c")
H == [live("autoscaling", "HorizontalPodAutoscaler", "n", "h") EXCEPT
        !.refs = {[kind |-> "RefScaleTarget", to |-> "Deployment", name |-> "d"]}]
K == [live("networking.k8s.io", "NetworkPolicy", "n", "k") EXCEPT !.selector = requiring("In")]
I == live("networking.k8s.io", "Ingress", "n", "i")
F == [live("", "Pod", "m", "p") EXCEPT !.labels = app("x"), !.uid = "far"]
B == [W EXCEPT !.name = "b", !.uid = "Widgetb", !.owners = {}, !.selector = requiring("Gt")]

(* d owns w owns p, and q is selected by d without being owned.            *)
busy  == {N, D, W, P, Q, V, C, H, K, F}
(* Everything in it belongs to d.                                          *)
tidy  == {N, D, W, P, C, F}
(* A custom resource whose selector has an operator of its own.            *)
alien == {N, D, P, B}

MCClusters == {busy, tidy, alien}

-----------------------------------------------------------------------------
deleting(x)     == [gone |-> {x.uid}, put |-> {}]
creating(x)     == [gone |-> {}, put |-> {x}]
changing(x, y)  == [gone |-> {x.uid}, put |-> {y}]

MCWrites ==
  { deleting(V), creating(V), deleting(K), creating(K),
    changing(Q, [Q EXCEPT !.labels = noLabels]),
    changing(P, [P EXCEPT !.uid = "again"]),
    changing(D, [D EXCEPT !.uid = "anew"]) }

checking(verb_, token_, ns_, name_, mode_) ==
  [verb |-> verb_, token |-> token_, ns |-> ns_, name |-> name_, mode |-> mode_]

MCChecks ==
  { checking("delete", "deployments", "n", "d", "enforce"),
    checking("delete", "configmaps", "n", "c", "enforce"),
    checking("scale", "Deployment", "n", "d", "audit"),
    checking("delete", "Namespace", "", "n", "enforce"),
    checking("restart", "Deployment", "", "d", "audit"),
    checking("patch", "Deployment", "n", "d", "audit"),
    checking("delete", "widgets", "n", "w", "enforce"),
    checking("delete", "gadgets", "n", "g", "audit") }

(* What is proved of a quiet read and of steady collateral assumes this.   *)
ASSUME ServerSane == Sane(MCDiscoveries, MCClusters, MCWrites) /\ OneGroup(MCDiscoveries)

-----------------------------------------------------------------------------
(* Two objects escape one after the other, each while its kind is not being *)
(* listed.                                                                 *)
TornDiscoveries == {<<pods, services, deploys, policies>>}
TornClusters    == {{D, [P EXCEPT !.owners = {D.uid}], K}}
TornWrites      == {creating(V), deleting(K)}
TornChecks      == {checking("delete", "deployments", "n", "d", "enforce")}

(* A Service of another group with the name of a core Service.             *)
GroupDiscoveries == {<<pods, services, knative>>}
GroupClusters ==
  {{P, V, [live("serving.knative.dev", "Service", "n", "v") EXCEPT !.uid = "kn"]}, {P, V}}
GroupChecks == {checking(v, "services", "n", "v", "enforce") : v \in {"delete", "restart"}}

(* A Namespace with an Ingress.                                            *)
SpaceDiscoveries == {Append(builtIn, widgets)}
SpaceClusters == {busy, busy \cup {I}}
SpaceChecks   == {checking("delete", "namespaces", "", "n", "enforce")}

(* What is proved of a torn read assumes this too.                         *)
ASSUME ServerOrderly ==
  /\ Sane(TornDiscoveries, TornClusters, TornWrites)
  /\ Orderly(TornDiscoveries, (UNION TornClusters) \cup UNION {w.put : w \in TornWrites})

NoWrites == {}
=============================================================================
