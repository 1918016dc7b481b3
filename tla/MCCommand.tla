------------------------------ MODULE MCCommand ------------------------------
(* Runs of krsm on small scenario directories and on a small live cluster. *)
EXTENDS Command, MCLive

NoChecks == {}    \* the command line makes the check
NoClusters == {}  \* and each start names its cluster

-----------------------------------------------------------------------------
(* Command lines.                                                          *)
w(v) == word(text(v))
at_(k, v) == word(path(k, v))

krsm(rest) == <<w("check")>> \o rest
inMode(m) == <<flag("mode"), w(m)>>
onCluster == <<flag("context"), w("c")>>

offline == {krsm(inMode("enforce") \o <<w("dir")>>), krsm(<<flagWith("plain", text("true")), w("dir")>>)}

misread ==
  { <<>>, <<w("version")>>, <<w("chek")>>, krsm(<<>>), krsm(<<flag("help")>>),
    krsm(<<w("dir"), flag("plain")>>), krsm(<<w("dir")>> \o inMode("enforce")),
    krsm(inMode("audit") \o inMode("enforce") \o <<w("dir")>>),
    krsm(<<flagWith("mode", text("block")), w("dir")>>),
    krsm(<<flagWith("plain", text("yes")), w("dir")>>), krsm(<<flagWith("help", text("no"))>>),
    krsm(<<flag("strict"), w("dir")>>), krsm(<<w("dir"), flag("mode")>>), krsm(<<flag("mode")>>),
    krsm(onCluster \o <<w("delete")>>),
    krsm(onCluster \o <<w("delete"), w("d")>>),
    krsm(onCluster \o <<w("delete"), at_("deployments", "d"), flag("n")>>),
    krsm(onCluster \o <<w("delete"), flag("n"), at_("deployments", "d")>>),
    krsm(onCluster \o <<w("delete"), at_("deployments", "d")>> \o inMode("enforce")),
    krsm(onCluster \o <<flag("namespace"), w("n"), w("delete"), at_("deployments", "d")>>) }

online ==
  { krsm(onCluster \o inMode("enforce") \o
           <<w("delete"), at_("deployments", "d"), flag("n"), w("n")>>),
    krsm(<<flagWith("kubeconfig", text("k"))>> \o
           <<flag("n"), w("m"), w("delete"), flagWith("n", text("n")), at_("pods", "p")>>),
    krsm(onCluster \o <<flag("n"), w("m"), w("restart"), at_("Deployment", "d")>>),
    krsm(onCluster \o <<flag("n"), at_("m", "n"), w("restart"), at_("Deployment", "d")>>),
    krsm(onCluster \o <<w("patch"), at_("Deployment", "d"), flag("n"), w("n")>>),
    krsm(onCluster \o <<w("delete"), at_("gadgets", "g"), flag("namespace"), w("n")>>) }

-----------------------------------------------------------------------------
(* Files.                                                                  *)
ok(body_)  == [status |-> "ok", body |-> body_]
absent     == [status |-> "absent", body |-> {}]
unreadable == [status |-> "unreadable", body |-> {}]
malformed  == [status |-> "malformed", body |-> {}]

core     == <<"", "v1">>
apps1    == <<"apps", "v1">>
scaling2 == <<"autoscaling", "v2">>
net1     == <<"networking.k8s.io", "v1">>

manifest(apiVersion_, kind_, ns_, name_) ==
  [apiVersion |-> apiVersion_, kind |-> kind_, ns |-> ns_, name |-> name_,
   labels |-> noLabels, selector |-> {}, owners |-> {}, refs |-> {}, finalizers |-> {}]

by(kind_, name_) == {[kind |-> kind_, name |-> name_]}

dep == [manifest(apps1, "Deployment", "", "d") EXCEPT !.selector = selecting(app("x"))]
pod == [manifest(core, "Pod", "", "p") EXCEPT !.labels = app("x"), !.owners = by("Deployment", "d"),
                                              !.refs = {[kind |-> "RefVolume", to |-> "ConfigMap", name |-> "c"]}]
twin == [manifest(core, "Pod", "m", "p") EXCEPT !.labels = app("x")]
svc == [manifest(core, "Service", "default", "v") EXCEPT !.selector = selecting(app("x"))]
cfg == manifest(core, "ConfigMap", "default", "c")
far == manifest(core, "ConfigMap", "m", "c")
hpa == [manifest(scaling2, "HorizontalPodAutoscaler", "", "h") EXCEPT
          !.refs = {[kind |-> "RefScaleTarget", to |-> "Deployment", name |-> "d"]}]
space == manifest(core, "Namespace", "", "default")
nameless == manifest(core, "", "", "")
odd == [manifest(net1, "NetworkPolicy", "", "o") EXCEPT !.selector = requiring("Gt")]
wrapped == [svc EXCEPT !.selector = requiring("In")]

manifests == ok(<<space, nameless, dep, pod, twin, svc, cfg, far, hpa>>)

(* A chain of owners, the owned first and namespaces written or not, a      *)
(* policy that binds every pod of its namespace, and a mounted claim.      *)
replicas == [manifest(apps1, "ReplicaSet", "", "r") EXCEPT !.owners = by("Deployment", "d")]
chained  == [pod EXCEPT !.ns = "default", !.owners = by("ReplicaSet", "r"), !.refs = {}]
fence    == [manifest(net1, "NetworkPolicy", "", "f") EXCEPT
               !.selector = selecting(noLabels)]
claim    == manifest(core, "PersistentVolumeClaim", "default", "k")
loner    == [manifest(core, "Pod", "", "q") EXCEPT
               !.refs = {[kind |-> "RefVolume", to |-> "PersistentVolumeClaim", name |-> "k"]}]

chain == ok(<<chained, replicas, dep, fence, claim, loner, twin>>)

-----------------------------------------------------------------------------
asking(verb_, group_, kind_, name_) ==
  [verb |-> verb_, cascade |-> "unset", old |-> {}, new |-> {},
   target |-> [kind |-> kind_, group |-> group_, ns |-> "", name |-> name_]]

labelled(l, f) == {[labels |-> l, selector |-> {}, finalizers |-> f]}

selected(l)    == {[labels |-> noLabels, selector |-> {l}, finalizers |-> {}]}

deleteDep  == asking("delete", apps1, "Deployment", "d")
deletePod  == asking("delete", noGroup, "Pod", "p")
deleteCfg  == asking("delete", core, "ConfigMap", "c")
deleteAll  == asking("delete", core, "Namespace", "default")
scaleDep   == asking("scale", apps1, "Deployment", "d")
deleteGone == asking("delete", core, "Pod", "gone")
orphanDep  == [deleteDep EXCEPT !.cascade = "false"]
relabelPod == [asking("patch", core, "Pod", "p") EXCEPT
                 !.old = labelled(app("x"), {"guard"}), !.new = labelled(noLabels, {})]
releaseCfg == [asking("update", core, "ConfigMap", "c") EXCEPT
                 !.old = labelled(noLabels, {"guard"}), !.new = labelled(noLabels, {})]

requests ==
  {deleteDep, deletePod, deleteCfg, deleteAll, scaleDep, deleteGone, orphanDep, relabelPod, releaseCfg}

deleteRs    == asking("delete", apps1, "ReplicaSet", "r")
deleteClaim == asking("delete", core, "PersistentVolumeClaim", "k")
refence     == [asking("update", net1, "NetworkPolicy", "f") EXCEPT
                  !.old = selected(noLabels), !.new = selected(app("x"))]

chainRequests == {deleteDep, deleteRs, deleteClaim, refence}

-----------------------------------------------------------------------------
noSel == [labelled |-> FALSE, matchLabels |-> noLabels, exprs |-> <<>>]
sel(m) == CHOOSE x \in selecting(m) : TRUE
req(op_) == CHOOSE x \in requiring(op_) : TRUE

entry(dim_, ns_) ==
  [dim |-> dim_, kind |-> "", group |-> noGroup, gvk |-> {}, ns |-> ns_, name |-> {},
   sel |-> noSel, root |-> {}]

everyName == {"d", "p", "v", "c", "h", "default"}
rootAt(kind_, name_) == {[kind |-> kind_, group |-> noGroup, ns |-> "", name |-> name_]}

podsNamed   == [entry("resource", "") EXCEPT !.kind = "Pod", !.name = everyName]
depNamed    == [entry("", "default") EXCEPT !.kind = "Deployment", !.group = apps1, !.name = {"d"}]
appSelected == [entry("selector", "default") EXCEPT !.sel = sel(app("x"))]
inSelected  == [entry("selector", "default") EXCEPT !.sel = req("In")]
noneSelected == [entry("selector", "default") EXCEPT !.sel = [noSel EXCEPT !.labelled = TRUE]]
wholeSpace  == entry("namespace", "default")
elsewhere   == entry("namespace", "m")
owned       == [entry("ownership", "") EXCEPT !.root = rootAt("Deployment", "d")]
mapsNamed   == [entry("resource", "default") EXCEPT !.kind = "ConfigMap", !.name = everyName]
everyNamed  == [entry("", "") EXCEPT !.name = everyName]

scopes ==
  { {}, {podsNamed, depNamed}, {appSelected, depNamed}, {inSelected}, {noneSelected, mapsNamed},
    {wholeSpace}, {elsewhere, owned}, {owned, appSelected}, {everyNamed}, {everyNamed, podsNamed} }

refusedScopes ==
  {{e} : e \in { [owned EXCEPT !.kind = "Pod"], [owned EXCEPT !.root = {}],
                 [owned EXCEPT !.root = rootAt("Deployment", "")], [owned EXCEPT !.sel = sel(app("x"))],
                 [owned EXCEPT !.ns = "default"], [owned EXCEPT !.name = everyName],
                 [wholeSpace EXCEPT !.root = rootAt("Deployment", "d")],
                 [wholeSpace EXCEPT !.name = everyName], [wholeSpace EXCEPT !.dim = "region"],
                 [entry("namespace", "") EXCEPT !.kind = "Node"],
                 [appSelected EXCEPT !.sel = req("Gt")], [appSelected EXCEPT !.name = everyName] }}

contract(allow_) ==
  [apiVersion |-> "krsm.io/v1", kind |-> "TaskContract", maxSeverity |-> "high", allow |-> allow_]

inGvk(e) ==
  [e EXCEPT !.gvk = {[kind |-> e.kind, group |-> e.group]}, !.kind = "", !.group = noGroup]

contracts ==
  {contract({inGvk(e) : e \in s}) :
     s \in {{}, {podsNamed, depNamed}, {appSelected, depNamed}, {noneSelected, mapsNamed}, {everyNamed}}}

refusedContracts ==
  LET fine == contract({inGvk(depNamed)})
  IN  {contract({wholeSpace}), contract({[wholeSpace EXCEPT !.dim = "region"]}),
       contract({[appSelected EXCEPT !.sel = req("Gt")]}),
       contract({[appSelected EXCEPT !.name = everyName]}),
       [fine EXCEPT !.maxSeverity = "urgent"], [fine EXCEPT !.apiVersion = "krsm.io/v2"],
       [fine EXCEPT !.kind = "Contract"]}

-----------------------------------------------------------------------------
(* Directories.                                                            *)
files(cluster_, request_, contract_, scope_) ==
  [cluster |-> cluster_, request |-> ok(request_), contract |-> contract_, scope |-> scope_]

plainDir == files(manifests, deleteDep, absent, absent)

directories ==
  {files(manifests, q, absent, s) : q \in requests, s \in {absent} \cup {ok(x) : x \in scopes}}
  \cup {files(chain, q, absent, s) : q \in chainRequests,
                                    s \in {absent} \cup {ok(x) : x \in {{wholeSpace}, {owned}}}}
  \cup {files(manifests, q, ok(k), absent) : q \in requests, k \in contracts}
  \cup {files(manifests, deleteDep, absent, ok(x)) : x \in refusedScopes}
  \cup {files(manifests, deleteDep, ok(k), ok({wholeSpace})) : k \in contracts \cup refusedContracts}
  \cup {files(manifests, deleteDep, f, g) :
          f \in {absent, unreadable, malformed}, g \in {unreadable, malformed, ok({wholeSpace})}}
  \cup {[plainDir EXCEPT !.cluster = f] : f \in {absent, malformed, ok(<<dep, odd>>), ok(<<wrapped>>)}}
  \cup {[plainDir EXCEPT !.request = f] : f \in {absent, unreadable}}

-----------------------------------------------------------------------------
starting(args_, dir_, cluster_, served_) ==
  [args |-> args_, dir |-> dir_, cluster |-> cluster_, served |-> served_]

small == {D, [P EXCEPT !.owners = {D.uid}], V, H}
alienSmall == {D, B}

(* The autoscaler is listed in two versions.                               *)
apis == <<pods, widgets, deploys, services, hpas1, hpas2>>
SomeDiscoveries == {<<pods, deploys, services>>, apis}
SomeWrites == {deleting(V), changing(P, [P EXCEPT !.uid = "again", !.owners = {D.uid}]),
               changing(H, [H EXCEPT !.uid = "anew"]), changing(H, [H EXCEPT !.refs = {}])}

MCStarts ==
  {starting(a, d, {}, <<>>) : a \in offline, d \in directories}
  \cup {starting(a, plainDir, small, apis) : a \in misread}
  \cup {starting(a, plainDir, k, apis) : a \in online, k \in {small, alienSmall}}

-----------------------------------------------------------------------------
(* The starts are what the theorems about a run ask for.                   *)
ASSUME StartsAreSane == StartsSane
ASSUME EntriesAreRead == \A st \in MCStarts : NoStray(st.dir)
ASSUME ClustersAreDeployable == \A st \in MCStarts : Deployable(st.dir)
ASSUME LinesAreLegible == \A st \in MCStarts : Legible(st.args)

(* Selector fields on an entry of another dimension.                       *)
DroppedStarts ==
  {starting(a, d, {}, <<>>) : a \in offline, d \in
     {files(manifests, q, absent, ok(s)) : q \in {deletePod, deleteDep}, s \in
        {{e} : e \in {[x EXCEPT !.sel = sel(m)] : x \in {wholeSpace, everyNamed},
                                                  m \in {app("x"), app("y")}}}}}

(* A pod of the default namespace that another Namespace owns.             *)
guest == [manifest(core, "Pod", "default", "p") EXCEPT !.owners = by("Namespace", "a")]
host  == manifest(core, "Namespace", "", "a")

OwnerStarts ==
  {starting(a, files(ok(<<host, guest, twin, svc, cfg>>), q, absent, s), {}, <<>>) :
     a \in offline, s \in {absent, ok({wholeSpace})},
     q \in {deletePod, asking("delete", core, "Namespace", "a")}}

(* A request whose verb is not one of the five.                            *)
VerbStarts ==
  {starting(a, files(manifests, asking(v, apps1, "Deployment", "d"), absent, absent), {}, <<>>) :
     a \in offline, v \in {"delete", "restart", "remove"}}
=============================================================================
