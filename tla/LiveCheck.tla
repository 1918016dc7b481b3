------------------------------ MODULE LiveCheck ------------------------------
(***************************************************************************)
(* krsm check on a live cluster: runCheckLive (src/cmd/krsm/main.go) reads  *)
(* the cluster with Reader (src/internal/cluster/reader.go), one API call  *)
(* per step, while others write to it; it then runs the walk, Safe and the *)
(* mode on what it read.  A check is a record [verb, token, ns, name, mode] *)
(* of the command line.  The API server is external: it answers each call  *)
(* or fails it, and changes between calls.                                 *)
(***************************************************************************)
EXTENDS Verdict, LiveBuild

CONSTANTS
  Checks,      \* the command lines
  Clusters,    \* the live objects a check may start from
  Discoveries, \* the discovery answers the API server may give
  Writes,      \* the writes [gone, put] of others: uids removed, objects put
  MaxWrites    \* bound on the writes during a check

Sx == INSTANCE SequencesExt

ASSUME MaxWritesAssumption == MaxWrites \in Nat

(* parseMode takes no other mode (main.go:419-429).                        *)
ASSUME ChecksAssumption == \A c \in Checks : ModeKnown(c)

VARIABLES
  check,       \* the command line
  cluster,     \* the live objects
  served,      \* what discovery answers
  phase,       \* where runCheckLive is
  todo,        \* the places in `served` still to list, in their order
  kindScope,   \* the scope map of this read
  got,         \* the items listed so far
  moments,     \* history: the clusters that were live during the read
  writes,      \* how often others wrote
  failed       \* history: whether an API call failed

liveVars == <<check, cluster, served, phase, todo, kindScope, got, moments, writes, failed>>
lvars == <<allVars, liveVars>>

-----------------------------------------------------------------------------
liveVerbs == {"delete", "scale", "restart"}

(* The target has neither a uid nor a group.                               *)
parseAction(verb_, kind_, ns_, name_) ==
  [verb |-> verb_,
   target |-> [kind |-> kind_, group |-> noGroup, ns |-> ns_, name |-> name_, uid |-> ""],
   cascade |-> verb_ = "delete", old |-> {}, new |-> {}]

(* There are API calls left to make.                                       *)
reading == phase \in {"resolve", "discover"} \/ (phase = "list" /\ todo # {})

(* An object as the API server lists it under one of its resources.        *)
listedAs(o, res) ==
  [group |-> o.group, kind |-> o.kind, ns |-> o.ns, name |-> o.name, uid |-> o.uid,
   labels |-> o.labels, selector |-> o.selector, owners |-> o.owners, refs |-> o.refs,
   finalizers |-> o.finalizers, apiVersion |-> apiVersion(res)]

isOf(o, res) == o.kind = res.kind /\ o.group = res.group

(* What the API server lists for a resource.                               *)
items(res) == {listedAs(o, res) : o \in {x \in cluster : isOf(x, res)}}

noCall ==
  [s |-> NewScanState(<<>>), a |-> parseAction("", "", "", ""), scope |-> {}, mode |-> "audit"]

(* Nothing is read, and nothing is decided.                                *)
Fresh ==
  /\ todo = {} /\ kindScope = scopeFromLists(<<>>) /\ got = <<>>
  /\ moments = {} /\ writes = 0 /\ failed = FALSE
  /\ call = noCall /\ queue = {} /\ visited = {} /\ affected = emptyMap /\ pc = "idle"
  /\ decision = none /\ report = none /\ exit = "running"

LInit ==
  /\ check \in Checks /\ cluster \in Clusters /\ served \in Discoveries
  /\ phase = "resolve"
  /\ Fresh

(* Slip kept for checking: an error exits with the code of a Block.        *)
exitWithErrorAsBlock ==
  /\ phase' = "error"
  /\ exit' = "2"
  /\ UNCHANGED <<call, queue, visited, affected, pc, decision, report>>
  /\ UNCHANGED <<check, cluster, served, todo, kindScope, got, moments, writes>>

(* An error of runCheckLive: main exits with 1.                            *)
exitWithError ==
  /\ phase' = "error"
  /\ exit' = "1"
  /\ UNCHANGED <<call, queue, visited, affected, pc, decision, report>>
  /\ UNCHANGED <<check, cluster, served, todo, kindScope, got, moments, writes>>

(* The verb and the kind are checked, the kind against discovery.          *)
Resolve ==
  /\ phase = "resolve"
  /\ named(served, check.token) # {}
  /\ check.verb \in liveVerbs
  /\ phase' = "discover"
  /\ call' = [noCall EXCEPT !.mode = check.mode,
                            !.a = parseAction(check.verb, ResolveKind(served, check.token),
                                              check.ns, check.name)]
  /\ UNCHANGED <<queue, visited, affected, pc, decision, report, exit>>
  /\ UNCHANGED <<check, cluster, served, todo, kindScope, got, moments, writes, failed>>

ResolveFails ==
  /\ phase = "resolve"
  /\ named(served, check.token) = {} \/ check.verb \notin liveVerbs
  /\ exitWithError
  /\ UNCHANGED failed

(* Reader.State: discovery a second time, then one List per target.        *)
Discover ==
  /\ phase = "discover"
  /\ phase' = "list"
  /\ todo' = selectTargets(served)
  /\ kindScope' = scopeFromLists(served)
  /\ moments' = {cluster}
  /\ UNCHANGED <<allVars, check, cluster, served, got, writes, failed>>

List ==
  /\ phase = "list"
  /\ \E i \in todo :
       /\ \A j \in todo : i <= j
       /\ got' = got \o Sx!SetToSeq(items(served[i]))
       /\ todo' = todo \ {i}
  /\ UNCHANGED <<allVars, check, cluster, served, phase, kindScope, moments, writes, failed>>

(* Slip kept for checking: a resource that cannot be listed is skipped.    *)
ApiFailsSkips ==
  /\ phase = "list"
  /\ \E i \in todo : todo' = todo \ {i}
  /\ failed' = TRUE
  /\ UNCHANGED <<allVars, check, cluster, served, phase, kindScope, got, moments, writes>>

(* Slip kept for checking: a failed list starts the read again.            *)
ApiFailsRetries ==
  /\ phase = "list" /\ todo # {}
  /\ todo' = selectTargets(served)
  /\ got' = <<>>
  /\ UNCHANGED <<allVars, check, cluster, served, phase, kindScope, moments, writes, failed>>

(* Any API call may fail: either discovery, or any of the lists.  A        *)
(* discovery answer with a groupVersion that does not parse ends the check *)
(* in the same way (reader.go:179-182).                                    *)
ApiFails ==
  /\ reading
  /\ failed' = TRUE
  /\ exitWithError

BuildFails ==
  /\ phase = "list"
  /\ todo = {}
  /\ ~buildable(got)
  /\ exitWithError
  /\ UNCHANGED failed

(* BuildObjects, NewScanState and Derive, then Safe calls Closure.         *)
Build ==
  /\ phase = "list"
  /\ todo = {}
  /\ buildable(got)
  /\ phase' = "checked"
  /\ \E objs \in {BuildObjects(got, kindScope)} : \E s \in {NewScanState(objs)} :
         /\ call' = [call EXCEPT !.s = s, !.scope = Derive(call.a.target)]
         /\ queue' = IF tracked(s, call.a.target) THEN {call.a.target} ELSE {}
  /\ pc' = "walk"
  /\ UNCHANGED <<visited, affected, decision, report, exit>>
  /\ UNCHANGED <<check, cluster, served, todo, kindScope, got, moments, writes, failed>>

Verify == VNext /\ UNCHANGED liveVars

Step ==
  Resolve \/ ResolveFails \/ Discover \/ List \/ ApiFails \/ BuildFails \/ Build \/ Verify

-----------------------------------------------------------------------------
(* The environment.  What happens after the last list is not seen.         *)

identity(o) == <<o.group, o.kind, o.ns, o.name>>

(* Another client of the API server removes objects and creates or replaces *)
(* others; no two objects have one uid or one identity.                    *)
Write(w) ==
  /\ reading
  /\ writes < MaxWrites
  /\ w.gone \subseteq {o.uid : o \in cluster}
  /\ \A o \in w.put, x \in cluster :
       o.uid = x.uid \/ identity(o) = identity(x) => x.uid \in w.gone
  /\ cluster' = {o \in cluster : o.uid \notin w.gone} \cup w.put
  /\ moments' = IF phase = "list" THEN moments \cup {cluster'} ELSE moments
  /\ writes' = writes + 1
  /\ UNCHANGED <<allVars, check, served, phase, todo, kindScope, got, failed>>

(* Between the two discoveries an API may appear or go.                    *)
ChangeApi ==
  /\ phase = "discover"
  /\ \E d \in Discoveries \ {served} : served' = d
  /\ UNCHANGED <<allVars, check, cluster, phase, todo, kindScope, got, moments, writes, failed>>

LNext == Step \/ ChangeApi \/ \E w \in Writes : Write(w)

(* The check runs on one goroutine, and every API call is answered: with   *)
(* context.Background() nothing else ends a call (main.go:260).            *)
LSpec == LInit /\ [][LNext]_lvars /\ WF_lvars(Step)

-----------------------------------------------------------------------------
(* What discovery may answer: a resource has one kind, and a version of a  *)
(* kind is namespaced or it is not.                                        *)
SaneApi(lists) ==
  /\ Len(lists) \in Nat /\ DOMAIN lists = 1..Len(lists)
  /\ \A i, j \in DOMAIN lists :
       /\ gvr(lists[i]) = gvr(lists[j]) => lists[i].kind = lists[j].kind
       /\ (/\ ~lists[i].subresource /\ ~lists[j].subresource
           /\ lists[i].kind = lists[j].kind
           /\ apiVersion(lists[i]) = apiVersion(lists[j])) =>
            lists[i].namespaced = lists[j].namespaced

(* What may be live at one moment: an object has a uid and an identity of  *)
(* its own, and a namespace exactly when its resource is namespaced.       *)
SaneObjects(objs, discoveries) ==
  /\ IsFiniteSet(objs)
  /\ \A o \in objs : o.uid # ""
  /\ \A o, x \in objs : o.uid = x.uid \/ identity(o) = identity(x) => o = x
  /\ \A o \in objs, d \in discoveries : \A i \in DOMAIN d :
       ~d[i].subresource /\ isOf(o, d[i]) => (d[i].namespaced <=> o.ns # "")

(* The API server keeps to its own rules.                                  *)
Sane(discoveries, clusters, writes_) ==
  /\ \A d \in discoveries : SaneApi(d)
  /\ \A objs \in clusters \cup {w.put : w \in writes_} : SaneObjects(objs, discoveries)

(* And to two more, over time: a version of a kind is one resource, and a   *)
(* uid is never given to an object of another identity.                    *)
Orderly(discoveries, objs) ==
  /\ \A d \in discoveries : \A i, j \in selectTargets(d) :
       d[i].kind = d[j].kind /\ apiVersion(d[i]) = apiVersion(d[j]) => i = j
  /\ \A o, x \in objs : o.uid = x.uid => identity(o) = identity(x)

(* A listed kind is of one group.  This is no rule of an API server, see   *)
(* TargetIsOfResolvedResource.                                             *)
OneGroup(discoveries) ==
  \A d \in discoveries : \A i, j \in DOMAIN d :
    wanted(d[i]) /\ wanted(d[j]) /\ d[i].kind = d[j].kind => d[i].group = d[j].group

(* All that is ever live, when a check starts from one of the clusters.    *)
everLive(clusters) == (UNION clusters) \cup (UNION {w.put : w \in Writes})

-----------------------------------------------------------------------------
LTypeOK ==
  /\ phase \in {"resolve", "discover", "list", "checked", "error"}
  /\ pc = "idle" <=> phase # "checked"
  /\ phase = "checked" => TypeOK
  /\ \A i \in todo : ~served[i].subresource /\ served[i].verbs # {"create"}
  /\ writes \in 0..MaxWrites
  /\ exit \in {"running", "0", "1", "2"}

(* A set of live objects as a State, without an index and a scope map:     *)
(* references are left to their names.                                     *)
view(o) ==
  [ref |-> [kind |-> o.kind, group |-> <<o.group, "">>, ns |-> o.ns, name |-> o.name, uid |-> o.uid],
   labels |-> o.labels, selector |-> selectorFrom(o), owners |-> o.owners,
   crossRefs |-> {[kind |-> r.kind,
                   ref |-> [kind |-> r.to, group |-> noGroup, ns |-> o.ns, name |-> r.name, uid |-> ""]] :
                    r \in o.refs},
   finalizers |-> o.finalizers]

ideal(objs) ==
  LET all == {view(o) : o \in objs}
  IN  [objs    |-> all,
       byUID   |-> [u \in {o.ref.uid : o \in all} |-> CHOOSE o \in all : o.ref.uid = u],
       byHuman |-> [h \in {human(o.ref) : o \in all} |-> CHOOSE o \in all : human(o.ref) = h]]

(* No object is in the State once for each of two versions of its kind.    *)
oneVersionEach ==
  \A o, x \in call.s.objs : o.ref.uid = x.ref.uid => o.ref.group = x.ref.group

uidsOf(objs) == {o.ref.uid : o \in objs}

(* The objects the reader is meant to see, of the kinds the API lists, and  *)
(* what the action affects among objs, of that sort.                       *)
visible(objs) ==
  {o \in objs : /\ o.kind \in readTargets \/ o.group \notin builtInGroups
                /\ \E i \in DOMAIN served :
                     /\ isOf(o, served[i])
                     /\ ~served[i].subresource
                     /\ served[i].verbs = {} \/ "list" \in served[i].verbs}

affectedAmong(objs) == uidsOf(AffectedObjects(ideal(visible(objs)), call.a))

ownedAmong(objs) == uidsOf(OwnedTree(ideal(visible(objs)), call.a.target))

reportedUIDs == uidsOf({lookup(call.s, r) : r \in members})

steady == {o \in cluster : \A m \in moments : o \in m}

(* However the cluster changes between the lists, collateral that is there *)
(* unchanged throughout the read, reached along objects that are, is       *)
(* reported (reader.go:24-26, never "a silently shrunk object set").       *)
SteadyCollateralReported ==
  (pc = "returned" /\ decision = none) => affectedAmong(steady) \subseteq reportedUIDs

(* When nothing is written during the lists, the check reports what the    *)
(* action affects in the live cluster, and in enforce mode it exits with 2 *)
(* unless the target is there and owns all of that.                        *)
QuietVerdictIsRight ==
  (exit # "running" /\ phase = "checked" /\ moments = {cluster}) =>
    LET hit == affectedAmong(cluster)
    IN  /\ reportedUIDs = hit
        /\ exit = "2" <=>
             hit = {} \/ (check.mode = "enforce" /\ ~(hit \subseteq ownedAmong(cluster)))

(* A failed discovery or list leaves no verdict, only exit code 1          *)
(* (reader.go:24-26, main.go:282-287).                                     *)
NoVerdictOnPartialRead == failed => decision = none /\ exit = "1"

(* A check is allowed only if, at some moment of its read, the action      *)
(* stayed inside its scope: the read is "a point-in-time snapshot"         *)
(* (docs/plans/v0.4-live-cluster-reads.md:110-111).  It is not.            *)
AllowedAtSomeMoment ==
  (exit = "0" /\ check.mode = "enforce") =>
    \E m \in moments : affectedAmong(m) \subseteq ownedAmong(m)

(* The target the check works on is of the resource its kind resolved to:  *)
(* identity is the "GVK/namespace/name tuple" (model.go:34-35).  The code  *)
(* leaves the group out of it.                                             *)
TargetIsOfResolvedResource ==
  (phase = "checked" /\ tracked(call.s, call.a.target)) =>
    \E i \in named(served, check.token) :
      /\ \A j \in named(served, check.token) : i <= j
      /\ lookup(call.s, call.a.target).ref.group = apiVersion(served[i])

(* Deleting a Namespace reports every object in it (DESIGN.md:61, "deleting *)
(* a Namespace affects all it contains").  The reader does not list every  *)
(* kind.                                                                   *)
NamespaceFullyReported ==
  (/\ pc = "returned"
   /\ moments = {cluster}
   /\ call.a.verb = "delete"
   /\ call.a.target.kind = "Namespace"
   /\ members # {}) =>
    \A o \in cluster : o.ns = call.a.target.name => o.uid \in reportedUIDs
=============================================================================
