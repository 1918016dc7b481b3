------------------------------- MODULE Closure -------------------------------
(***************************************************************************)
(* The breadth-first walk of Closure (src/closure/closure.go:19-89) and its *)
(* mutation helpers.  The work list is a set: the walk may pop any pending  *)
(* ref, which covers the FIFO order of the code and the random order in    *)
(* which it ranges over the maps of the mutation helpers.  `affected` is   *)
(* the Go map from Ref.key() to Ref; `visited` the set of keys expanded.   *)
(***************************************************************************)
EXTENDS AffectedSet

CONSTANT Calls          \* the calls [s, a, ...] made: a state and an action

ASSUME CallsAssumption ==
  \A c \in Calls : WellFormed(c.s) /\ Consistent(c.s, c.a.target)

VARIABLES
  call,        \* the arguments: call.s the State, call.a the Action
  queue,       \* refs still to pop
  visited,     \* keys already expanded
  affected,    \* key -> Ref, the closure so far
  pc           \* "walk" in the loop, "returned" after sortedRefs

vars == <<call, queue, visited, affected, pc>>

-----------------------------------------------------------------------------
(* The refs a mutation of the target's selector or labels adds.            *)

payloads(a) == a.old \cup a.new

(* Slip kept for checking: only what the new selector binds.               *)
selectorMutationAffectedNewOnly(s, a) ==
  UNION {PodsMatching(s, a.target.ns, p.selector, a.target.kind) : p \in a.new}

selectorMutationAffected(s, a) ==
  UNION {PodsMatching(s, a.target.ns, p.selector, a.target.kind) : p \in payloads(a)}

(* Slip kept for checking: only what binds the old labels.                 *)
labelMutationAffectedOldOnly(s, a) ==
  UNION {SelectorsMatchingLabels(s, a.target.ns, p.labels) : p \in a.old}

labelMutationAffected(s, a) ==
  UNION {SelectorsMatchingLabels(s, a.target.ns, p.labels) : p \in payloads(a)}

-----------------------------------------------------------------------------
(* Slip kept for checking: config consumers are followed from the target  *)
(* alone, and the cascade stops at its children.                           *)
successorsOfTargetOnly(s, a, cur) ==
  IF key(cur) # key(a.target) THEN {}
  ELSE LET classes == classify(a)
       IN  (IF "CascadeDelete" \in classes THEN OwnedChildren(s, cur) ELSE {})
             \cup (IF "MutateConfig" \in classes THEN Consumers(s, cur) ELSE {})

(* What one expansion appends to the queue: steps 1 to 6b, in the code's   *)
(* order, each behind its effect class.                                    *)
successors(s, a, cur) ==
  LET classes == classify(a)
      has(c, licensed, refs) == IF c \in classes /\ licensed THEN refs ELSE {}
      isTarget == key(cur) = key(a.target)
  IN  has("CascadeDelete", TRUE, OwnedChildren(s, cur))
      \cup has("Containment", cur.kind = "Namespace", NamespaceContents(s, cur.name))
      \cup has("Disruptive", cur.kind \in workloadKinds, PodsSelectedBy(s, cur))
      \cup has("ScaleEffect", cur.kind \in workloadKinds, ControllersTargeting(s, cur))
      \cup has("MutateConfig", cur.kind \in mountableKinds, Consumers(s, cur))
      \cup has("MutateSelector", isTarget, selectorMutationAffected(s, a))
      \cup has("MutateLabels", isTarget, labelMutationAffected(s, a))

(* Step 7: the binding objects recorded, not queued, for a pod.            *)
bindings(s, cur) == IF cur.kind = "Pod" THEN SelectorsTargeting(s, cur) ELSE {}

(* Slip kept for checking: a ref is filed under its human identity.        *)
putByName(m, refs) ==
  [k \in DOMAIN m \cup {human(r) : r \in refs} |->
     IF k \in {human(r) : r \in refs} THEN CHOOSE r \in refs : human(r) = k ELSE m[k]]

(* m with an entry for every ref of refs, under its key.                   *)
put(m, refs) ==
  [k \in DOMAIN m \cup keysOf(refs) |->
     IF k \in keysOf(refs) THEN CHOOSE r \in refs : key(r) = k ELSE m[k]]

emptyMap == [k \in {} |-> k]

-----------------------------------------------------------------------------
(* Slip kept for checking: the target seeds the walk without being looked  *)
(* up first.                                                               *)
InitUnguarded ==
  /\ call \in Calls
  /\ queue = {call.a.target}
  /\ visited = {}
  /\ affected = emptyMap
  /\ pc = "walk"

Init ==
  /\ call \in Calls
  /\ queue = IF tracked(call.s, call.a.target) THEN {call.a.target} ELSE {}
  /\ visited = {}
  /\ affected = emptyMap
  /\ pc = "walk"

(* A popped ref whose key was expanded before is dropped.                  *)
Skip(cur) ==
  /\ pc = "walk"
  /\ key(cur) \in visited
  /\ queue' = queue \ {cur}
  /\ UNCHANGED <<call, visited, affected, pc>>

(* Slip kept for checking: the visited set is never filled.                *)
ExpandForever(cur) ==
  /\ pc = "walk"
  /\ key(cur) \notin visited
  /\ affected' = put(put(affected, {cur}), bindings(call.s, cur))
  /\ queue' = (queue \ {cur}) \cup successors(call.s, call.a, cur)
  /\ UNCHANGED <<call, visited, pc>>

(* Slip kept for checking: the bindings of a pod are queued as well.       *)
ExpandBindings(cur) ==
  /\ pc = "walk"
  /\ key(cur) \notin visited
  /\ visited' = visited \cup {key(cur)}
  /\ affected' = put(affected, {cur})
  /\ queue' = (queue \ {cur}) \cup successors(call.s, call.a, cur) \cup bindings(call.s, cur)
  /\ UNCHANGED <<call, pc>>

(* Slip kept for checking: the map is made anew in every round.            *)
ExpandFresh(cur) ==
  /\ pc = "walk"
  /\ key(cur) \notin visited
  /\ visited' = visited \cup {key(cur)}
  /\ affected' = put(put(emptyMap, {cur}), bindings(call.s, cur))
  /\ queue' = (queue \ {cur}) \cup successors(call.s, call.a, cur)
  /\ UNCHANGED <<call, pc>>

(* Slip kept for checking: only collateral is recorded, not the target.    *)
ExpandCollateralOnly(cur) ==
  /\ pc = "walk"
  /\ key(cur) \notin visited
  /\ visited' = visited \cup {key(cur)}
  /\ affected' = put(put(affected, {cur} \ {call.a.target}), bindings(call.s, cur))
  /\ queue' = (queue \ {cur}) \cup successors(call.s, call.a, cur)
  /\ UNCHANGED <<call, pc>>

(* Any other popped ref is recorded and its successors are appended.       *)
Expand(cur) ==
  /\ pc = "walk"
  /\ key(cur) \notin visited
  /\ visited' = visited \cup {key(cur)}
  /\ affected' = put(put(affected, {cur}), bindings(call.s, cur))
  /\ queue' = (queue \ {cur}) \cup successors(call.s, call.a, cur)
  /\ UNCHANGED <<call, pc>>

Return ==
  /\ pc = "walk"
  /\ queue = {}
  /\ pc' = "returned"
  /\ UNCHANGED <<call, queue, visited, affected>>

Next == Return \/ \E cur \in queue : Skip(cur) \/ Expand(cur)

(* The loop runs on its caller's goroutine, with nothing to wait for.      *)
Spec == Init /\ [][Next]_vars /\ WF_vars(Next)

-----------------------------------------------------------------------------
(* The refs of the map, which sortedRefs returns in order of human().      *)
members == {affected[k] : k \in DOMAIN affected}

trackedRefs == {o.ref : o \in call.s.objs}

-----------------------------------------------------------------------------
(* What the payloads of a mutation may not do if a change is to be seen:    *)
(* carry an empty value, which reads like a missing key (classify.go:130-140, *)
(* selector.go:32-41), or turn an absent selector into {} or back            *)
(* (selector.go:33).                                                       *)
blankFree(m) == IsFiniteSet(DOMAIN m) /\ \A k \in DOMAIN m : m[k] # ""

nilIsEmpty(sel) == ~sel.present => DOMAIN sel.matchLabels = {}

ChangesShow(a) ==
  /\ \A p \in payloads(a) :
       blankFree(p.labels) /\ blankFree(p.selector.matchLabels) /\ nilIsEmpty(p.selector)
  /\ \A p, q \in payloads(a) :
       isEmptySelector(p.selector) /\ isEmptySelector(q.selector) =>
         (isNil(p.selector) <=> isNil(q.selector))

(* References are within a namespace: to the referrer's own                 *)
(* (crossref.go:9-13, scenario.go:361), and by a uid only to an object there. *)
ReferencesStayHome(s) ==
  \A o \in s.objs : \A cr \in o.crossRefs :
    /\ cr.ref.ns = o.ref.ns
    /\ \A p \in s.objs : crossRefMatches(cr.ref, p.ref) => p.ref.ns = cr.ref.ns

-----------------------------------------------------------------------------
(* Types.  Every queued ref is the target or the ref of a tracked object,  *)
(* and every map entry sits under its own key (closure.go:14-16, "every     *)
(* queued ref comes from a State method (so it names a real object)").     *)
TypeOK ==
  /\ queue \subseteq trackedRefs \cup {call.a.target}
  /\ visited \subseteq keysOf(trackedRefs \cup {call.a.target})
  /\ \A k \in DOMAIN affected :
       affected[k] \in trackedRefs \cup {call.a.target} /\ key(affected[k]) = k
  /\ pc \in {"walk", "returned"}

(* Members resolve: whatever the walk holds can be looked up again, which  *)
(* Safe relies on when it reads a member's labels (safe.go:89-95).         *)
MembersResolve == \A r \in queue \cup members : tracked(call.s, r)

(* Every pod of the closure has its bindings there too, at every step: the *)
(* record of a pod and of its bindings is never split (closure.go:78-85).  *)
BindingsRecorded ==
  \A r \in members :
    r.kind = "Pod" =>
      keysOf(SelectorsTargeting(call.s, r)) \subseteq DOMAIN affected

(* An empty answer means that the target is unknown, the fact Safe reads   *)
(* from it instead of asking State again (safe.go:18-21).                  *)
EmptyIffUntracked ==
  pc = "returned" => (members = {} <=> ~tracked(call.s, call.a.target))

(* No live object is reported twice, so |C| <= |R| (closure.go:14-16).     *)
EachObjectOnce ==
  \A k, l \in DOMAIN affected :
    lookup(call.s, affected[k]) = lookup(call.s, affected[l]) => k = l

(* A relabelled pod: every object that binds it before or after, not both, *)
(* is reported, because it loses or gains the pod (closure.go:71-76).      *)
RebindingReported ==
  (/\ pc = "returned"
   /\ members # {}
   /\ call.a.verb \in {"update", "patch"}
   /\ call.a.target.kind = "Pod") =>
    \A b \in call.s.objs, o \in call.a.old, n \in call.a.new :
      (/\ b.ref.kind \in selectorKinds
       /\ b.ref.ns = call.a.target.ns
       /\ selectorBinds(b.ref.kind, b.selector, o.labels)
            # selectorBinds(b.ref.kind, b.selector, n.labels)) =>
        key(b.ref) \in DOMAIN affected

(* A changed selector: every pod it binds before or after, not both, is    *)
(* reported (closure.go:65-69).                                            *)
ReselectionReported ==
  (/\ pc = "returned"
   /\ members # {}
   /\ call.a.verb \in {"update", "patch"}) =>
    \A p \in call.s.objs, o \in call.a.old, n \in call.a.new :
      (/\ p.ref.kind = "Pod"
       /\ p.ref.ns = call.a.target.ns
       /\ selectorBinds(call.a.target.kind, o.selector, p.labels)
            # selectorBinds(call.a.target.kind, n.selector, p.labels)) =>
        key(p.ref) \in DOMAIN affected

(* No false negative at the target itself: what breaks at once is reported *)
(* whichever verb breaks it.  Deleting a mounted object counts as mutating *)
(* it, and each of the five verbs on a workload counts as disrupting its   *)
(* pods (classify.go:53-56, 69-75, "sound for a safety gate").             *)
DirectHarmReported ==
  (/\ pc = "returned"
   /\ tracked(call.s, call.a.target)
   /\ call.a.verb \in {"delete", "update", "patch", "scale", "restart"}) =>
    LET target == lookup(call.s, call.a.target)
    IN  \A p \in call.s.objs :
          \/ /\ target.ref.kind \in mountableKinds
             /\ call.a.verb \in {"delete", "update", "patch"}
             /\ RefersTo(p, target, FALSE)
          \/ /\ target.ref.kind \in workloadKinds
             /\ SelectsPod(target.ref.ns, target.ref.kind, target.selector, p)
          \/ call.a.verb = "delete" /\ Contains(target, p)
          => key(p.ref) \in DOMAIN affected

(* Only a deletion leaves the namespace of its target: the other verbs     *)
(* follow selectors and references, which are namespaced (state.go:110-140). *)
StaysInNamespace ==
  call.a.verb # "delete" => \A r \in members : r.ns = call.a.target.ns

(* A deletion that cascades over a mounted object affects what mounts it   *)
(* (classify.go:53-56, "Deleting a ConfigMap/Secret/PVC affects every      *)
(* workload that consumes it").  The class is taken from the target alone, *)
(* so this fails when the mounted object is deleted along with its owner.  *)
DeletedConfigBreaksConsumers ==
  (pc = "returned" /\ call.a.verb = "delete" /\ call.a.cascade) =>
    \A r \in members :
      r.kind \in mountableKinds => keysOf(Consumers(call.s, r)) \subseteq DOMAIN affected

(* The walk never takes back what it reported and expands one key a step.  *)
OnlyGrows ==
  [][ /\ DOMAIN affected \subseteq DOMAIN affected'
      /\ visited \subseteq visited'
      /\ Cardinality(visited' \ visited) <= 1 ]_vars

(* The walk ends, on cyclic ownerReferences too (closure.go:14-16).        *)
Terminates == <>(pc = "returned")

-----------------------------------------------------------------------------
(* Why the walk is right.  Read through lookup, the refs it holds are       *)
(* objects: those expanded, those pending and those recorded.              *)

obj(r) == lookup(call.s, r)

expanded == {obj(affected[k]) : k \in visited}
pending  == {obj(r) : r \in queue}
recorded == {obj(r) : r \in members}
reached  == Reached(call.s, call.a)

(* Nothing is lost: the target is pending until it is expanded, and what an *)
(* expanded object affects is expanded or pending.                         *)
NothingLost ==
  /\ visited \subseteq DOMAIN affected
  /\ tracked(call.s, call.a.target) => call.a.target \in queue \/ key(call.a.target) \in visited
  /\ key(call.a.target) \in visited =>
       \A p \in call.s.objs : AffectedByMutation(call.a, p) => p \in expanded \cup pending
  /\ \A o \in expanded, p \in call.s.objs :
       Affects(classify(call.a), o, p) => p \in expanded \cup pending
  /\ \A o \in expanded, b \in call.s.objs : BindsPod(b, o) => b \in recorded
  /\ pc = "returned" => queue = {}

(* Nothing is made up: what is expanded or pending lies in every closed    *)
(* set, and what is recorded is expanded, or binds a pod that is.          *)
NothingInvented ==
  /\ expanded \cup pending \subseteq reached
  /\ recorded \subseteq AffectedObjects(call.s, call.a)

(* The same by key, which is how the walk itself tells what it has seen:    *)
(* under every key expanded there is a ref whose successors are queued or  *)
(* expanded and whose bindings are recorded.  This asks nothing of the     *)
(* state, not even that identities are distinct.                           *)
KeysClosed ==
  /\ visited \subseteq DOMAIN affected
  /\ tracked(call.s, call.a.target) => call.a.target \in queue \/ key(call.a.target) \in visited
  /\ \A k \in visited : \E r \in trackedRefs \cup {call.a.target} :
       /\ key(r) = k
       /\ keysOf(successors(call.s, call.a, r)) \subseteq visited \cup keysOf(queue)
       /\ keysOf(bindings(call.s, r)) \subseteq DOMAIN affected
  /\ pc = "returned" => queue = {}

IInv == TypeOK /\ MembersResolve /\ NothingLost /\ NothingInvented

-----------------------------------------------------------------------------
(* The walk computes the least closed set of AffectedSet.              *)
Abs == INSTANCE AbstractClosure WITH
         AffectedBy <- AffectedObjects,
         done   <- pc = "returned",
         answer <- IF pc = "returned" THEN {lookup(call.s, r) : r \in members} ELSE {}

ComputesAffectedObjects == Abs!Spec
=============================================================================
