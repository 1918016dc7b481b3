---------------------------- MODULE ClosureProofs ----------------------------
(***************************************************************************)
(* Proofs about the walk of Closure, for every set of calls that satisfies *)
(* CallsAssumption.  The map from refs to objects comes first: the State    *)
(* methods return refs, the relations of AffectedSet hold between objects.  *)
(* Then that Reached is the least closed set, then that each step keeps     *)
(* IInv, and from it the theorems at the end.                              *)
(***************************************************************************)
EXTENDS Closure, FiniteSetTheorems, TLAPS

(* The refs the walk can hold: those of the tracked objects, and the target  *)
(* as the caller wrote it (closure.go:25-27, the seed of the queue).           *)
Nodes == trackedRefs \cup {call.a.target}

(* What CallsAssumption says of the call under way.                          *)
GoodCall == WellFormed(call.s) /\ Consistent(call.s, call.a.target)

(* Ref.key (model.go:39-43) tells two refs apart by uid when either has one  *)
(* and by human identity otherwise; a uid never equals a name.               *)
LEMMA KeyCases ==
  ASSUME NEW r, NEW q, key(r) = key(q)
  PROVE  /\ (r.uid # "") <=> (q.uid # "")
         /\ r.uid # "" => r.uid = q.uid
         /\ r.uid = "" => human(r) = human(q)
  BY DEF key, human

(* What a ref of the walk resolves to through State.Get (state.go:61-71) is  *)
(* a tracked object with the same human identity, the caller's target        *)
(* included.                                                                 *)
LEMMA NodeResolves ==
  ASSUME GoodCall, NEW r \in Nodes, tracked(call.s, r)
  PROVE  obj(r) \in call.s.objs /\ human(obj(r).ref) = human(r)
<1>1. WellFormed(call.s) /\ Consistent(call.s, call.a.target)
  BY DEF GoodCall
<1>2. obj(r) \in call.s.objs
  BY <1>1 DEF WellFormed, tracked, lookup, knownUID, obj
<1>3. CASE r \in trackedRefs
  <2>1. PICK o \in call.s.objs : r = o.ref
    BY <1>3 DEF trackedRefs
  <2>2. obj(r) = o
    BY <1>1, <2>1 DEF WellFormed, obj
  <2> QED
    BY <1>2, <2>1, <2>2
<1>4. CASE r = call.a.target
  BY <1>1, <1>2, <1>4 DEF Consistent, obj
<1> QED
  BY <1>2, <1>3, <1>4 DEF Nodes

(* The ref of a tracked object is found again by State.Get, and names that   *)
(* object.                                                                   *)
LEMMA RefResolves ==
  ASSUME GoodCall, NEW o \in call.s.objs
  PROVE  tracked(call.s, o.ref) /\ obj(o.ref) = o /\ o.ref \in Nodes
BY DEF GoodCall, WellFormed, obj, Nodes, trackedRefs

(* Refs with one key resolve alike, so that the visited set and the map,     *)
(* which go by key (closure.go:32-36), lose no object.                       *)
LEMMA SameKeySameObject ==
  ASSUME GoodCall, NEW r \in Nodes, NEW q \in Nodes, key(r) = key(q), tracked(call.s, r)
  PROVE  tracked(call.s, q) /\ obj(q) = obj(r)
<1>1. WellFormed(call.s)
  BY DEF GoodCall
<1>2. CASE r.uid = ""
  <2>1. human(r) = human(q) /\ q.uid = ""
    BY <1>2, KeyCases
  <2> QED
    BY <2>1, <1>2 DEF tracked, knownUID, lookup, obj
<1>3. CASE r.uid # "" /\ r.uid \in DOMAIN call.s.byUID
  <2>1. q.uid = r.uid
    BY <1>3, KeyCases
  <2> QED
    BY <2>1, <1>3 DEF tracked, knownUID, lookup, obj
<1>4. CASE r.uid # "" /\ r.uid \notin DOMAIN call.s.byUID
  <2>1. q.uid = r.uid
    BY <1>4, KeyCases
  <2>2. ASSUME NEW o \in call.s.objs PROVE o.ref.uid # r.uid
    BY <1>1, <1>4 DEF WellFormed
  <2>4. r \notin trackedRefs /\ q \notin trackedRefs
    BY <2>1, <2>2 DEF trackedRefs
  <2>3. r = q
    BY <2>4 DEF Nodes
  <2> QED
    BY <2>3
<1> QED
  BY <1>2, <1>3, <1>4

-----------------------------------------------------------------------------
(* Each method of State returns the refs of the objects its relation holds *)
(* for.                                                                    *)

(* OwnedChildren: the objects the live owner owns (state.go:73-89).         *)
LEMMA OwnedChildrenAre ==
  ASSUME NEW r, tracked(call.s, r)
  PROVE  OwnedChildren(call.s, r) = {p.ref : p \in {q \in call.s.objs : Owns(obj(r), q)}}
BY DEF OwnedChildren, refsWhere, Owns, obj

(* NamespaceContents: the objects the namespace contains (state.go:91-100). *)
LEMMA NamespaceContentsAre ==
  ASSUME NEW r, r.kind = "Namespace", obj(r).ref.kind = r.kind, obj(r).ref.name = r.name
  PROVE  NamespaceContents(call.s, r.name)
           = {p.ref : p \in {q \in call.s.objs : Contains(obj(r), q)}}
BY DEF NamespaceContents, refsWhere, Contains

(* PodsSelectedBy: the pods the live owner's selector binds (state.go:102).  *)
LEMMA PodsSelectedByAre ==
  ASSUME NEW r, tracked(call.s, r)
  PROVE  PodsSelectedBy(call.s, r)
           = {p.ref : p \in {q \in call.s.objs :
               SelectsPod(obj(r).ref.ns, obj(r).ref.kind, obj(r).selector, q)}}
BY DEF PodsSelectedBy, PodsMatching, refsWhere, SelectsPod, obj

(* ControllersTargeting: the objects with a scale reference to the target    *)
(* (state.go:164).                                                           *)
LEMMA ControllersTargetingAre ==
  ASSUME NEW r, tracked(call.s, r)
  PROVE  ControllersTargeting(call.s, r)
           = {p.ref : p \in {q \in call.s.objs : RefersTo(q, obj(r), TRUE)}}
BY DEF ControllersTargeting, refsWhere, RefersTo, obj

(* Consumers: the objects with any other reference to the target            *)
(* (state.go:143).                                                           *)
LEMMA ConsumersAre ==
  ASSUME NEW r, tracked(call.s, r)
  PROVE  Consumers(call.s, r)
           = {p.ref : p \in {q \in call.s.objs : RefersTo(q, obj(r), FALSE)}}
BY DEF Consumers, refsWhere, RefersTo, obj

(* The binding objects recorded for a pod (closure.go:81-85) are those that  *)
(* bind the live pod in its own namespace.                                   *)
LEMMA BindingsAre ==
  ASSUME NEW r, tracked(call.s, r), human(obj(r).ref) = human(r)
  PROVE  bindings(call.s, r) = {b.ref : b \in {q \in call.s.objs : BindsPod(q, obj(r))}}
<1>1. obj(r).ref.kind = r.kind /\ obj(r).ref.ns = r.ns
  BY DEF human
<1> QED
  BY <1>1 DEF bindings, SelectorsTargeting, SelectorsMatchingLabels, refsWhere,
                 obj, BindsPod, BindsLabels

(* What a selector mutation appends (selectorMutationAffected): the pods     *)
(* that the old or the new selector binds.                                   *)
LEMMA SelectorMutationIs ==
  selectorMutationAffected(call.s, call.a)
    = {p.ref : p \in {q \in call.s.objs : \E payload \in call.a.old \cup call.a.new :
         SelectsPod(call.a.target.ns, call.a.target.kind, payload.selector, q)}}
BY DEF selectorMutationAffected, payloads, PodsMatching, refsWhere, SelectsPod

(* What a label mutation appends (labelMutationAffected): the objects that   *)
(* bind the old or the new labels.                                           *)
LEMMA LabelMutationIs ==
  labelMutationAffected(call.s, call.a)
    = {p.ref : p \in {q \in call.s.objs : \E payload \in call.a.old \cup call.a.new :
         BindsLabels(q, call.a.target.ns, payload.labels)}}
BY DEF labelMutationAffected, payloads, SelectorsMatchingLabels, refsWhere, BindsLabels

(* The successors of a ref are the refs of the objects its object affects, *)
(* and, for the target, of those the mutation binds.                       *)
LEMMA SuccessorsAre ==
  ASSUME NEW r, tracked(call.s, r), human(obj(r).ref) = human(r)
  PROVE  successors(call.s, call.a, r) =
           {p.ref : p \in {q \in call.s.objs :
              \/ Affects(classify(call.a), obj(r), q)
              \/ key(r) = key(call.a.target) /\ AffectedByMutation(call.a, q)}}
<1>1. obj(r).ref.kind = r.kind /\ obj(r).ref.name = r.name
  BY DEF human
<1> DEFINE classes == classify(call.a)
           a == call.a
           s == call.s
<1>2. \A x : x \in successors(s, a, r) <=>
        \/ "CascadeDelete" \in classes /\ x \in OwnedChildren(s, r)
        \/ "Containment" \in classes /\ r.kind = "Namespace" /\ x \in NamespaceContents(s, r.name)
        \/ "Disruptive" \in classes /\ r.kind \in workloadKinds /\ x \in PodsSelectedBy(s, r)
        \/ "ScaleEffect" \in classes /\ r.kind \in workloadKinds /\ x \in ControllersTargeting(s, r)
        \/ "MutateConfig" \in classes /\ r.kind \in mountableKinds /\ x \in Consumers(s, r)
        \/ "MutateSelector" \in classes /\ key(r) = key(a.target) /\ x \in selectorMutationAffected(s, a)
        \/ "MutateLabels" \in classes /\ key(r) = key(a.target) /\ x \in labelMutationAffected(s, a)
  BY DEF successors
<1>3. \A x : r.kind = "Namespace" =>
        (x \in NamespaceContents(s, r.name) <=> \E q \in s.objs : Contains(obj(r), q) /\ x = q.ref)
  BY <1>1, NamespaceContentsAre
<1>4. r.kind # "Namespace" => \A q : ~Contains(obj(r), q)
  BY <1>1 DEF Contains
<1>5. \A x : x \in OwnedChildren(s, r) <=> \E q \in s.objs : Owns(obj(r), q) /\ x = q.ref
  BY OwnedChildrenAre
<1>6. \A x : x \in PodsSelectedBy(s, r) <=>
        \E q \in s.objs : SelectsPod(obj(r).ref.ns, obj(r).ref.kind, obj(r).selector, q) /\ x = q.ref
  BY PodsSelectedByAre
<1>7. \A x : x \in ControllersTargeting(s, r) <=>
        \E q \in s.objs : RefersTo(q, obj(r), TRUE) /\ x = q.ref
  BY ControllersTargetingAre
<1>8. \A x : x \in Consumers(s, r) <=>
        \E q \in s.objs : RefersTo(q, obj(r), FALSE) /\ x = q.ref
  BY ConsumersAre
<1>9. \A x :
        (\/ "MutateSelector" \in classes /\ x \in selectorMutationAffected(s, a)
         \/ "MutateLabels" \in classes /\ x \in labelMutationAffected(s, a))
        <=> \E q \in s.objs : AffectedByMutation(a, q) /\ x = q.ref
  BY SelectorMutationIs, LabelMutationIs DEF AffectedByMutation
<1>10. \A x : x \in successors(s, a, r) <=>
         \E q \in s.objs :
           /\ x = q.ref
           /\ \/ Affects(classes, obj(r), q)
              \/ key(r) = key(a.target) /\ AffectedByMutation(a, q)
  <2> HIDE DEF classes, s, a
  <2> QED
    BY <1>1, <1>2, <1>3, <1>4, <1>5, <1>6, <1>7, <1>8, <1>9 DEF Affects
<1> QED
  BY <1>10

-----------------------------------------------------------------------------
(* The least closed set.                                                   *)

(* X holds what the action touches first and all that its members affect.    *)
Closed(s, a, X) ==
  /\ Seeds(s, a) \subseteq X
  /\ \A o \in X, p \in s.objs : Affects(classify(a), o, p) => p \in X

(* Everything an edge leads to, or the walk starts from, is touchable.       *)
LEMMA TouchableIs ==
  ASSUME NEW s, NEW a, Seeds(s, a) \subseteq s.objs
  PROVE  /\ Touchable(s, a) \subseteq s.objs
         /\ Seeds(s, a) \subseteq Touchable(s, a)
         /\ \A o, p \in s.objs :
              Affects(classify(a), o, p) => p \in Touchable(s, a)
<1>1. \A o, p \in s.objs :
        Affects(classify(a), o, p) => <<o, p>> \in Edges(s, a)
  BY DEF Edges
<1>2. \A o, p : <<o, p>>[2] = p
  OBVIOUS
<1>3. \A e \in Edges(s, a) : e[2] \in s.objs
  BY DEF Edges
<1>4. \A o, p \in s.objs :
        Affects(classify(a), o, p) => p \in {e[2] : e \in Edges(s, a)}
  BY <1>1, <1>2
<1> QED
  BY <1>3, <1>4 DEF Touchable

(* ClosedSets, which is written over a set of edges so that TLC can          *)
(* enumerate it, holds the closed sets of touchable objects.                 *)
LEMMA ClosedSetsAre ==
  ASSUME NEW s, NEW a, Seeds(s, a) \subseteq s.objs, NEW X
  PROVE  X \in ClosedSets(s, a) <=> X \subseteq Touchable(s, a) /\ Closed(s, a, X)
<1>1. ASSUME X \subseteq Touchable(s, a)
      PROVE  (\A o \in X, p \in s.objs : Affects(classify(a), o, p) => p \in X)
               <=> (\A e \in Edges(s, a) : e[1] \in X => e[2] \in X)
  <2>1. X \subseteq s.objs
    BY <1>1, TouchableIs
  <2>2. \A o, p \in s.objs :
          Affects(classify(a), o, p) <=> <<o, p>> \in Edges(s, a)
    BY DEF Edges
  <2>3. \A e \in Edges(s, a) :
          e[1] \in s.objs /\ e[2] \in s.objs /\ e = <<e[1], e[2]>>
    BY DEF Edges
  <2>4. ASSUME \A e \in Edges(s, a) : e[1] \in X => e[2] \in X,
               NEW o \in X, NEW p \in s.objs, Affects(classify(a), o, p)
        PROVE  p \in X
    <3>1. <<o, p>> \in Edges(s, a)
      BY <2>1, <2>2, <2>4
    <3> QED
      BY <2>4, <3>1
  <2>5. ASSUME \A o \in X, p \in s.objs : Affects(classify(a), o, p) => p \in X,
               NEW e \in Edges(s, a), e[1] \in X
        PROVE  e[2] \in X
    BY <2>1, <2>2, <2>3, <2>5
  <2> QED
    BY <2>4, <2>5
<1> QED
  BY <1>1 DEF ClosedSets, Closed

(* Reached is closed itself and lies within every closed set: the closure    *)
(* the walk of Closure (closure.go:29-86) has to compute.                    *)
LEMMA LeastClosedSet ==
  ASSUME NEW s, NEW a, Seeds(s, a) \subseteq s.objs
  PROVE  LET R == Reached(s, a)
         IN  /\ R \subseteq s.objs /\ R \subseteq Touchable(s, a) /\ Closed(s, a, R)
             /\ \A X : X \subseteq Touchable(s, a) /\ Closed(s, a, X) => R \subseteq X
<1> DEFINE R == Reached(s, a)
           T == Touchable(s, a)
           C == ClosedSets(s, a)
<1>1. R = {o \in T : \A X \in C : o \in X}
  BY DEF Reached
<1>2. \A X : X \in C <=> X \subseteq T /\ Closed(s, a, X)
  BY ClosedSetsAre
<1>3. T \subseteq s.objs
  BY TouchableIs
<1>4. Seeds(s, a) \subseteq R
  BY <1>1, <1>2, TouchableIs DEF Closed
<1>5. ASSUME NEW o \in R, NEW p \in s.objs, Affects(classify(a), o, p)
      PROVE  p \in R
  <2>1. p \in T
    BY <1>1, <1>3, <1>5, TouchableIs
  <2>2. ASSUME NEW X \in C PROVE p \in X
    BY <1>1, <1>2, <1>5, <2>2 DEF Closed
  <2> QED
    BY <1>1, <2>1, <2>2
<1>6. Closed(s, a, R)
  BY <1>4, <1>5 DEF Closed
<1> HIDE DEF T, C, R
<1>7. ASSUME NEW X, X \subseteq T, Closed(s, a, X) PROVE R \subseteq X
  BY <1>1, <1>2, <1>7
<1> QED
  BY <1>1, <1>3, <1>6, <1>7 DEF T, R

(* The target's object and what its mutation binds are tracked objects.      *)
LEMMA SeedsAreObjects ==
  ASSUME GoodCall
  PROVE  Seeds(call.s, call.a) \subseteq call.s.objs
<1>1. tracked(call.s, call.a.target) => lookup(call.s, call.a.target) \in call.s.objs
  BY NodeResolves DEF Nodes, obj
<1> QED
  BY <1>1 DEF Seeds

(* For the call under way.                                                   *)
LEMMA ReachedIsLeast ==
  ASSUME GoodCall
  PROVE  /\ reached \subseteq call.s.objs
         /\ reached \subseteq Touchable(call.s, call.a)
         /\ Closed(call.s, call.a, reached)
         /\ \A X : X \subseteq Touchable(call.s, call.a) /\ Closed(call.s, call.a, X) =>
                reached \subseteq X
BY SeedsAreObjects, LeastClosedSet DEF reached

-----------------------------------------------------------------------------
(* The map.                                                                *)

(* put replaces the entries of the given refs, keeps the others, and files *)
(* each ref under its own key (closure.go:32-36, affected[ref.key()] = ref). *)
LEMMA PutIs ==
  ASSUME NEW m, NEW refs
  PROVE  /\ DOMAIN put(m, refs) = DOMAIN m \cup keysOf(refs)
         /\ \A k \in keysOf(refs) : put(m, refs)[k] \in refs /\ key(put(m, refs)[k]) = k
         /\ \A k \in DOMAIN m \ keysOf(refs) : put(m, refs)[k] = m[k]
<1>1. ASSUME NEW k \in keysOf(refs)
      PROVE  put(m, refs)[k] = (CHOOSE r \in refs : key(r) = k) /\ \E r \in refs : key(r) = k
  BY DEF put, keysOf
<1>2. \A k \in keysOf(refs) : put(m, refs)[k] \in refs /\ key(put(m, refs)[k]) = k
  BY <1>1
<1> QED
  BY <1>2 DEF put

(* What an expansion records (closure.go:35-36 and 78-85): the popped ref    *)
(* and the bindings, each under its own key.                                 *)
LEMMA ExpandFiles ==
  ASSUME TypeOK, NEW cur \in queue, Expand(cur)
  PROVE  LET B == bindings(call.s, cur)
         IN  /\ DOMAIN affected' = DOMAIN affected \cup {key(cur)} \cup keysOf(B)
             /\ \A k \in DOMAIN affected' :
                  /\ key(affected'[k]) = k
                  /\ \/ affected'[k] \in B \cup {cur}
                     \/ k \in DOMAIN affected /\ affected'[k] = affected[k]
<1> DEFINE B == bindings(call.s, cur)
           one == put(affected, {cur})
           both == put(one, B)
<1>1. affected' = both
  BY DEF Expand
<1>2. keysOf({cur}) = {key(cur)}
  BY DEF keysOf
<1>3. /\ DOMAIN one = DOMAIN affected \cup {key(cur)}
      /\ one[key(cur)] = cur
      /\ \A k \in DOMAIN affected \ {key(cur)} : one[k] = affected[k]
  <2>1. key(cur) \in keysOf({cur})
    BY <1>2
  <2>2. one[key(cur)] \in {cur}
    BY <2>1, PutIs
  <2> QED
    BY <1>2, <2>2, PutIs
<1>4. /\ DOMAIN both = DOMAIN one \cup keysOf(B)
      /\ \A k \in keysOf(B) : both[k] \in B /\ key(both[k]) = k
      /\ \A k \in DOMAIN one \ keysOf(B) : both[k] = one[k]
  <2> HIDE DEF one, B
  <2> QED
    BY PutIs
<1>5. \A k \in DOMAIN affected : key(affected[k]) = k
  BY DEF TypeOK
<1> HIDE DEF one, both, B
<1>6. ASSUME NEW k \in DOMAIN both
      PROVE  /\ key(both[k]) = k
             /\ \/ both[k] \in B \cup {cur}
                \/ k \in DOMAIN affected /\ both[k] = affected[k]
  <2>1. CASE k \in keysOf(B)
    BY <1>4, <2>1
  <2>2. CASE k \notin keysOf(B) /\ k = key(cur)
    BY <1>3, <1>4, <2>2
  <2>3. CASE k \notin keysOf(B) /\ k # key(cur)
    BY <1>3, <1>4, <1>5, <2>3
  <2> QED
    BY <2>1, <2>2, <2>3
<1>7. DOMAIN both = DOMAIN affected \cup {key(cur)} \cup keysOf(B)
  BY <1>3, <1>4
<1> QED
  BY <1>1, <1>6, <1>7 DEF B

(* Every method of State answers with refs of tracked objects               *)
(* (closure.go:14-16, "every queued ref comes from a State method").         *)
LEMMA MethodsReturnRefs ==
  ASSUME NEW r
  PROVE  /\ successors(call.s, call.a, r) \subseteq trackedRefs
         /\ bindings(call.s, r) \subseteq trackedRefs
<1>1. /\ OwnedChildren(call.s, r) \subseteq trackedRefs
      /\ NamespaceContents(call.s, r.name) \subseteq trackedRefs
      /\ PodsSelectedBy(call.s, r) \subseteq trackedRefs
      /\ ControllersTargeting(call.s, r) \subseteq trackedRefs
      /\ Consumers(call.s, r) \subseteq trackedRefs
      /\ SelectorsTargeting(call.s, r) \subseteq trackedRefs
  BY DEF OwnedChildren, NamespaceContents, PodsSelectedBy, PodsMatching, ControllersTargeting,
         Consumers, SelectorsTargeting, SelectorsMatchingLabels, refsWhere, trackedRefs
<1>2. /\ selectorMutationAffected(call.s, call.a) \subseteq trackedRefs
      /\ labelMutationAffected(call.s, call.a) \subseteq trackedRefs
  BY SelectorMutationIs, LabelMutationIs DEF trackedRefs
<1>3. bindings(call.s, r) \subseteq trackedRefs
  BY <1>1 DEF bindings
<1>4. successors(call.s, call.a, r) \subseteq trackedRefs
  BY <1>1, <1>2 DEF successors
<1> QED
  BY <1>3, <1>4

(* No step leaves the types, whatever the state was built from.              *)
LEMMA TypesKept ==
  ASSUME TypeOK, [Next]_vars
  PROVE  TypeOK'
<1>1. ASSUME UNCHANGED call PROVE trackedRefs' = trackedRefs
  BY <1>1 DEF trackedRefs
<1>2. ASSUME NEW cur \in queue, Skip(cur) PROVE TypeOK'
  BY <1>1, <1>2 DEF Skip, TypeOK
<1>3. ASSUME NEW cur \in queue, Expand(cur) PROVE TypeOK'
  <2>1. /\ call' = call /\ pc' = pc
        /\ visited' = visited \cup {key(cur)}
        /\ queue' = (queue \ {cur}) \cup successors(call.s, call.a, cur)
    BY <1>3 DEF Expand
  <2>2. trackedRefs' = trackedRefs
    BY <1>1, <2>1
  <2>3. key(cur) \in keysOf(trackedRefs \cup {call.a.target})
    BY DEF TypeOK, keysOf
  <2>4. \A k \in DOMAIN affected' :
          affected'[k] \in trackedRefs \cup {call.a.target} /\ key(affected'[k]) = k
    BY <1>3, ExpandFiles, MethodsReturnRefs DEF TypeOK
  <2>5. queue' \subseteq trackedRefs \cup {call.a.target}
    BY <2>1, MethodsReturnRefs DEF TypeOK
  <2> QED
    BY <2>1, <2>2, <2>3, <2>4, <2>5 DEF TypeOK
<1>4. CASE Return
  BY <1>1, <1>4 DEF Return, TypeOK
<1>5. CASE UNCHANGED vars
  BY <1>1, <1>5 DEF vars, TypeOK
<1> QED
  BY <1>2, <1>3, <1>4, <1>5 DEF Next

(* What an expansion records, object by object.                            *)
LEMMA ExpandRecords ==
  ASSUME TypeOK, MembersResolve, GoodCall, NEW cur \in queue, Expand(cur)
  PROVE  LET B == bindings(call.s, cur)
         IN  /\ DOMAIN affected' = DOMAIN affected \cup {key(cur)} \cup keysOf(B)
             /\ \A k \in DOMAIN affected' :
                  /\ affected'[k] \in Nodes
                  /\ key(affected'[k]) = k
                  /\ tracked(call.s, affected'[k])
                  /\ \A r \in Nodes : key(r) = k => obj(affected'[k]) = obj(r)
<1> DEFINE B == bindings(call.s, cur)
<1>1. cur \in Nodes /\ tracked(call.s, cur)
  BY DEF TypeOK, MembersResolve, Nodes
<1>2. \A r \in B : r \in Nodes /\ tracked(call.s, r)
  BY MethodsReturnRefs, RefResolves DEF trackedRefs
<1>3. \A k \in DOMAIN affected : affected[k] \in Nodes /\ tracked(call.s, affected[k])
  BY DEF TypeOK, MembersResolve, Nodes, members
<1>4. \A k \in DOMAIN affected' :
        affected'[k] \in Nodes /\ key(affected'[k]) = k /\ tracked(call.s, affected'[k])
  BY <1>1, <1>2, <1>3, ExpandFiles
<1>5. ASSUME NEW k \in DOMAIN affected', NEW r \in Nodes, key(r) = k
      PROVE  obj(affected'[k]) = obj(r)
  BY <1>4, <1>5, SameKeySameObject
<1> QED
  BY <1>4, <1>5, ExpandFiles

(* An expansion seen through lookup: its object becomes expanded, what it  *)
(* affects becomes pending, what binds it becomes recorded.                *)
LEMMA ExpandObjects ==
  ASSUME TypeOK, MembersResolve, visited \subseteq DOMAIN affected,
         GoodCall, NEW cur \in queue, Expand(cur)
  PROVE  LET hit == {q \in call.s.objs :
                       \/ Affects(classify(call.a), obj(cur), q)
                       \/ key(cur) = key(call.a.target) /\ AffectedByMutation(call.a, q)}
             binding == {q \in call.s.objs : BindsPod(q, obj(cur))}
         IN  /\ expanded' = expanded \cup {obj(cur)}
             /\ pending \cup hit \subseteq pending' \cup {obj(cur)}
             /\ pending' \subseteq pending \cup hit
             /\ hit \subseteq pending'
             /\ recorded' = recorded \cup {obj(cur)} \cup binding
<1> DEFINE S == successors(call.s, call.a, cur)
           B == bindings(call.s, cur)
           hit == {q \in call.s.objs :
                     \/ Affects(classify(call.a), obj(cur), q)
                     \/ key(cur) = key(call.a.target) /\ AffectedByMutation(call.a, q)}
           binding == {q \in call.s.objs : BindsPod(q, obj(cur))}
<1>1. /\ call' = call
      /\ visited' = visited \cup {key(cur)}
      /\ queue' = (queue \ {cur}) \cup S
  BY DEF Expand
<1>2. cur \in Nodes /\ tracked(call.s, cur)
  BY DEF TypeOK, MembersResolve, Nodes
<1>3. S = {p.ref : p \in hit}
  BY <1>2, NodeResolves, SuccessorsAre
<1>4. B = {p.ref : p \in binding}
  BY <1>2, NodeResolves, BindingsAre
<1>5. \A p \in call.s.objs : p.ref \in Nodes /\ obj(p.ref) = p
  BY RefResolves
<1>6. \A r : obj(r)' = obj(r)
  BY <1>1 DEF obj
<1> HIDE DEF hit, binding
<1>7. hit \subseteq call.s.objs /\ binding \subseteq call.s.objs
  BY DEF hit, binding
<1>8. /\ DOMAIN affected' = DOMAIN affected \cup {key(cur)} \cup keysOf(B)
      /\ \A k \in DOMAIN affected', r \in Nodes : key(r) = k => obj(affected'[k]) = obj(r)
  BY ExpandRecords
<1>9. \A k \in DOMAIN affected : obj(affected'[k]) = obj(affected[k])
  BY <1>8 DEF TypeOK, Nodes
<1>10. obj(affected'[key(cur)]) = obj(cur)
  BY <1>2, <1>8
<1>11. \A p \in binding : key(p.ref) \in keysOf(B) /\ obj(affected'[key(p.ref)]) = p
  BY <1>4, <1>5, <1>7, <1>8 DEF keysOf
<1>12. \A k \in keysOf(B) : \E p \in binding : k = key(p.ref)
  BY <1>4 DEF keysOf
<1>13. expanded' = expanded \cup {obj(cur)}
  <2>1. expanded' = {obj(affected'[k]) : k \in visited'}
    BY <1>6 DEF expanded
  <2> QED
    BY <2>1, <1>1, <1>9, <1>10 DEF expanded
<1>14. recorded' = recorded \cup {obj(cur)} \cup binding
  <2>1. recorded' = {obj(affected'[k]) : k \in DOMAIN affected'}
    BY <1>6 DEF recorded, members
  <2>2. recorded = {obj(affected[k]) : k \in DOMAIN affected}
    BY DEF recorded, members
  <2>3. \A o : o \in recorded' <=> \E k \in DOMAIN affected' : o = obj(affected'[k])
    BY <2>1
  <2>4. \A o : o \in recorded' <=> o \in recorded \/ o = obj(cur) \/ o \in binding
    BY <2>2, <2>3, <1>8, <1>9, <1>10, <1>11, <1>12
  <2> QED
    BY <2>4
<1>15. pending' = {obj(r) : r \in (queue \ {cur}) \cup S}
  BY <1>1, <1>6 DEF pending
<1>16. hit \subseteq pending' /\ pending' \subseteq pending \cup hit
  BY <1>3, <1>5, <1>7, <1>15 DEF pending
<1>17. pending \subseteq pending' \cup {obj(cur)}
  BY <1>15 DEF pending
<1> QED
  BY <1>13, <1>14, <1>16, <1>17 DEF hit, binding

-----------------------------------------------------------------------------
(* The inductive invariant: one lemma per part of the specification.       *)

IndInv == GoodCall /\ IInv

(* Nothing is expanded, and the target, if it is known, is all there is to *)
(* do (closure.go:20-27).                                                  *)
AtStart ==
  /\ queue = IF tracked(call.s, call.a.target) THEN {call.a.target} ELSE {}
  /\ visited = {} /\ affected = emptyMap /\ pc = "walk"

(* The walk of any good call starts in the invariant.                      *)
LEMMA StartIsInvariant ==
  ASSUME GoodCall, AtStart
  PROVE  IndInv
<1> USE DEF AtStart
<1>2. members = {} /\ visited = {} /\ DOMAIN affected = {}
  BY DEF emptyMap, members
<1>3. expanded = {} /\ recorded = {}
  BY <1>2 DEF expanded, recorded
<1>4. \A r \in queue : r = call.a.target /\ tracked(call.s, r)
  OBVIOUS
<1>5. TypeOK
  BY <1>2, <1>4 DEF TypeOK
<1>6. MembersResolve
  BY <1>2, <1>4 DEF MembersResolve
<1>7. NothingLost
  BY <1>2, <1>3 DEF NothingLost
<1>8. pending \subseteq Seeds(call.s, call.a)
  BY <1>4 DEF pending, obj, Seeds
<1>9. NothingInvented
  BY <1>3, <1>8, ReachedIsLeast DEF NothingInvented, Closed
<1> QED
  BY <1>5, <1>6, <1>7, <1>9 DEF IndInv, IInv

(* And CallsAssumption makes every call of this specification good.        *)
LEMMA InitEstablishes == Init => IndInv
<1> SUFFICES ASSUME Init PROVE IndInv
  OBVIOUS
<1>1. GoodCall
  BY CallsAssumption DEF Init, GoodCall
<1>2. AtStart
  BY DEF Init, AtStart
<1> QED
  BY <1>1, <1>2, StartIsInvariant

(* Dropping a ref whose key was expanded loses nothing: the ref names an   *)
(* object that is expanded already (closure.go:30-32).                     *)
LEMMA SkipKeeps ==
  ASSUME IndInv, NEW cur \in queue, Skip(cur)
  PROVE  IndInv'
<1> USE DEF IndInv, IInv
<1>1. /\ call' = call /\ visited' = visited /\ affected' = affected /\ pc' = pc
      /\ queue' = queue \ {cur}
      /\ key(cur) \in visited
      /\ pc = "walk"
  BY DEF Skip
<1>2. cur \in Nodes /\ tracked(call.s, cur)
  BY DEF TypeOK, MembersResolve, Nodes
<1>3. obj(cur) \in expanded
  <2>1. key(cur) \in DOMAIN affected
    BY <1>1 DEF NothingLost
  <2>2. affected[key(cur)] \in Nodes /\ key(affected[key(cur)]) = key(cur)
    BY <2>1 DEF TypeOK, Nodes
  <2>3. obj(affected[key(cur)]) = obj(cur)
    BY <1>2, <2>2, SameKeySameObject
  <2> QED
    BY <1>1, <2>3 DEF expanded
<1>4. \A r : obj(r)' = obj(r)
  BY <1>1 DEF obj
<1>5. expanded' = expanded /\ recorded' = recorded /\ members' = members /\ reached' = reached
  BY <1>1, <1>4 DEF expanded, recorded, members, reached
<1>6. pending' \subseteq pending /\ pending \subseteq pending' \cup expanded
  BY <1>1, <1>3, <1>4 DEF pending
<1>7. TypeOK'
  BY TypesKept DEF Next
<1>8. MembersResolve'
  BY <1>1, <1>5 DEF MembersResolve
<1>9. NothingLost'
  BY <1>1, <1>5, <1>6 DEF NothingLost
<1>10. NothingInvented'
  BY <1>1, <1>5, <1>6 DEF NothingInvented
<1> QED
  BY <1>1, <1>7, <1>8, <1>9, <1>10 DEF GoodCall

(* Recording a ref and appending its successors keeps everything: what its *)
(* object affects becomes pending, what binds it becomes recorded, and     *)
(* both belong to the least closed set (closure.go:33-85).                 *)
LEMMA ExpandKeeps ==
  ASSUME IndInv, NEW cur \in queue, Expand(cur)
  PROVE  IndInv'
<1> DEFINE S == successors(call.s, call.a, cur)
           B == bindings(call.s, cur)
           hit == {q \in call.s.objs :
                     \/ Affects(classify(call.a), obj(cur), q)
                     \/ key(cur) = key(call.a.target) /\ AffectedByMutation(call.a, q)}
           binding == {q \in call.s.objs : BindsPod(q, obj(cur))}
<1>1. /\ GoodCall /\ TypeOK /\ MembersResolve /\ NothingLost /\ NothingInvented
      /\ visited \subseteq DOMAIN affected
  BY DEF IndInv, IInv, NothingLost
<1>2. /\ call' = call /\ pc' = pc /\ pc = "walk"
      /\ visited' = visited \cup {key(cur)}
      /\ queue' = (queue \ {cur}) \cup S
  BY DEF Expand
<1>3. cur \in Nodes /\ tracked(call.s, cur)
  BY <1>1 DEF TypeOK, MembersResolve, Nodes
<1>4. /\ expanded' = expanded \cup {obj(cur)}
      /\ pending \subseteq pending' \cup {obj(cur)}
      /\ pending' \subseteq pending \cup hit
      /\ hit \subseteq pending'
      /\ recorded' = recorded \cup {obj(cur)} \cup binding
  <2> HIDE DEF IndInv
  <2> QED
    BY <1>1, ExpandObjects
<1>5. /\ DOMAIN affected' = DOMAIN affected \cup {key(cur)} \cup keysOf(B)
      /\ \A k \in DOMAIN affected' :
           affected'[k] \in Nodes /\ key(affected'[k]) = k /\ tracked(call.s, affected'[k])
  BY <1>1, ExpandRecords
<1>6. \A r \in S : r \in trackedRefs /\ tracked(call.s, r)
  <2>1. S = {p.ref : p \in hit}
    BY <1>1, <1>3, NodeResolves, SuccessorsAre
  <2> QED
    BY <1>1, <2>1, RefResolves DEF trackedRefs
<1>7. obj(cur) \in reached /\ obj(cur) \in call.s.objs
  BY <1>1, <1>3, NodeResolves DEF NothingInvented, pending
<1>8. reached' = reached
  BY <1>2 DEF reached
<1> HIDE DEF S, B
<1>9. TypeOK'
  BY <1>1, TypesKept DEF Next
<1>10. MembersResolve'
  BY <1>1, <1>2, <1>5, <1>6 DEF MembersResolve, members
<1>11. NothingLost'
  <2>1. visited' \subseteq DOMAIN affected'
    BY <1>1, <1>2, <1>5
  <2>2. tracked(call.s, call.a.target)
          => call.a.target \in queue' \/ key(call.a.target) \in visited'
    BY <1>1, <1>2 DEF NothingLost
  <2>3. ASSUME key(call.a.target) \in visited', NEW p \in call.s.objs, AffectedByMutation(call.a, p)
        PROVE  p \in expanded' \cup pending'
    <3>1. CASE key(call.a.target) \in visited
      BY <1>1, <1>4, <2>3, <3>1 DEF NothingLost
    <3>2. CASE key(call.a.target) = key(cur)
      BY <1>4, <2>3, <3>2
    <3> QED
      BY <1>2, <2>3, <3>1, <3>2
  <2>4. ASSUME NEW o \in expanded', NEW p \in call.s.objs, Affects(classify(call.a), o, p)
        PROVE  p \in expanded' \cup pending'
    <3>1. CASE o \in expanded
      BY <1>1, <1>4, <2>4, <3>1 DEF NothingLost
    <3>2. CASE o = obj(cur)
      BY <1>4, <2>4, <3>2
    <3> QED
      BY <1>4, <2>4, <3>1, <3>2
  <2>5. ASSUME NEW o \in expanded', NEW b \in call.s.objs, BindsPod(b, o)
        PROVE  b \in recorded'
    BY <1>1, <1>4, <2>5 DEF NothingLost
  <2> QED
    BY <1>2, <2>1, <2>2, <2>3, <2>4, <2>5 DEF NothingLost
<1>12. NothingInvented'
  <2>1. hit \subseteq reached
    <3>1. ASSUME NEW q \in call.s.objs, Affects(classify(call.a), obj(cur), q)
          PROVE  q \in reached
      BY <1>1, <1>7, <3>1, ReachedIsLeast DEF Closed
    <3>2. ASSUME NEW q \in call.s.objs, key(cur) = key(call.a.target), AffectedByMutation(call.a, q)
          PROVE  q \in reached
      <4>1. tracked(call.s, call.a.target)
        BY <1>1, <1>3, <3>2, SameKeySameObject DEF Nodes
      <4>2. q \in Seeds(call.s, call.a)
        BY <3>2, <4>1 DEF Seeds
      <4> QED
        BY <1>1, <4>2, ReachedIsLeast DEF Closed
    <3> QED
      BY <3>1, <3>2
  <2>2. expanded' \cup pending' \subseteq reached
    BY <1>1, <1>4, <1>7, <2>1 DEF NothingInvented
  <2>3. recorded' \subseteq AffectedObjects(call.s, call.a)
    <3>1. AffectedObjects(call.s, call.a) = reached \cup Bindings(call.s, reached)
      BY DEF AffectedObjects, reached
    <3>2. binding \subseteq Bindings(call.s, reached)
      BY <1>7 DEF Bindings
    <3> QED
      BY <1>1, <1>4, <1>7, <3>1, <3>2 DEF NothingInvented
  <2> QED
    BY <1>2, <1>8, <2>2, <2>3 DEF NothingInvented
<1> QED
  BY <1>1, <1>2, <1>9, <1>10, <1>11, <1>12 DEF IndInv, IInv, GoodCall

(* Returning changes nothing but the program counter (closure.go:88).      *)
LEMMA ReturnKeeps ==
  ASSUME IndInv, Return
  PROVE  IndInv'
<1> USE DEF IndInv, IInv, Return
<1>1. \A r : obj(r)' = obj(r)
  BY DEF obj
<1>2. /\ expanded' = expanded /\ pending' = pending /\ recorded' = recorded
      /\ members' = members /\ reached' = reached
  BY <1>1 DEF expanded, pending, recorded, members, reached
<1>3. TypeOK' /\ MembersResolve'
  BY <1>2, TypesKept DEF Next, MembersResolve
<1>4. NothingLost' /\ NothingInvented'
  BY <1>2 DEF NothingLost, NothingInvented
<1> QED
  BY <1>3, <1>4 DEF GoodCall

(* Every step of the walk, and stuttering, keeps the invariant.              *)
LEMMA NextKeeps == IndInv /\ [Next]_vars => IndInv'
<1> SUFFICES ASSUME IndInv, [Next]_vars PROVE IndInv'
  OBVIOUS
<1>1. CASE Return
  BY <1>1, ReturnKeeps
<1>2. ASSUME NEW cur \in queue, Skip(cur) PROVE IndInv'
  BY <1>2, SkipKeeps
<1>3. ASSUME NEW cur \in queue, Expand(cur) PROVE IndInv'
  BY <1>3, ExpandKeeps
<1>4. CASE UNCHANGED vars
  <2> USE <1>4 DEF vars
  <2>1. \A r : obj(r)' = obj(r)
    BY DEF obj
  <2>2. /\ expanded' = expanded /\ pending' = pending /\ recorded' = recorded
        /\ members' = members /\ reached' = reached
    BY <2>1 DEF expanded, pending, recorded, members, reached
  <2> QED
    BY <2>2, TypesKept DEF IndInv, IInv, GoodCall, MembersResolve, NothingLost, NothingInvented
<1> QED
  BY <1>1, <1>2, <1>3, <1>4 DEF Next

(* The call is one of those given, and stays the same.                     *)
LEMMA CallIsGiven == Spec => [](call \in Calls)
<1>1. Init => call \in Calls
  BY DEF Init
<1>2. call \in Calls /\ [Next]_vars => (call \in Calls)'
  BY DEF Next, Return, Skip, Expand, vars
<1> QED
  BY <1>1, <1>2, PTL DEF Spec

(* The invariant holds in every state of the walk.                         *)
THEOREM WalkInvariant == Spec => []IndInv
  BY InitEstablishes, NextKeeps, PTL DEF Spec

(* Types: the queue holds only the target and refs of live objects, and    *)
(* every map entry sits under its own key (closure.go:14-16).              *)
THEOREM TypesHold == Spec => []TypeOK
<1>1. IndInv => TypeOK
  BY DEF IndInv, IInv
<1> QED
  BY <1>1, WalkInvariant, PTL

(* Whatever the walk queues or reports can be looked up again, the fact    *)
(* Safe relies on to read a member's labels (safe.go:89-95).               *)
THEOREM MembersAlwaysResolve == Spec => []MembersResolve
<1>1. IndInv => MembersResolve
  BY DEF IndInv, IInv
<1> QED
  BY <1>1, WalkInvariant, PTL

-----------------------------------------------------------------------------
(* What the invariant gives when the walk is over.                         *)

(* With an empty queue what is expanded is the least closed set: it is     *)
(* closed, because nothing pends, and lies in every closed set.            *)
LEMMA NothingPendingIsReached ==
  ASSUME IndInv, queue = {}
  PROVE  expanded = reached
<1> USE DEF IndInv, IInv
<1>1. pending = {}
  BY DEF pending
<1>2. expanded \subseteq reached
  BY DEF NothingInvented
<1>3. Seeds(call.s, call.a) \subseteq expanded
  <2>1. CASE ~tracked(call.s, call.a.target)
    BY <2>1 DEF Seeds
  <2>2. CASE tracked(call.s, call.a.target)
    <3>1. key(call.a.target) \in visited /\ key(call.a.target) \in DOMAIN affected
      BY <2>2 DEF NothingLost
    <3>2. affected[key(call.a.target)] \in Nodes
          /\ key(affected[key(call.a.target)]) = key(call.a.target)
      BY <3>1 DEF TypeOK, Nodes
    <3>3. obj(affected[key(call.a.target)]) = lookup(call.s, call.a.target)
      BY <2>2, <3>2, SameKeySameObject DEF Nodes, obj
    <3>4. lookup(call.s, call.a.target) \in expanded
      BY <3>1, <3>3 DEF expanded
    <3>5. \A p \in call.s.objs : AffectedByMutation(call.a, p) => p \in expanded
      BY <1>1, <3>1 DEF NothingLost
    <3> QED
      BY <2>2, <3>4, <3>5 DEF Seeds
  <2> QED
    BY <2>1, <2>2
<1>4. Closed(call.s, call.a, expanded)
  BY <1>1, <1>3 DEF Closed, NothingLost
<1> QED
  BY <1>2, <1>4, ReachedIsLeast

(* Once the work list is empty (closure.go:29), what is recorded is the      *)
(* least closed set with the bindings of its pods.                           *)
LEMMA RecordedIsAffected ==
  ASSUME IndInv, queue = {}
  PROVE  recorded = AffectedObjects(call.s, call.a)
<1>1. AffectedObjects(call.s, call.a) = reached \cup Bindings(call.s, reached)
  BY DEF AffectedObjects, reached
<1>2. recorded \subseteq AffectedObjects(call.s, call.a)
  BY DEF IndInv, IInv, NothingInvented
<1>3. expanded = reached
  BY NothingPendingIsReached
<1>4. expanded \subseteq recorded
  BY DEF IndInv, IInv, NothingLost, expanded, recorded, members
<1>5. Bindings(call.s, expanded) \subseteq recorded
  BY DEF IndInv, IInv, NothingLost, Bindings
<1> QED
  BY <1>1, <1>2, <1>3, <1>4, <1>5

(* The walk implements the abstract closure: it answers once, and its      *)
(* answer is the least closed set with the bindings of its pods, whatever  *)
(* the cluster and the order of expansion (closure.go:19-89).              *)
THEOREM WalkComputesAffectedObjects == Spec => ComputesAffectedObjects
<1>1. Init => Abs!Init
  BY DEF Init, Abs!Init
<1>2. ASSUME IndInv, [Next]_vars PROVE [Abs!Answer]_(Abs!vars)
  <2>1. CASE Return
    <3>1. queue = {} /\ pc = "walk" /\ pc' = "returned" /\ UNCHANGED <<call, affected>>
      BY <2>1 DEF Return
    <3>2. {lookup(call.s, r) : r \in members} = AffectedObjects(call.s, call.a)
      BY <1>2, <3>1, RecordedIsAffected DEF recorded, obj
    <3>3. {lookup(call.s, r) : r \in members}' = {lookup(call.s, r) : r \in members}
      BY <3>1 DEF members
    <3> QED
      BY <3>1, <3>2, <3>3 DEF Abs!Answer
  <2>2. ASSUME NEW cur \in queue, Skip(cur) \/ Expand(cur)
        PROVE  UNCHANGED Abs!vars
    <3>1. pc = "walk" /\ pc' = "walk" /\ call' = call
      BY <2>2 DEF Skip, Expand
    <3> QED
      BY <3>1 DEF Abs!vars
  <2>3. CASE UNCHANGED vars
    <3>1. UNCHANGED <<call, affected, pc>>
      BY <2>3 DEF vars
    <3>2. members' = members
      BY <3>1 DEF members
    <3> QED
      BY <3>1, <3>2 DEF Abs!vars
  <2> QED
    BY <1>2, <2>1, <2>2, <2>3 DEF Next
<1> QED
  BY <1>1, <1>2, WalkInvariant, PTL DEF Spec, ComputesAffectedObjects, Abs!Spec

(* An empty answer and an unknown target are the same thing                *)
(* (closure.go:25-27).                                                     *)
LEMMA EmptyIsUntracked ==
  ASSUME IndInv
  PROVE  EmptyIffUntracked
<1> SUFFICES ASSUME pc = "returned" PROVE members = {} <=> ~tracked(call.s, call.a.target)
  BY DEF EmptyIffUntracked
<1> USE DEF IndInv, IInv
<1>1. queue = {}
  BY DEF NothingLost
<1>2. tracked(call.s, call.a.target) => members # {}
  BY <1>1 DEF NothingLost, members
<1>3. ASSUME ~tracked(call.s, call.a.target) PROVE members = {}
  <2>1. Seeds(call.s, call.a) = {}
    BY <1>3 DEF Seeds
  <2>2. Closed(call.s, call.a, {})
    BY <2>1 DEF Closed
  <2>3. reached = {}
    BY <2>2, ReachedIsLeast
  <2>4. AffectedObjects(call.s, call.a) = {}
    BY <2>3 DEF AffectedObjects, Bindings, reached
  <2>5. recorded = {}
    BY <2>4 DEF NothingInvented
  <2> QED
    BY <2>5 DEF recorded
<1> QED
  BY <1>2, <1>3

(* The closure is empty exactly when the target is unknown, so Safe may    *)
(* fail closed on an empty closure alone (safe.go:18-21).                  *)
THEOREM EmptyExactlyWhenUntracked == Spec => []EmptyIffUntracked
  BY EmptyIsUntracked, WalkInvariant, PTL

-----------------------------------------------------------------------------
(* Two refs of one object have the same bindings, so a later spelling of a *)
(* pod in the map does not lose any.                                       *)
LEMMA SameObjectSameBindings ==
  ASSUME NEW r, NEW q, tracked(call.s, r), tracked(call.s, q), obj(r) = obj(q), r.ns = q.ns
  PROVE  SelectorsTargeting(call.s, r) = SelectorsTargeting(call.s, q)
BY DEF SelectorsTargeting, obj

(* An expansion records a pod together with its bindings (closure.go:81-85), *)
(* and keeps those recorded before, under whatever ref of the pod.           *)
LEMMA BindingsKept ==
  ASSUME IndInv, BindingsRecorded, [Next]_vars
  PROVE  BindingsRecorded'
<1> USE DEF IndInv, IInv
<1>1. ASSUME UNCHANGED <<call, affected>> PROVE BindingsRecorded'
  BY <1>1 DEF BindingsRecorded, members, keysOf
<1>2. ASSUME NEW cur \in queue, Expand(cur) PROVE BindingsRecorded'
  <2> DEFINE B == bindings(call.s, cur)
  <2>1. call' = call
    BY <1>2 DEF Expand
  <2>2. /\ DOMAIN affected' = DOMAIN affected \cup {key(cur)} \cup keysOf(B)
        /\ \A k \in DOMAIN affected' :
             /\ affected'[k] \in Nodes /\ key(affected'[k]) = k
             /\ tracked(call.s, affected'[k])
             /\ \A r \in Nodes : key(r) = k => obj(affected'[k]) = obj(r)
    BY <1>2, ExpandRecords
  <2>3. cur \in Nodes /\ tracked(call.s, cur)
    BY DEF TypeOK, MembersResolve, Nodes
  <2>4. ASSUME NEW r \in Nodes, tracked(call.s, r), key(r) \in DOMAIN affected',
               affected'[key(r)].kind = "Pod"
        PROVE  /\ r.kind = "Pod"
               /\ SelectorsTargeting(call.s, affected'[key(r)]) = SelectorsTargeting(call.s, r)
    <3> DEFINE e == affected'[key(r)]
    <3>1. e \in Nodes /\ tracked(call.s, e) /\ obj(e) = obj(r)
      BY <2>2, <2>4
    <3>2. human(e) = human(obj(e).ref) /\ human(r) = human(obj(r).ref)
      BY <2>4, <3>1, NodeResolves
    <3>3. e.kind = r.kind /\ e.ns = r.ns
      BY <3>1, <3>2 DEF human
    <3> QED
      BY <2>4, <3>1, <3>3, SameObjectSameBindings
  <2>5. ASSUME NEW k \in DOMAIN affected', affected'[k].kind = "Pod"
        PROVE  keysOf(SelectorsTargeting(call.s, affected'[k])) \subseteq DOMAIN affected'
    <3>1. CASE k \in DOMAIN affected
      <4>1. affected[k] \in Nodes /\ key(affected[k]) = k /\ tracked(call.s, affected[k])
        BY <3>1 DEF TypeOK, MembersResolve, members, Nodes
      <4>2. /\ affected[k].kind = "Pod"
            /\ SelectorsTargeting(call.s, affected'[k]) = SelectorsTargeting(call.s, affected[k])
        BY <2>4, <2>5, <4>1
      <4>3. keysOf(SelectorsTargeting(call.s, affected[k])) \subseteq DOMAIN affected
        BY <3>1, <4>2 DEF BindingsRecorded, members
      <4> QED
        BY <2>2, <4>2, <4>3
    <3>2. CASE k = key(cur)
      <4>1. cur.kind = "Pod" /\ SelectorsTargeting(call.s, affected'[k]) = SelectorsTargeting(call.s, cur)
        BY <2>3, <2>4, <2>5, <3>2
      <4>2. SelectorsTargeting(call.s, cur) = B
        BY <4>1 DEF bindings
      <4> QED
        BY <2>2, <4>1, <4>2
    <3>3. CASE k \in keysOf(B)
      <4>1. PICK r \in B : k = key(r)
        BY <3>3 DEF keysOf
      <4>2. PICK b \in call.s.objs : BindsPod(b, obj(cur)) /\ r = b.ref
        BY <2>3, NodeResolves, BindingsAre
      <4>3. r.kind \in selectorKinds
        BY <4>2 DEF BindsPod, BindsLabels
      <4>4. r.kind = "Pod"
        BY <2>4, <2>5, <4>1, <4>2, RefResolves
      <4> QED
        BY <4>3, <4>4 DEF selectorKinds
    <3> QED
      BY <2>2, <3>1, <3>2, <3>3
  <2> QED
    BY <2>1, <2>5 DEF BindingsRecorded, members, keysOf
<1>3. ASSUME NEW cur \in queue, Skip(cur) PROVE BindingsRecorded'
  BY <1>1, <1>3 DEF Skip
<1>4. CASE Return
  BY <1>1, <1>4 DEF Return
<1>5. CASE UNCHANGED vars
  BY <1>1, <1>5 DEF vars
<1> QED
  BY <1>2, <1>3, <1>4, <1>5 DEF Next

(* A pod is never reported without the Services, PodDisruptionBudgets and  *)
(* NetworkPolicies that bind it, at any step (closure.go:81-85).           *)
THEOREM BindingsAlwaysRecorded == Spec => []BindingsRecorded
<1>1. Init => BindingsRecorded
  BY DEF Init, BindingsRecorded, members, emptyMap
<1>2. IndInv /\ BindingsRecorded /\ [Next]_vars => BindingsRecorded'
  BY BindingsKept
<1> QED
  BY <1>1, <1>2, WalkInvariant, PTL DEF Spec

-----------------------------------------------------------------------------
(* No step takes back what the walk reported, and each expands at most one *)
(* key (closure.go:29-36).                                                 *)
THEOREM WalkOnlyGrows == Spec => OnlyGrows
<1> DEFINE Grows == /\ DOMAIN affected \subseteq DOMAIN affected'
                    /\ visited \subseteq visited'
                    /\ Cardinality(visited' \ visited) <= 1
<1>1. ASSUME IndInv, Next PROVE Grows
  <2>1. ASSUME UNCHANGED <<affected, visited>> PROVE Grows
    <3>1. visited' \ visited = {}
      BY <2>1
    <3> QED
      BY <2>1, <3>1, FS_EmptySet
  <2>2. ASSUME NEW cur \in queue, Expand(cur) PROVE Grows
    <3>1. DOMAIN affected \subseteq DOMAIN affected'
      BY <1>1, <2>2, ExpandRecords DEF IndInv, IInv
    <3>2. visited \subseteq visited' /\ visited' \ visited = {key(cur)}
      BY <2>2 DEF Expand
    <3> QED
      BY <3>1, <3>2, FS_Singleton
  <2> QED
    BY <1>1, <2>1, <2>2 DEF Next, Skip, Return
<1>2. IndInv /\ [Next]_vars => [Grows]_vars
  BY <1>1
<1> QED
  BY <1>2, WalkInvariant, PTL DEF Spec, OnlyGrows

-----------------------------------------------------------------------------
(* The target is written with the key of the object it names: with its uid *)
(* when that has one.                                                      *)
TargetsKeyed ==
  \A c \in Calls :
    tracked(c.s, c.a.target) => key(c.a.target) = key(lookup(c.s, c.a.target).ref)

(* For such targets no object is reported twice (closure.go:14, a visited   *)
(* set "expands each resource at most once"); the one way to report an     *)
(* object twice is to write the target without the uid it has.             *)
THEOREM KeyedTargetsReportOnce == TargetsKeyed => (Spec => []EachObjectOnce)
<1> SUFFICES ASSUME TargetsKeyed PROVE Spec => []EachObjectOnce
  OBVIOUS
<1>1. ASSUME IndInv, call \in Calls PROVE EachObjectOnce
  <2>1. GoodCall /\ TypeOK /\ MembersResolve
    BY <1>1 DEF IndInv, IInv
  <2>2. ASSUME NEW k \in DOMAIN affected PROVE k = key(obj(affected[k]).ref)
    <3>1. affected[k] \in Nodes /\ key(affected[k]) = k /\ tracked(call.s, affected[k])
      BY <2>1 DEF TypeOK, Nodes, MembersResolve, members
    <3>2. CASE affected[k] \in trackedRefs
      BY <2>1, <3>1, <3>2, RefResolves DEF trackedRefs
    <3>3. CASE affected[k] = call.a.target
      BY <1>1, <3>1, <3>3 DEF TargetsKeyed, obj
    <3> QED
      BY <3>1, <3>2, <3>3 DEF Nodes
  <2> QED
    BY <2>2 DEF EachObjectOnce, obj
<1> QED
  BY <1>1, WalkInvariant, CallIsGiven, PTL

-----------------------------------------------------------------------------
(* Closed by key.  KeysClosed needs nothing of the state; that is what a    *)
(* live read, which may list one object under two versions, relies on.     *)

(* The walk starts closed (closure.go:24-27).                              *)
LEMMA KeysInit == Init => TypeOK /\ KeysClosed
<1> SUFFICES ASSUME Init PROVE TypeOK /\ KeysClosed
  OBVIOUS
<1>1. visited = {} /\ DOMAIN affected = {} /\ pc = "walk"
  BY DEF Init, emptyMap
<1>2. queue \subseteq {call.a.target}
        /\ (tracked(call.s, call.a.target) => call.a.target \in queue)
  BY DEF Init
<1> QED
  BY <1>1, <1>2 DEF TypeOK, KeysClosed

(* An expansion queues its successors and records its bindings in the step  *)
(* in which its key counts as seen (closure.go:32-85).                     *)
LEMMA KeysStayClosed ==
  ASSUME TypeOK, KeysClosed, [Next]_vars
  PROVE  KeysClosed'
<1>1. ASSUME UNCHANGED call
      PROVE  trackedRefs' = trackedRefs
  BY <1>1 DEF trackedRefs
<1> DEFINE Served(k, v, q, d) ==
             \E r \in trackedRefs \cup {call.a.target} :
               /\ key(r) = k
               /\ keysOf(successors(call.s, call.a, r)) \subseteq v \cup keysOf(q)
               /\ keysOf(bindings(call.s, r)) \subseteq d
<1>2. \A k \in visited : Served(k, visited, queue, DOMAIN affected)
  BY DEF KeysClosed
<1>3. \A k, v, q, d, w, u, e :
        (Served(k, v, q, d) /\ v \cup keysOf(q) \subseteq w \cup keysOf(u) /\ d \subseteq e)
          => Served(k, w, u, e)
  OBVIOUS
<1>4. ASSUME UNCHANGED call,
             visited' \subseteq DOMAIN affected',
             tracked(call.s, call.a.target)
               => call.a.target \in queue' \/ key(call.a.target) \in visited',
             \A k \in visited' : Served(k, visited', queue', DOMAIN affected'),
             pc' = "returned" => queue' = {}
      PROVE  KeysClosed'
  BY <1>1, <1>4 DEF KeysClosed
<1> HIDE DEF Served
<1>5. ASSUME NEW cur \in queue, Skip(cur) PROVE KeysClosed'
  <2>1. /\ call' = call /\ visited' = visited /\ affected' = affected /\ pc' = pc
        /\ queue' = queue \ {cur} /\ key(cur) \in visited /\ pc = "walk"
    BY <1>5 DEF Skip
  <2>2. visited \cup keysOf(queue) \subseteq visited' \cup keysOf(queue')
    BY <2>1 DEF keysOf
  <2>3. \A k \in visited' : Served(k, visited', queue', DOMAIN affected')
    BY <1>2, <1>3, <2>1, <2>2
  <2> QED
    BY <1>4, <2>1, <2>3 DEF KeysClosed
<1>6. ASSUME NEW cur \in queue, Expand(cur) PROVE KeysClosed'
  <2>1. /\ call' = call /\ pc' = pc /\ pc = "walk"
        /\ visited' = visited \cup {key(cur)}
        /\ queue' = (queue \ {cur}) \cup successors(call.s, call.a, cur)
    BY <1>6 DEF Expand
  <2>2. DOMAIN affected' = DOMAIN affected \cup {key(cur)} \cup keysOf(bindings(call.s, cur))
    BY <1>6, ExpandFiles
  <2>3. visited \cup keysOf(queue) \subseteq visited' \cup keysOf(queue')
    BY <2>1 DEF keysOf
  <2>4. \A k \in visited : Served(k, visited', queue', DOMAIN affected')
    BY <1>2, <1>3, <2>2, <2>3
  <2>5. Served(key(cur), visited', queue', DOMAIN affected')
    <3>1. keysOf(successors(call.s, call.a, cur)) \subseteq keysOf(queue')
      BY <2>1 DEF keysOf
    <3>2. cur \in trackedRefs \cup {call.a.target}
      BY DEF TypeOK
    <3> QED
      BY <2>2, <3>1, <3>2 DEF Served
  <2> QED
    BY <1>4, <2>1, <2>2, <2>4, <2>5 DEF KeysClosed
<1>7. CASE Return
  <2>1. UNCHANGED <<call, queue, visited, affected>> /\ queue = {}
    BY <1>7 DEF Return
  <2> QED
    BY <1>2, <1>4, <2>1 DEF KeysClosed
<1>8. CASE UNCHANGED vars
  BY <1>2, <1>4, <1>8 DEF vars, KeysClosed
<1> QED
  BY <1>5, <1>6, <1>7, <1>8 DEF Next

(* Every key the walk has seen has its successors in the map at the end.   *)
LEMMA KeysAlwaysClosed == Spec => []KeysClosed
<1>1. TypeOK /\ KeysClosed /\ [Next]_vars => (TypeOK /\ KeysClosed)'
  BY KeysStayClosed, TypesKept
<1> QED
  BY <1>1, KeysInit, PTL DEF Spec

-----------------------------------------------------------------------------
(* What the target itself affects is reported.                             *)

(* Once the walk is over, the map has a key for every object that the live  *)
(* target affects or that the mutation of the target binds.                *)
LEMMA TargetClosed ==
  ASSUME IndInv, KeysClosed, pc = "returned", tracked(call.s, call.a.target),
         NEW p \in call.s.objs,
         \/ Affects(classify(call.a), lookup(call.s, call.a.target), p)
         \/ AffectedByMutation(call.a, p)
  PROVE  key(p.ref) \in DOMAIN affected
<1> DEFINE target == call.a.target
<1>1. GoodCall /\ target \in Nodes /\ queue = {} /\ key(target) \in visited
  BY DEF IndInv, KeysClosed, Nodes
<1>2. PICK r \in Nodes :
        key(r) = key(target) /\ keysOf(successors(call.s, call.a, r)) \subseteq visited \cup keysOf(queue)
  BY <1>1 DEF KeysClosed, Nodes
<1>3. tracked(call.s, r) /\ obj(r) = obj(target)
  BY <1>1, <1>2, SameKeySameObject
<1>4. human(obj(r).ref) = human(r)
  BY <1>1, <1>2, <1>3, NodeResolves
<1>5. p.ref \in successors(call.s, call.a, r)
  <2>1. \/ Affects(classify(call.a), obj(r), p)
        \/ key(r) = key(target) /\ AffectedByMutation(call.a, p)
    BY <1>2, <1>3 DEF obj
  <2> QED
    BY <1>3, <1>4, <2>1, SuccessorsAre
<1>6. keysOf(queue) = {}
  BY <1>1 DEF keysOf
<1> QED
  BY <1>2, <1>5, <1>6 DEF keysOf, KeysClosed

(* No false negative at the target: whatever mounts it, is a pod of it or   *)
(* is contained in it is reported, whichever of the five verbs is used      *)
(* (classify.go:42-75, closure.go:38-63).                                  *)
THEOREM DirectHarmIsReported == Spec => []DirectHarmReported
<1>1. ASSUME IndInv, KeysClosed PROVE DirectHarmReported
  <2> DEFINE target == lookup(call.s, call.a.target)
  <2> SUFFICES ASSUME pc = "returned", tracked(call.s, call.a.target),
                      call.a.verb \in {"delete", "update", "patch", "scale", "restart"},
                      NEW p \in call.s.objs,
                      \/ /\ target.ref.kind \in mountableKinds
                         /\ call.a.verb \in {"delete", "update", "patch"}
                         /\ RefersTo(p, target, FALSE)
                      \/ /\ target.ref.kind \in workloadKinds
                         /\ SelectsPod(target.ref.ns, target.ref.kind, target.selector, p)
                      \/ call.a.verb = "delete" /\ Contains(target, p)
               PROVE  key(p.ref) \in DOMAIN affected
    BY DEF DirectHarmReported
  <2>1. target.ref.kind = call.a.target.kind
    BY <1>1, NodeResolves DEF IndInv, Nodes, human, obj
  <2>2. CASE target.ref.kind \in mountableKinds /\ call.a.verb \in {"delete", "update", "patch"}
             /\ RefersTo(p, target, FALSE)
    <3>1. "MutateConfig" \in classify(call.a)
      BY <2>1, <2>2 DEF classify
    <3> QED
      BY <1>1, <2>2, <3>1, TargetClosed DEF Affects
  <2>3. CASE target.ref.kind \in workloadKinds
             /\ SelectsPod(target.ref.ns, target.ref.kind, target.selector, p)
    <3>1. "Disruptive" \in classify(call.a)
      BY <2>1, <2>3 DEF classify
    <3> QED
      BY <1>1, <2>3, <3>1, TargetClosed DEF Affects
  <2>4. CASE call.a.verb = "delete" /\ Contains(target, p)
    <3>1. "Containment" \in classify(call.a)
      BY <2>1, <2>4 DEF classify, Contains
    <3> QED
      BY <1>1, <2>4, <3>1, TargetClosed DEF Affects
  <2> QED
    BY <2>2, <2>3, <2>4
<1> QED
  BY <1>1, WalkInvariant, KeysAlwaysClosed, PTL

-----------------------------------------------------------------------------
(* Mutations of selectors and labels.                                      *)

(* Without empty values, maps that sameLabels or LabelSelector.equal takes  *)
(* for equal are equal, key by key (classify.go:130-140, selector.go:32).   *)
LEMMA SameMapIsEqual ==
  ASSUME NEW m, NEW n, blankFree(m), blankFree(n), sameMap(m, n)
  PROVE  DOMAIN m = DOMAIN n /\ \A k \in DOMAIN m : m[k] = n[k]
<1>1. \A k \in DOMAIN m : k \in DOMAIN n /\ n[k] = m[k]
  BY DEF sameMap, at, blankFree
<1>2. DOMAIN m \subseteq DOMAIN n /\ IsFiniteSet(DOMAIN n)
  BY <1>1 DEF blankFree
<1>3. Cardinality(DOMAIN m) = Cardinality(DOMAIN n)
  BY DEF sameMap
<1>4. DOMAIN m = DOMAIN n
  BY <1>2, <1>3, FS_Subset
<1> QED
  BY <1>1, <1>4

(* Labels that are equal key by key are bound alike.                       *)
LEMMA SameLabelsBindAlike ==
  ASSUME NEW m, NEW n, DOMAIN m = DOMAIN n, \A k \in DOMAIN m : m[k] = n[k],
         NEW kind, NEW sel
  PROVE  selectorBinds(kind, sel, m) <=> selectorBinds(kind, sel, n)
<1>1. \A k : at(m, k) = at(n, k)
  BY DEF at
<1>2. Matches(sel, m) <=> Matches(sel, n)
  BY <1>1 DEF Matches, reqMatches
<1> QED
  BY <1>2 DEF selectorBinds

(* Selectors that LabelSelector.equal takes for equal bind alike, if their  *)
(* maps have no empty value and {} is not confused with no selector.       *)
LEMMA EqualSelectorsBindAlike ==
  ASSUME NEW s, NEW o, selectorEqual(s, o), blankFree(s.matchLabels), blankFree(o.matchLabels),
         nilIsEmpty(s), nilIsEmpty(o),
         isEmptySelector(s) /\ isEmptySelector(o) => (isNil(s) <=> isNil(o)),
         NEW kind, NEW labels
  PROVE  selectorBinds(kind, s, labels) <=> selectorBinds(kind, o, labels)
<1>1. /\ DOMAIN s.matchLabels = DOMAIN o.matchLabels
      /\ \A k \in DOMAIN s.matchLabels : s.matchLabels[k] = o.matchLabels[k]
      /\ s.matchExpressions = o.matchExpressions
  BY SameMapIsEqual DEF selectorEqual
<1>2. Matches(s, labels) <=> Matches(o, labels)
  BY <1>1 DEF Matches
<1>3. isEmptySelector(s) <=> isEmptySelector(o)
  BY <1>1 DEF isEmptySelector
<1>4. \A sel \in {s, o} : isNil(sel) => isEmptySelector(sel)
  BY DEF isNil, isEmptySelector, nilIsEmpty
<1>5. isNil(s) <=> isNil(o)
  BY <1>3, <1>4
<1> QED
  BY <1>2, <1>3, <1>5 DEF selectorBinds

(* A relabelled pod brings in all that binds it before or after, not both   *)
(* (closure.go:71-76, 115-136, classify.go:104-111), when its labels hide    *)
(* no change.                                                              *)
THEOREM RebindingIsReported ==
  (\A c \in Calls : ChangesShow(c.a)) => (Spec => []RebindingReported)
<1> SUFFICES ASSUME \A c \in Calls : ChangesShow(c.a) PROVE Spec => []RebindingReported
  OBVIOUS
<1>1. ASSUME IndInv, KeysClosed, call \in Calls PROVE RebindingReported
  <2> SUFFICES ASSUME pc = "returned", members # {}, call.a.verb \in {"update", "patch"},
                      NEW b \in call.s.objs, NEW o \in call.a.old, NEW n \in call.a.new,
                      b.ref.kind \in selectorKinds, b.ref.ns = call.a.target.ns,
                      selectorBinds(b.ref.kind, b.selector, o.labels)
                        # selectorBinds(b.ref.kind, b.selector, n.labels)
               PROVE  key(b.ref) \in DOMAIN affected
    BY DEF RebindingReported
  <2>1. blankFree(o.labels) /\ blankFree(n.labels)
    BY <1>1 DEF ChangesShow, payloads
  <2>2. ~sameLabels(o.labels, n.labels)
    <3> SUFFICES ASSUME sameLabels(o.labels, n.labels) PROVE FALSE
      OBVIOUS
    <3>1. /\ DOMAIN o.labels = DOMAIN n.labels
          /\ \A k \in DOMAIN o.labels : o.labels[k] = n.labels[k]
      BY <2>1, SameMapIsEqual DEF sameLabels
    <3>2. selectorBinds(b.ref.kind, b.selector, o.labels)
            <=> selectorBinds(b.ref.kind, b.selector, n.labels)
      BY <3>1, SameLabelsBindAlike
    <3> QED
      BY <3>2 DEF selectorBinds
  <2>3. "MutateLabels" \in classify(call.a)
    <3>1. <<o, n>> \in bothPayloads(call.a)
      BY DEF bothPayloads
    <3> QED
      BY <2>2, <3>1 DEF classify, labelsChanged
  <2>4. \E payload \in {o, n} : BindsLabels(b, call.a.target.ns, payload.labels)
    BY DEF BindsLabels, selectorBinds
  <2>5. AffectedByMutation(call.a, b)
    BY <2>3, <2>4 DEF AffectedByMutation
  <2>6. tracked(call.s, call.a.target)
    BY <1>1, EmptyIsUntracked DEF EmptyIffUntracked
  <2> QED
    BY <1>1, <2>5, <2>6, TargetClosed
<1> QED
  BY <1>1, WalkInvariant, KeysAlwaysClosed, CallIsGiven, PTL

(* A changed selector brings in every pod it binds before or after, not     *)
(* both (closure.go:65-69, 91-113, classify.go:96-102), when no change is   *)
(* hidden.                                                                 *)
THEOREM ReselectionIsReported ==
  (\A c \in Calls : ChangesShow(c.a)) => (Spec => []ReselectionReported)
<1> SUFFICES ASSUME \A c \in Calls : ChangesShow(c.a) PROVE Spec => []ReselectionReported
  OBVIOUS
<1>1. ASSUME IndInv, KeysClosed, call \in Calls PROVE ReselectionReported
  <2> SUFFICES ASSUME pc = "returned", members # {}, call.a.verb \in {"update", "patch"},
                      NEW p \in call.s.objs, NEW o \in call.a.old, NEW n \in call.a.new,
                      p.ref.kind = "Pod", p.ref.ns = call.a.target.ns,
                      selectorBinds(call.a.target.kind, o.selector, p.labels)
                        # selectorBinds(call.a.target.kind, n.selector, p.labels)
               PROVE  key(p.ref) \in DOMAIN affected
    BY DEF ReselectionReported
  <2>1. /\ blankFree(o.selector.matchLabels) /\ blankFree(n.selector.matchLabels)
        /\ nilIsEmpty(o.selector) /\ nilIsEmpty(n.selector)
        /\ isEmptySelector(o.selector) /\ isEmptySelector(n.selector)
             => (isNil(o.selector) <=> isNil(n.selector))
    BY <1>1 DEF ChangesShow, payloads
  <2>2. ~selectorEqual(o.selector, n.selector)
    <3> SUFFICES ASSUME selectorEqual(o.selector, n.selector) PROVE FALSE
      OBVIOUS
    <3>1. selectorBinds(call.a.target.kind, o.selector, p.labels)
            <=> selectorBinds(call.a.target.kind, n.selector, p.labels)
      BY <2>1, EqualSelectorsBindAlike
    <3> QED
      BY <3>1 DEF selectorBinds
  <2>3. "MutateSelector" \in classify(call.a)
    <3>1. <<o, n>> \in bothPayloads(call.a)
      BY DEF bothPayloads
    <3> QED
      BY <2>2, <3>1 DEF classify, selectorChanged
  <2>4. \E payload \in {o, n} :
          SelectsPod(call.a.target.ns, call.a.target.kind, payload.selector, p)
    BY DEF SelectsPod, selectorBinds
  <2>5. AffectedByMutation(call.a, p)
    BY <2>3, <2>4 DEF AffectedByMutation
  <2>6. tracked(call.s, call.a.target)
    BY <1>1, EmptyIsUntracked DEF EmptyIffUntracked
  <2> QED
    BY <1>1, <2>5, <2>6, TargetClosed
<1> QED
  BY <1>1, WalkInvariant, KeysAlwaysClosed, CallIsGiven, PTL

-----------------------------------------------------------------------------
(* Namespaces.                                                             *)

(* All that the walk holds is in the target's namespace.                   *)
AtHome == \A r \in queue \cup members : r.ns = call.a.target.ns

(* Without a deletion neither owners nor contents are followed, and the     *)
(* other relations stay in the namespace of the ref they start from         *)
(* (classify.go:37-94, state.go:102-182).                                  *)
LEMMA RelationsStayHome ==
  ASSUME GoodCall, ReferencesStayHome(call.s), call.a.verb # "delete",
         NEW r \in Nodes, tracked(call.s, r), r.ns = call.a.target.ns
  PROVE  \A x \in successors(call.s, call.a, r) \cup bindings(call.s, r) : x.ns = r.ns
<1>1. obj(r) \in call.s.objs /\ human(obj(r).ref) = human(r) /\ obj(r).ref.ns = r.ns
  BY NodeResolves DEF human
<1>2. "CascadeDelete" \notin classify(call.a) /\ "Containment" \notin classify(call.a)
  BY DEF classify
<1>3. ASSUME NEW q \in call.s.objs, Affects(classify(call.a), obj(r), q) PROVE q.ref.ns = r.ns
  <2>1. CASE SelectsPod(obj(r).ref.ns, obj(r).ref.kind, obj(r).selector, q)
    BY <1>1, <2>1 DEF SelectsPod
  <2>2. ASSUME NEW scaling, RefersTo(q, obj(r), scaling) PROVE q.ref.ns = r.ns
    <3>1. PICK cr \in q.crossRefs : crossRefMatches(cr.ref, obj(r).ref)
      BY <2>2 DEF RefersTo
    <3> QED
      BY <1>1, <3>1 DEF ReferencesStayHome
  <2> QED
    BY <1>2, <1>3, <2>1, <2>2 DEF Affects
<1>4. ASSUME NEW q \in call.s.objs, AffectedByMutation(call.a, q) PROVE q.ref.ns = r.ns
  BY <1>4 DEF AffectedByMutation, SelectsPod, BindsLabels
<1>5. ASSUME NEW q \in call.s.objs, BindsPod(q, obj(r)) PROVE q.ref.ns = r.ns
  BY <1>1, <1>5 DEF BindsPod, BindsLabels
<1> QED
  BY <1>1, <1>3, <1>4, <1>5, SuccessorsAre, BindingsAre

(* What a deletion alone may leave, the other verbs never do: no member of  *)
(* the closure is in another namespace than the target (state.go:102-182),  *)
(* if references are within a namespace.                                   *)
THEOREM OtherVerbsStayInNamespace ==
  (\A c \in Calls : ReferencesStayHome(c.s)) => (Spec => []StaysInNamespace)
<1> SUFFICES ASSUME \A c \in Calls : ReferencesStayHome(c.s) PROVE Spec => []StaysInNamespace
  OBVIOUS
<1> DEFINE Inv == call.a.verb # "delete" => AtHome
<1>1. Init => Inv
  BY DEF Init, AtHome, members, emptyMap
<1>2. ASSUME IndInv, call \in Calls, Inv, [Next]_vars PROVE Inv'
  <2> SUFFICES ASSUME call.a.verb # "delete", AtHome, call' = call PROVE AtHome'
    BY <1>2 DEF Next, Return, Skip, Expand, vars
  <2>1. ASSUME queue' \subseteq queue, affected' = affected PROVE AtHome'
    BY <2>1 DEF AtHome, members
  <2>2. ASSUME NEW cur \in queue, Expand(cur) PROVE AtHome'
    <3>1. /\ TypeOK /\ cur \in Nodes /\ tracked(call.s, cur) /\ GoodCall
          /\ ReferencesStayHome(call.s) /\ cur.ns = call.a.target.ns
      BY <1>2 DEF IndInv, IInv, TypeOK, MembersResolve, Nodes, AtHome
    <3>2. \A x \in successors(call.s, call.a, cur) \cup bindings(call.s, cur) :
            x.ns = call.a.target.ns
      BY <3>1, RelationsStayHome
    <3>3. queue' = (queue \ {cur}) \cup successors(call.s, call.a, cur)
      BY <2>2 DEF Expand
    <3>4. ASSUME NEW k \in DOMAIN affected' PROVE affected'[k].ns = call.a.target.ns
      <4>1. \/ affected'[k] \in bindings(call.s, cur) \cup {cur}
            \/ k \in DOMAIN affected /\ affected'[k] = affected[k]
        BY <2>2, <3>1, ExpandFiles
      <4> QED
        BY <3>1, <3>2, <4>1 DEF AtHome, members
    <3> QED
      BY <3>2, <3>3, <3>4 DEF AtHome, members
  <2> QED
    BY <1>2, <2>1, <2>2 DEF Next, Return, Skip, vars
<1>3. Inv => StaysInNamespace
  BY DEF AtHome, StaysInNamespace
<1> QED
  BY <1>1, <1>2, <1>3, WalkInvariant, CallIsGiven, PTL DEF Spec
=============================================================================
