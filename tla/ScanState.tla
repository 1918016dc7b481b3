------------------------------ MODULE ScanState ------------------------------
(***************************************************************************)
(* scanState (src/closure/state.go): the linear-scan implementation of the *)
(* State interface.  A state s is a record [objs, byUID, byHuman]: the set  *)
(* of tracked objects and the two lookup maps NewScanState fills.  Every   *)
(* relation method returns a set of Refs; the order in which the code lists *)
(* them is left out.                                                       *)
(***************************************************************************)
EXTENDS KrsmModel

(* The last object of the sequence with property P wins the map entry.     *)
NewScanState(seq) ==
  LET last(P(_)) == CHOOSE i \in DOMAIN seq :
                      P(seq[i]) /\ \A j \in DOMAIN seq : P(seq[j]) => j <= i
      elements == {seq[i] : i \in DOMAIN seq}
  IN  [ objs    |-> elements,
        byUID   |-> [u \in {o.ref.uid : o \in elements} \ {""} |->
                       seq[last(LAMBDA o : o.ref.uid = u)]],
        byHuman |-> [h \in {human(o.ref) : o \in elements} |->
                       seq[last(LAMBDA o : human(o.ref) = h)]] ]

(* Get(r): tracked(s, r) is its boolean, lookup(s, r) its object.          *)
knownUID(s, r) == r.uid # "" /\ r.uid \in DOMAIN s.byUID

tracked(s, r) == knownUID(s, r) \/ human(r) \in DOMAIN s.byHuman

lookup(s, r) == IF knownUID(s, r) THEN s.byUID[r.uid] ELSE s.byHuman[human(r)]

(* Distinct objects have distinct identities, and the maps index them: what *)
(* NewScanState makes of objects with a uid each, as the API server and    *)
(* the scenario loader give them.                                          *)
WellFormed(s) ==
  /\ \A u \in DOMAIN s.byUID : s.byUID[u] \in s.objs /\ s.byUID[u].ref.uid = u
  /\ \A h \in DOMAIN s.byHuman : s.byHuman[h] \in s.objs /\ human(s.byHuman[h].ref) = h
  /\ \A o \in s.objs :
       /\ o.ref.uid # "" => o.ref.uid \in DOMAIN s.byUID
       /\ tracked(s, o.ref)
       /\ lookup(s, o.ref) = o

(* r's uid, when it has one, belongs to the object r's other fields name.  *)
Consistent(s, r) == tracked(s, r) => human(lookup(s, r).ref) = human(r)

(* The refs of the tracked objects that satisfy P.                         *)
refsWhere(s, P(_)) == {o.ref : o \in {x \in s.objs : P(x)}}

(* Slip kept for checking: the children are named without their uids.      *)
OwnedChildrenByName(s, r) ==
  IF ~tracked(s, r) THEN {}
  ELSE {[c EXCEPT !.uid = ""] : c \in refsWhere(s, LAMBDA o : lookup(s, r).ref.uid \in o.owners)}

OwnedChildren(s, r) ==
  IF ~tracked(s, r) THEN {}
  ELSE LET owner == lookup(s, r).ref.uid
       IN  refsWhere(s, LAMBDA o : owner # "" /\ owner \in o.owners)

NamespaceContents(s, ns) ==
  refsWhere(s, LAMBDA o : o.ref.ns = ns /\ o.ref.kind # "Namespace")

(* Slip kept for checking: pods of every namespace.                        *)
PodsMatchingAnywhere(s, ns, sel, ownerKind) ==
  refsWhere(s, LAMBDA o : o.ref.kind = "Pod" /\ selectorBinds(ownerKind, sel, o.labels))

PodsMatching(s, ns, sel, ownerKind) ==
  refsWhere(s, LAMBDA o : /\ o.ref.kind = "Pod"
                          /\ o.ref.ns = ns
                          /\ selectorBinds(ownerKind, sel, o.labels))

PodsSelectedBy(s, r) ==
  IF ~tracked(s, r) THEN {}
  ELSE LET owner == lookup(s, r)
       IN  PodsMatching(s, owner.ref.ns, owner.selector, owner.ref.kind)

SelectorsMatchingLabels(s, ns, labels) ==
  refsWhere(s, LAMBDA o : /\ o.ref.kind \in selectorKinds
                          /\ o.ref.ns = ns
                          /\ selectorBinds(o.ref.kind, o.selector, labels))

(* The pod's labels are the live ones, its namespace is the caller's.      *)
SelectorsTargeting(s, pod) ==
  IF ~tracked(s, pod) THEN {}
  ELSE SelectorsMatchingLabels(s, pod.ns, lookup(s, pod).labels)

Consumers(s, target) ==
  IF ~tracked(s, target) THEN {}
  ELSE LET tgt == lookup(s, target).ref
       IN  refsWhere(s, LAMBDA o : \E cr \in o.crossRefs :
                          cr.kind # "RefScaleTarget" /\ crossRefMatches(cr.ref, tgt))

ControllersTargeting(s, r) ==
  IF ~tracked(s, r) THEN {}
  ELSE LET tgt == lookup(s, r).ref
       IN  refsWhere(s, LAMBDA o : \E cr \in o.crossRefs :
                          cr.kind = "RefScaleTarget" /\ crossRefMatches(cr.ref, tgt))
=============================================================================
