---------------------------- MODULE VerdictProofs ----------------------------
(***************************************************************************)
(* Proofs about Verdict, for every set of calls that satisfies its         *)
(* assumptions.  A clause covers a ref of the closure exactly when it      *)
(* authorises the object that ref names; the subtree of an ownership       *)
(* clause, which the code walks by refs and compares by keys, comes first. *)
(* With the closure itself proved right, the verdict then is.              *)
(***************************************************************************)
EXTENDS Verdict, ClosureProofs

(* What VerdictCallsAssumption says of the call under way.                 *)
GoodCheck ==
  /\ ModeKnown(call) /\ OnePayload(call)
  /\ tracked(call.s, call.a.target) => WrittenAsListed(call)

(* What the steps after the walk leave behind.  This asks nothing of the   *)
(* call.                                                                   *)
Judged ==
  /\ decision # none =>
       pc = "returned" /\ decision = Safe(call.s, call.a, call.scope, members)
  /\ report # none => decision # none /\ report = Apply(call.mode, decision)
  /\ exit # "running" =>
       report # none /\ exit = IF report.verdict = "Block" THEN "2" ELSE "0"

VInv == IndInv /\ GoodCheck /\ Judged

-----------------------------------------------------------------------------
(* Safe and Mode.Apply.                                                    *)

(* Which verdict Safe gives, and with what detail (safe.go:17-62).         *)
LEMMA SafeIs ==
  ASSUME NEW s, NEW a, NEW scope, NEW c
  PROVE  LET d == Safe(s, a, scope, c)
         IN  /\ d.verdict = IF c = {} \/ escapes(s, scope, c) # {} THEN "Block"
                            ELSE IF ExternalEffects(s, a) # {} THEN "Warn" ELSE "Allow"
             /\ d.closure = c
             /\ d.escaping = escapes(s, scope, c)
<1>1. c = {} => escapes(s, scope, c) = {}
  BY DEF escapes
<1> QED
  BY <1>1 DEF Safe, Decision

(* Audit turns a Block with an escape into a Warn and nothing else         *)
(* (scope.go:134-140).                                                     *)
LEMMA ApplyIs ==
  ASSUME NEW mode, NEW s, NEW a, NEW scope, NEW c
  PROVE  LET d == Safe(s, a, scope, c)
             e == Apply(mode, d)
         IN  /\ e.verdict = IF mode = "audit" /\ d.verdict = "Block" /\ d.escaping # {}
                            THEN "Warn" ELSE d.verdict
             /\ e.closure = d.closure /\ e.escaping = d.escaping /\ e.external = d.external
  BY DEF Apply, Safe, Decision

(* Neither answers with nothing.                                           *)
LEMMA AnswersAreSomething ==
  ASSUME NEW mode, NEW s, NEW a, NEW scope, NEW c
  PROVE  /\ Safe(s, a, scope, c) # none
         /\ Apply(mode, Safe(s, a, scope, c)) # none
<1>1. none.verdict = "none"
  BY DEF none, Decision
<1> QED
  BY <1>1, SafeIs, ApplyIs

-----------------------------------------------------------------------------
(* The steps.                                                              *)

(* A check has begun and done nothing yet.                                 *)
Begun == AtStart /\ decision = none /\ report = none /\ exit = "running"

(* It starts in the invariant, for any good call.                          *)
LEMMA BegunIsSound ==
  ASSUME GoodCall, GoodCheck, Begun
  PROVE  VInv
<1>1. Judged
  BY DEF Begun, Judged
<1> QED
  BY <1>1, StartIsInvariant DEF Begun, VInv

(* The assumptions make every call of this specification good.             *)
LEMMA CheckInitEstablishes == VInit => VInv
<1> SUFFICES ASSUME VInit PROVE VInv
  OBVIOUS
<1>1. GoodCall /\ GoodCheck
  BY CallsAssumption, VerdictCallsAssumption DEF VInit, Init, GoodCall, GoodCheck
<1>2. Begun
  BY DEF VInit, Init, AtStart, Begun
<1> QED
  BY <1>1, <1>2, BegunIsSound

(* Every step of krsm check after the load is a step of the walk or leaves *)
(* the walk alone.                                                         *)
LEMMA CheckStepsWalk == [VNext]_allVars => [Next]_vars /\ UNCHANGED call
BY DEF VNext, Walk, Decide, ApplyMode, Exit, allVars, vars, Next, Return, Skip, Expand

(* Every step of krsm check after the load keeps Judged (main.go:203-211). *)
LEMMA JudgedKept ==
  ASSUME Judged, [VNext]_allVars
  PROVE  Judged'
<1>1. CASE Walk
  <2>1. pc # "returned"
    BY <1>1 DEF Walk, Next, Return, Skip, Expand
  <2>2. decision = none /\ report = none /\ exit = "running"
    BY <2>1 DEF Judged
  <2> QED
    BY <1>1, <2>2 DEF Judged, Walk
<1>2. ASSUME UNCHANGED vars PROVE members' = members /\ pc' = pc /\ call' = call
  BY <1>2 DEF vars, members
<1>3. CASE Decide
  <2>1. UNCHANGED vars /\ UNCHANGED <<report, exit>>
    BY <1>3 DEF Decide, vars
  <2>2. report = none /\ exit = "running"
    BY <1>3 DEF Decide, Judged
  <2>3. decision' = Safe(call.s, call.a, call.scope, members) /\ pc = "returned"
    BY <1>3 DEF Decide
  <2> QED
    BY <1>2, <2>1, <2>2, <2>3 DEF Judged
<1>4. CASE ApplyMode
  <2>1. UNCHANGED vars /\ UNCHANGED <<decision, exit>>
    BY <1>4 DEF ApplyMode, vars
  <2>2. exit = "running" /\ decision # none /\ report' = Apply(call.mode, decision)
    BY <1>4 DEF ApplyMode, Judged
  <2> QED
    BY <1>2, <2>1, <2>2 DEF Judged
<1>5. CASE Exit
  <2>1. UNCHANGED vars /\ UNCHANGED <<decision, report>>
    BY <1>5 DEF Exit, vars
  <2>2. report # none /\ exit' = IF report.verdict = "Block" THEN "2" ELSE "0"
    BY <1>5 DEF Exit
  <2> QED
    BY <1>2, <2>1, <2>2 DEF Judged
<1>6. CASE UNCHANGED allVars
  <2>1. UNCHANGED vars /\ UNCHANGED <<decision, report, exit>>
    BY <1>6 DEF allVars, vars
  <2> QED
    BY <1>2, <2>1 DEF Judged
<1> QED
  BY <1>1, <1>3, <1>4, <1>5, <1>6 DEF VNext

(* And keeps VInv.                                                         *)
LEMMA CheckNextKeeps == VInv /\ [VNext]_allVars => VInv'
<1> SUFFICES ASSUME VInv, [VNext]_allVars PROVE VInv'
  OBVIOUS
<1>1. [Next]_vars /\ call' = call
  BY CheckStepsWalk
<1>2. IndInv'
  BY <1>1, NextKeeps DEF VInv
<1>3. GoodCheck'
  BY <1>1 DEF VInv, GoodCheck
<1> QED
  BY <1>2, <1>3, JudgedKept DEF VInv

(* The invariant holds in every state of a check.                          *)
THEOREM CheckInvariant == VSpec => []VInv
  BY CheckInitEstablishes, CheckNextKeeps, PTL DEF VSpec

(* The types need only the walk's types and what the steps leave behind.   *)
LEMMA JudgedIsTyped ==
  ASSUME TypeOK, Judged
  PROVE  VTypeOK
<1>1. exit \in {"running", "0", "2"}
  BY DEF Judged
<1>2. ASSUME decision # none
      PROVE  decision.verdict \in Verdicts /\ decision.escaping \subseteq decision.closure
  <2>1. decision = Safe(call.s, call.a, call.scope, members)
    BY <1>2 DEF Judged
  <2>2. escapes(call.s, call.scope, members) \subseteq members
    BY DEF escapes
  <2> QED
    BY <2>1, <2>2, SafeIs DEF Verdicts
<1>3. ASSUME report # none PROVE report.verdict \in Verdicts
  <2>1. /\ decision = Safe(call.s, call.a, call.scope, members)
        /\ report = Apply(call.mode, decision) /\ decision # none
    BY <1>3 DEF Judged
  <2>2. report.verdict \in {"Warn", decision.verdict}
    BY <2>1, ApplyIs
  <2> QED
    BY <1>2, <2>1, <2>2 DEF Verdicts
<1>4. none.escaping \subseteq none.closure
  BY DEF none, Decision
<1> QED
  BY <1>1, <1>2, <1>3, <1>4 DEF VTypeOK

(* What escapes is always part of the closure (safe.go:36-41), and every   *)
(* verdict and exit code is one of those there are.                        *)
THEOREM VerdictTypesHold == VSpec => []VTypeOK
<1>1. VInv => VTypeOK
  BY JudgedIsTyped DEF VInv, IndInv, IInv
<1> QED
  BY <1>1, CheckInvariant, PTL

(* A mode changes how loud a verdict is and never what is shown            *)
(* (scope.go:134-140).                                                     *)
THEOREM ModeKeepsEvidence == VSpec => []EvidenceKept
<1>1. ASSUME VInv PROVE EvidenceKept
  <2> SUFFICES ASSUME report # none PROVE EvidenceKept
    BY DEF EvidenceKept
  <2>1. /\ decision = Safe(call.s, call.a, call.scope, members)
        /\ report = Apply(call.mode, decision)
    BY <1>1 DEF VInv, Judged
  <2> QED
    BY <2>1, ApplyIs DEF EvidenceKept
<1> QED
  BY <1>1, CheckInvariant, PTL

(* Clauses are alternatives: a wider scope never denies what a narrower    *)
(* one grants, whatever the clauses are (safe.go:140).                     *)
THEOREM WiderScopeIsKinder == VSpec => []WiderScopeNeverStricter
<1>1. ASSUME VInv PROVE WiderScopeNeverStricter
  <2> SUFFICES ASSUME decision # none, NEW sc \in call.scope
               PROVE  severity(Safe(call.s, call.a, call.scope \ {sc}, members).verdict)
                        >= severity(decision.verdict)
    BY DEF WiderScopeNeverStricter
  <2>1. decision = Safe(call.s, call.a, call.scope, members)
    BY <1>1 DEF VInv, Judged
  <2>2. escapes(call.s, call.scope, members) \subseteq escapes(call.s, call.scope \ {sc}, members)
    BY DEF escapes
  <2> DEFINE narrow == Safe(call.s, call.a, call.scope \ {sc}, members).verdict
           E(scope) == escapes(call.s, scope, members)
  <2>5. \A scope : Safe(call.s, call.a, scope, members).verdict =
                     IF members = {} \/ E(scope) # {} THEN "Block"
                     ELSE IF ExternalEffects(call.s, call.a) # {} THEN "Warn" ELSE "Allow"
    BY SafeIs
  <2>3. /\ narrow \in Verdicts /\ decision.verdict \in Verdicts
        /\ decision.verdict = "Block" => narrow = "Block"
        /\ decision.verdict = "Warn" => narrow # "Allow"
    BY <2>1, <2>2, <2>5 DEF Verdicts
  <2> HIDE DEF narrow
  <2>4. severity(narrow) >= severity(decision.verdict)
    BY <2>3 DEF severity, Verdicts
  <2> QED
    BY <2>4 DEF narrow
<1> QED
  BY <1>1, CheckInvariant, PTL

-----------------------------------------------------------------------------
(* What a clause covers.                                                   *)

(* The refs the walk holds are those of tracked objects, or the target.    *)
LEMMA MemberResolves ==
  ASSUME IndInv, NEW r \in members
  PROVE  /\ r \in Nodes /\ tracked(call.s, r)
         /\ obj(r) \in call.s.objs /\ human(obj(r).ref) = human(r)
         /\ r \in trackedRefs => obj(r).ref = r
<1>1. r \in Nodes /\ tracked(call.s, r) /\ GoodCall
  BY DEF IndInv, IInv, TypeOK, MembersResolve, members, Nodes
<1>2. r \in trackedRefs => obj(r).ref = r
  BY <1>1, RefResolves DEF trackedRefs
<1> QED
  BY <1>1, <1>2, NodeResolves

(* The members of an ownership clause's subtree: the objects that may be   *)
(* in it, and those the root owns, root's object included.                 *)
below(s, top) == {top} \cup {o \in s.objs : o.owners # {}}

Tree(s, X, top) ==
  /\ X \subseteq below(s, top) /\ top \in X
  /\ \A o \in X, p \in s.objs : Owns(o, p) => p \in X

(* OwnedTree is the least such set.                                        *)
LEMMA OwnedTreeIsLeast ==
  ASSUME NEW s, NEW root, tracked(s, root), lookup(s, root) \in s.objs
  PROVE  LET T   == OwnedTree(s, root)
             top == lookup(s, root)
         IN  Tree(s, T, top) /\ \A X : Tree(s, X, top) => T \subseteq X
<1> DEFINE top   == lookup(s, root)
           B     == below(s, top)
           owns  == {e \in B \X B : Owns(e[1], e[2])}
           trees == {X \in SUBSET B : top \in X /\ \A e \in owns : e[1] \in X => e[2] \in X}
<1>1. OwnedTree(s, root) = {o \in B : \A X \in trees : o \in X}
  BY DEF OwnedTree, below
<1>2. B \subseteq s.objs
  BY DEF below
<1>3. \A o, p \in s.objs : o \in B /\ Owns(o, p) => p \in B /\ <<o, p>> \in owns
  BY DEF below, Owns
<1>4. \A e \in owns : e[1] \in B /\ e[2] \in s.objs /\ Owns(e[1], e[2])
  BY <1>2
<1>5. \A X : X \in trees <=> Tree(s, X, top)
  <2>1. ASSUME NEW X, X \in trees, NEW o \in X, NEW p \in s.objs, Owns(o, p)
        PROVE  p \in X
    <3>1. <<o, p>> \in owns /\ o \in X
      BY <1>2, <1>3, <2>1
    <3> QED
      BY <2>1, <3>1
  <2>2. ASSUME NEW X, Tree(s, X, top), NEW e \in owns, e[1] \in X PROVE e[2] \in X
    BY <1>4, <2>2 DEF Tree
  <2> QED
    BY <2>1, <2>2 DEF Tree
<1> HIDE DEF B, owns, trees
<1>6. \A o \in OwnedTree(s, root), p \in s.objs :
        Owns(o, p) => p \in OwnedTree(s, root)
  <2> SUFFICES ASSUME NEW o \in OwnedTree(s, root), NEW p \in s.objs, Owns(o, p)
               PROVE  p \in OwnedTree(s, root)
    OBVIOUS
  <2>1. p \in B
    BY <1>1, <1>2, <1>3
  <2>2. ASSUME NEW X \in trees PROVE p \in X
    BY <1>1, <1>5, <2>2 DEF Tree
  <2> QED
    BY <1>1, <2>1, <2>2
<1>7. top \in OwnedTree(s, root)
  BY <1>1, <1>5 DEF Tree, B, below
<1>8. OwnedTree(s, root) \subseteq below(s, top)
  BY <1>1 DEF B
<1>9. \A X : Tree(s, X, top) => OwnedTree(s, root) \subseteq X
  BY <1>1, <1>5
<1> QED
  BY <1>6, <1>7, <1>8, <1>9 DEF Tree

(* The refs the code reaches by OwnedChildren from the root's object       *)
(* (safe.go:110-138) are those of the objects the root owns.               *)
LEMMA OwnedRefsAre ==
  ASSUME GoodCall, NEW root, tracked(call.s, root), lookup(call.s, root) \in call.s.objs
  PROVE  ownedRefs(call.s, lookup(call.s, root).ref)
           = {o.ref : o \in OwnedTree(call.s, root)}
<1> DEFINE top    == lookup(call.s, root)
           T      == OwnedTree(call.s, root)
           B      == {top.ref} \cup {o.ref : o \in {x \in call.s.objs : x.owners # {}}}
           edges  == UNION {{<<r, c>> : c \in OwnedChildren(call.s, r)} : r \in B}
           closed == {X \in SUBSET B :
                        top.ref \in X /\ \A e \in edges : e[1] \in X => e[2] \in X}
<1>1. ownedRefs(call.s, top.ref) = {r \in B : \A X \in closed : r \in X}
  BY DEF ownedRefs
<1>2. Tree(call.s, T, top) /\ \A X : Tree(call.s, X, top) => T \subseteq X
  BY OwnedTreeIsLeast
<1>3. below(call.s, top) \subseteq call.s.objs
  BY DEF below
<1>4. B = {o.ref : o \in below(call.s, top)}
  BY DEF below
<1>5. \A o, p \in call.s.objs : o.ref = p.ref => o = p
  BY RefResolves
<1>6. ASSUME NEW o \in call.s.objs
      PROVE  OwnedChildren(call.s, o.ref) = {p.ref : p \in {q \in call.s.objs : Owns(o, q)}}
  BY RefResolves, OwnedChildrenAre
<1>7. ASSUME NEW o \in below(call.s, top), NEW p \in call.s.objs, Owns(o, p)
      PROVE  <<o.ref, p.ref>> \in edges
  <2>1. o \in call.s.objs /\ o.ref \in B
    BY <1>3, <1>4
  <2>2. p.ref \in OwnedChildren(call.s, o.ref)
    BY <1>6, <1>7, <2>1
  <2> QED
    BY <2>1, <2>2
<1>8. \A e \in edges : \E o \in below(call.s, top), p \in call.s.objs : e = <<o.ref, p.ref>> /\ Owns(o, p)
  BY <1>3, <1>4, <1>6
<1> HIDE DEF B, edges
<1>9. ASSUME NEW o \in T, NEW X \in closed PROVE o.ref \in X
  <2> DEFINE Y == {x \in below(call.s, top) : x.ref \in X}
  <2>1. top \in Y
    BY <1>9 DEF below
  <2>2. ASSUME NEW x \in Y, NEW p \in call.s.objs, Owns(x, p) PROVE p \in Y
    <3>1. <<x.ref, p.ref>> \in edges
      BY <1>7, <2>2
    <3>2. p.ref \in X
      BY <1>9, <2>2, <3>1
    <3>3. p \in below(call.s, top)
      BY <2>2 DEF below, Owns
    <3> QED
      BY <3>2, <3>3
  <2>3. Tree(call.s, Y, top)
    BY <2>1, <2>2 DEF Tree
  <2> QED
    BY <1>2, <2>3
<1>10. {o.ref : o \in T} \in closed
  <2>1. {o.ref : o \in T} \subseteq B /\ top.ref \in {o.ref : o \in T}
    BY <1>2, <1>4 DEF Tree
  <2>2. ASSUME NEW e \in edges, e[1] \in {o.ref : o \in T} PROVE e[2] \in {o.ref : o \in T}
    <3>1. PICK o \in below(call.s, top), p \in call.s.objs : e = <<o.ref, p.ref>> /\ Owns(o, p)
      BY <1>8
    <3>2. PICK q \in T : o.ref = q.ref
      BY <2>2, <3>1
    <3>3. o = q
      BY <1>2, <1>3, <1>5, <3>2 DEF Tree
    <3>4. p \in T
      BY <1>2, <3>1, <3>2, <3>3 DEF Tree
    <3> QED
      BY <3>1, <3>4
  <2> QED
    BY <2>1, <2>2
<1>11. {o.ref : o \in T} \subseteq B
  BY <1>10
<1> HIDE DEF closed, T
<1> QED
  BY <1>1, <1>9, <1>10, <1>11 DEF T

(* Without an object, the root's own key is all there is to match          *)
(* (safe.go:107-109).                                                      *)
LEMMA UntrackedRootOwnsNothing ==
  ASSUME NEW root, ~tracked(call.s, root)
  PROVE  ownedSubtree(call.s, root) = {key(root)}
<1> DEFINE B      == {root} \cup {o.ref : o \in {x \in call.s.objs : x.owners # {}}}
           edges  == UNION {{<<r, c>> : c \in OwnedChildren(call.s, r)} : r \in B}
           closed == {X \in SUBSET B :
                        root \in X /\ \A e \in edges : e[1] \in X => e[2] \in X}
<1>1. ownedRefs(call.s, root) = {r \in B : \A X \in closed : r \in X}
  BY DEF ownedRefs
<1>2. \A e \in edges : e[1] # root
  <2>1. OwnedChildren(call.s, root) = {}
    BY DEF OwnedChildren
  <2>2. \A e \in edges : \E r \in B : \E c \in OwnedChildren(call.s, r) : e = <<r, c>>
    OBVIOUS
  <2> QED
    BY <2>1, <2>2
<1> HIDE DEF edges
<1>3. {root} \in closed
  BY <1>2
<1>4. ownedRefs(call.s, root) \subseteq {root}
  BY <1>1, <1>3
<1> QED
  BY <1>4 DEF ownedSubtree, keysOf

(* The subtree of an ownership clause holds the key of a member exactly    *)
(* when the root owns the object the member names, if the member has the   *)
(* key of that object or the root is the target as the caller wrote it.    *)
LEMMA SubtreeCovers ==
  ASSUME IndInv, NEW r \in members, NEW root,
         key(r) = key(obj(r).ref) \/ root = call.a.target
  PROVE  key(r) \in ownedSubtree(call.s, root) <=> obj(r) \in OwnedTree(call.s, root)
<1> DEFINE top == lookup(call.s, root)
           T   == OwnedTree(call.s, root)
<1>1. /\ GoodCall /\ r \in Nodes /\ tracked(call.s, r)
      /\ obj(r) \in call.s.objs
      /\ r \in trackedRefs => key(r) = key(obj(r).ref)
  BY MemberResolves DEF IndInv
<1>2. WellFormed(call.s)
  BY <1>1 DEF GoodCall
(* A member with the root's key names the root's object.                   *)
<1>3. ASSUME key(r) = key(root) PROVE tracked(call.s, root) /\ top = obj(r)
  <2>1. CASE root = call.a.target
    <3>1. root \in Nodes
      BY <2>1 DEF Nodes
    <3> QED
      BY <1>1, <1>3, <3>1, SameKeySameObject DEF obj
  <2>2. CASE key(r) = key(obj(r).ref)
    <3>1. r.uid # "" => r.uid \in DOMAIN call.s.byUID
      <4>1. r.uid # "" => obj(r).ref.uid = r.uid
        BY <2>2, KeyCases
      <4> QED
        BY <1>1, <1>2, <4>1 DEF WellFormed
    <3>2. /\ (r.uid # "") <=> (root.uid # "")
          /\ r.uid # "" => r.uid = root.uid
          /\ r.uid = "" => human(r) = human(root)
      BY <1>3, KeyCases
    <3>3. CASE r.uid # ""
      <4>1. root.uid # "" /\ root.uid = r.uid
        BY <3>2, <3>3
      <4> QED
        BY <3>1, <3>3, <4>1 DEF tracked, knownUID, lookup, obj
    <3>4. CASE r.uid = ""
      <4>1. root.uid = "" /\ human(r) = human(root)
        BY <3>2, <3>4
      <4> QED
        BY <1>1, <3>4, <4>1 DEF tracked, knownUID, lookup, obj
    <3> QED
      BY <3>3, <3>4
  <2> QED
    BY <2>1, <2>2
<1>4. CASE ~tracked(call.s, root)
  <2>1. T = {}
    BY <1>4 DEF OwnedTree
  <2>2. ownedSubtree(call.s, root) = {key(root)}
    BY <1>4, UntrackedRootOwnsNothing
  <2> QED
    BY <1>3, <1>4, <2>1, <2>2
<1>5. CASE tracked(call.s, root)
  <2>1. top \in call.s.objs
    BY <1>2, <1>5 DEF WellFormed, tracked, knownUID, lookup
  <2>2. Tree(call.s, T, top) /\ T \subseteq call.s.objs
    BY <1>1, <1>5, <2>1, OwnedTreeIsLeast DEF Tree, below
  <2>3. ownedSubtree(call.s, root) = keysOf({o.ref : o \in T}) \cup {key(root)}
    BY <1>1, <1>5, <2>1, OwnedRefsAre DEF ownedSubtree
  <2> HIDE DEF T
  <2>4. ASSUME NEW o \in T, key(r) = key(o.ref) PROVE obj(r) \in T
    <3>1. o.ref \in Nodes /\ obj(o.ref) = o
      BY <1>1, <2>2, RefResolves
    <3> QED
      BY <1>1, <2>4, <3>1, SameKeySameObject
  <2>5. ASSUME key(r) = key(root) PROVE obj(r) \in T
    BY <1>3, <2>2, <2>5 DEF Tree
  <2>6. ASSUME obj(r) \in T PROVE key(r) \in ownedSubtree(call.s, root)
    <3>1. CASE key(r) = key(obj(r).ref)
      BY <2>3, <2>6, <3>1 DEF keysOf
    <3>2. CASE key(r) # key(obj(r).ref)
      <4>1. r = root
        BY <1>1, <3>2 DEF Nodes
      <4> QED
        BY <2>3, <4>1
    <3> QED
      BY <3>1, <3>2
  <2>7. ASSUME key(r) \in ownedSubtree(call.s, root) PROVE obj(r) \in T
    BY <2>3, <2>4, <2>5, <2>7 DEF keysOf
  <2> QED
    BY <2>6, <2>7 DEF T
<1> QED
  BY <1>4, <1>5

(* A clause covers a member exactly when it authorises the object the      *)
(* member names (safe.go:140-195).                                         *)
LEMMA CoversIsAuthorised ==
  ASSUME VInv, NEW r \in members, NEW sc \in call.scope
  PROVE  r \in covered(call.s, sc, members) <=> obj(r) \in Authorised(call.s, sc)
<1>1. /\ IndInv /\ GoodCall /\ r \in Nodes /\ tracked(call.s, r)
      /\ obj(r) \in call.s.objs /\ human(obj(r).ref) = human(r)
      /\ r \in trackedRefs => obj(r).ref = r
  BY MemberResolves DEF VInv, IndInv, Judged
<1>2. IF sc.dim = "ownership"
        THEN sc.root = call.a.target \/ key(r) = key(obj(r).ref)
        ELSE \A i \in {1, 2} : sc.group[i] = "" \/ obj(r).ref.group[i] = r.group[i]
  <2>1. CASE r \in trackedRefs
    BY <1>1, <2>1
  <2>2. CASE r = call.a.target
    BY <1>1, <2>2 DEF VInv, GoodCheck, WrittenAsListed, obj
  <2> QED
    BY <1>1, <2>1, <2>2 DEF Nodes
<1>3. CASE sc.dim = "ownership"
  <2>1. key(r) \in ownedSubtree(call.s, sc.root) <=> obj(r) \in OwnedTree(call.s, sc.root)
    BY <1>1, <1>2, <1>3, SubtreeCovers
  <2> QED
    BY <1>3, <2>1 DEF covered, dimOf, Authorised
<1>4. CASE sc.dim # "ownership"
  <2>1. /\ obj(r).ref.kind = r.kind /\ obj(r).ref.ns = r.ns /\ obj(r).ref.name = r.name
        /\ \A i \in {1, 2} : sc.group[i] = "" \/ obj(r).ref.group[i] = r.group[i]
    BY <1>1, <1>2, <1>4 DEF human
  <2>2. gates(sc, r) <=> /\ obj(r).ref.ns = sc.ns
                         /\ sc.kind # "" => obj(r).ref.kind = sc.kind
                         /\ \A i \in {1, 2} :
                              sc.group[i] # "" => obj(r).ref.group[i] = sc.group[i]
    BY <2>1 DEF gates
  <2>3. matchSelectorClause(call.s, sc, r)
          <=> ~isEmptySelector(sc.selector) /\ Matches(sc.selector, obj(r).labels)
    BY <1>1 DEF matchSelectorClause, obj
  <2>4. CASE sc.dim \in {"", "resource"}
    BY <1>1, <2>1, <2>2, <2>4 DEF covered, dimOf, Authorised
  <2>5. CASE sc.dim = "selector"
    BY <1>1, <2>2, <2>3, <2>5 DEF covered, dimOf, Authorised
  <2>6. CASE sc.dim = "namespace"
    BY <1>1, <2>2, <2>6 DEF covered, dimOf, Authorised
  <2>7. CASE sc.dim \notin {"", "resource", "selector", "namespace"}
    BY <1>4, <2>7 DEF covered, dimOf, Authorised
  <2> QED
    BY <2>4, <2>5, <2>6, <2>7
<1> QED
  BY <1>3, <1>4

-----------------------------------------------------------------------------
(* The verdict is right.                                                   *)

(* The members that escape are those whose object is affected and not      *)
(* authorised by any clause (safe.go:36-41).                               *)
LEMMA EscapesAreUnauthorised ==
  ASSUME VInv, pc = "returned"
  PROVE  /\ {obj(r) : r \in escapes(call.s, call.scope, members)} = unauthorised
         /\ escapes(call.s, call.scope, members) # {} <=> unauthorised # {}
<1> DEFINE E == escapes(call.s, call.scope, members)
<1>1. affectedObjects = {obj(r) : r \in members}
  <2>1. IndInv /\ queue = {}
    BY DEF VInv, IndInv, IInv, NothingLost
  <2> QED
    BY <2>1, RecordedIsAffected DEF affectedObjects, recorded
<1>2. ASSUME NEW r \in members PROVE r \in E <=> obj(r) \in unauthorised
  <2>1. r \in E <=> \A sc \in call.scope : r \notin covered(call.s, sc, members)
    BY DEF escapes
  <2>2. obj(r) \in unauthorised <=> \A sc \in call.scope : obj(r) \notin Authorised(call.s, sc)
    BY <1>1 DEF unauthorised
  <2> QED
    BY <2>1, <2>2, CoversIsAuthorised
<1>3. E \subseteq members
  BY DEF escapes
<1>4. \A o \in unauthorised : \E r \in members : o = obj(r)
  BY <1>1 DEF unauthorised
<1> HIDE DEF E
<1>5. {obj(r) : r \in E} = unauthorised
  BY <1>2, <1>3, <1>4
<1> QED
  BY <1>5 DEF E

(* Something leaves the cluster exactly when an update of a known target   *)
(* drops a finalizer (closure.go:141-158, classify.go:113-128).            *)
LEMMA ExternalIsFinalizerDropped ==
  ASSUME GoodCheck, tracked(call.s, call.a.target)
  PROVE  ExternalEffects(call.s, call.a) # {} <=>
           /\ call.a.verb \in {"update", "patch"}
           /\ \E o \in call.a.old, n \in call.a.new : ~(o.finalizers \subseteq n.finalizers)
<1>1. "FinalizerRemoval" \in classify(call.a)
        <=> call.a.verb \in {"update", "patch"} /\ finalizersRemoved(call.a)
  BY DEF classify
<1>2. finalizersRemoved(call.a)
        <=> \E o \in call.a.old, n \in call.a.new : ~(o.finalizers \subseteq n.finalizers)
  <2>1. ASSUME NEW o \in call.a.old, NEW n \in call.a.new, ~(o.finalizers \subseteq n.finalizers)
        PROVE  finalizersRemoved(call.a)
    <3>1. <<o, n>> \in bothPayloads(call.a) /\ o.finalizers \ n.finalizers # {}
      BY <2>1 DEF bothPayloads
    <3> QED
      BY <3>1 DEF finalizersRemoved
  <2>2. ASSUME finalizersRemoved(call.a)
        PROVE  \E o \in call.a.old, n \in call.a.new : ~(o.finalizers \subseteq n.finalizers)
    <3>1. PICK p \in bothPayloads(call.a) : p[1].finalizers \ p[2].finalizers # {}
      BY <2>2 DEF finalizersRemoved
    <3>2. p[1] \in call.a.old /\ p[2] \in call.a.new
      BY DEF bothPayloads
    <3> QED
      BY <3>1, <3>2
  <2> QED
    BY <2>1, <2>2
<1>3. ASSUME NEW o \in call.a.old, NEW n \in call.a.new
      PROVE  removedFinalizers(call.a) = o.finalizers \ n.finalizers
  <2>1. (\A p, q \in call.a.old : p = q) /\ (\A p, q \in call.a.new : p = q)
    BY DEF GoodCheck, OnePayload
  <2>2. call.a.old = {o} /\ call.a.new = {n}
    BY <2>1
  <2> QED
    BY <2>2 DEF removedFinalizers
<1>4. ExternalEffects(call.s, call.a) # {}
        <=> "FinalizerRemoval" \in classify(call.a) /\ removedFinalizers(call.a) # {}
  BY DEF ExternalEffects
<1> QED
  BY <1>1, <1>2, <1>3, <1>4

(* What Safe returns for a closure that is right, see VerdictIsRight.      *)
LEMMA SafeIsRight ==
  ASSUME VInv
  PROVE  VerdictMatchesScope
<1> SUFFICES ASSUME decision # none PROVE VerdictMatchesScope
  BY DEF VerdictMatchesScope
<1>1. pc = "returned" /\ decision = Safe(call.s, call.a, call.scope, members) /\ GoodCall
  BY DEF VInv, IndInv, Judged
<1>2. members = {} <=> ~tracked(call.s, call.a.target)
  BY <1>1, EmptyIsUntracked DEF VInv, EmptyIffUntracked
<1>3. escapes(call.s, call.scope, members) # {} <=> unauthorised # {}
  BY <1>1, EscapesAreUnauthorised
<1>4. decision.verdict =
        IF members = {} \/ escapes(call.s, call.scope, members) # {} THEN "Block"
        ELSE IF ExternalEffects(call.s, call.a) # {} THEN "Warn" ELSE "Allow"
  BY <1>1, SafeIs
<1>5. CASE members = {} \/ unauthorised # {}
  BY <1>2, <1>3, <1>4, <1>5 DEF VerdictMatchesScope
<1>6. CASE members # {} /\ unauthorised = {}
  <2>1. GoodCheck
    BY DEF VInv
  <2> QED
    BY <1>1, <1>2, <1>3, <1>4, <1>6, <2>1, ExternalIsFinalizerDropped DEF VerdictMatchesScope
<1> QED
  BY <1>5, <1>6

(* Safe blocks exactly when the target is unknown or an affected object is *)
(* outside every clause, and warns exactly when only a dropped finalizer   *)
(* is left to report (safe.go:8-62), for every cluster, action and scope.  *)
THEOREM VerdictIsRight == VSpec => []VerdictMatchesScope
<1>1. VInv => VerdictMatchesScope
  BY SafeIsRight
<1> QED
  BY <1>1, CheckInvariant, PTL

(* What the mode makes of that, see ExitIsRight.                           *)
LEMMA ModeIsRight ==
  ASSUME VInv
  PROVE  ExitMatchesScope
<1> SUFFICES ASSUME exit # "running" PROVE ExitMatchesScope
  BY DEF ExitMatchesScope
<1>1. /\ pc = "returned" /\ GoodCall
      /\ decision = Safe(call.s, call.a, call.scope, members)
      /\ report = Apply(call.mode, decision)
      /\ exit = IF report.verdict = "Block" THEN "2" ELSE "0"
  BY DEF VInv, IndInv, Judged
<1> DEFINE E == escapes(call.s, call.scope, members)
<1>2. /\ members = {} <=> ~tracked(call.s, call.a.target)
      /\ E # {} <=> unauthorised # {}
  BY <1>1, EmptyIsUntracked, EscapesAreUnauthorised DEF VInv, EmptyIffUntracked
<1>3. /\ decision.verdict = "Block" <=> members = {} \/ E # {}
      /\ decision.escaping = E
  BY <1>1, SafeIs
<1>4. report.verdict = "Block" <=>
        decision.verdict = "Block" /\ ~(call.mode = "audit" /\ E # {})
  BY <1>1, <1>3, ApplyIs
<1>5. members = {} => E = {}
  BY DEF escapes
<1>6. call.mode \in {"audit", "enforce"}
  BY DEF VInv, GoodCheck, ModeKnown
<1> HIDE DEF E
<1> QED
  BY <1>1, <1>2, <1>3, <1>4, <1>5, <1>6 DEF ExitMatchesScope

(* The exit code is 2 exactly when the target is unknown, in every mode,   *)
(* or when enforce mode meets an affected object that no clause authorises *)
(* (scope.go:134-140, main.go:206-211).                                    *)
THEOREM ExitIsRight == VSpec => []ExitMatchesScope
<1>1. VInv => ExitMatchesScope
  BY ModeIsRight
<1> QED
  BY <1>1, CheckInvariant, PTL

(* What the target owns is affected by a deletion that cascades            *)
(* (closure.go:38-41).                                                     *)
LEMMA OwnedIsAffected ==
  ASSUME GoodCall, call.a.verb = "delete", call.a.cascade
  PROVE  OwnedTree(call.s, call.a.target) \subseteq affectedObjects
<1>1. CASE ~tracked(call.s, call.a.target)
  BY <1>1 DEF OwnedTree
<1>2. CASE tracked(call.s, call.a.target)
  <2> DEFINE top == lookup(call.s, call.a.target)
             X   == below(call.s, top) \cap reached
  <2>1. top \in call.s.objs
    BY <1>2, SeedsAreObjects DEF Seeds
  <2>2. top \in X
    BY <1>2, ReachedIsLeast DEF Closed, Seeds, below
  <2>3. ASSUME NEW o \in X, NEW p \in call.s.objs, Owns(o, p) PROVE p \in X
    <3>1. Affects(classify(call.a), o, p)
      BY <2>3 DEF Affects, classify
    <3>2. p \in reached
      BY <2>3, <3>1, ReachedIsLeast DEF Closed
    <3> QED
      BY <2>3, <3>2 DEF below, Owns
  <2>4. Tree(call.s, X, top)
    BY <2>2, <2>3 DEF Tree
  <2>5. OwnedTree(call.s, call.a.target) \subseteq X
    BY <1>2, <2>1, <2>4, OwnedTreeIsLeast
  <2> QED
    BY <2>5 DEF affectedObjects, AffectedObjects, reached
<1> QED
  BY <1>1, <1>2

(* What escapes a derived scope, see DerivedScopeIsOwnership.              *)
LEMMA OwnedNeverEscapes ==
  ASSUME VInv
  PROVE  DerivedScopeFlagsCollateral
<1> SUFFICES ASSUME exit # "running", call.scope = Derive(call.a.target),
                    call.a.verb = "delete", call.a.cascade
             PROVE  LET tree == OwnedTree(call.s, call.a.target)
                    IN  /\ tree \subseteq affectedObjects
                        /\ {lookup(call.s, r) : r \in report.escaping} = affectedObjects \ tree
  BY DEF DerivedScopeFlagsCollateral
<1>1. /\ pc = "returned" /\ GoodCall
      /\ decision = Safe(call.s, call.a, call.scope, members)
      /\ report = Apply(call.mode, decision)
  BY DEF VInv, IndInv, Judged
<1>2. report.escaping = escapes(call.s, call.scope, members)
  BY <1>1, SafeIs, ApplyIs
<1>3. {lookup(call.s, r) : r \in report.escaping} = unauthorised
  BY <1>1, <1>2, EscapesAreUnauthorised DEF obj
<1>4. UNION {Authorised(call.s, sc) : sc \in call.scope} = OwnedTree(call.s, call.a.target)
  <2>1. /\ OwnershipClause(call.a.target).dim = "ownership"
        /\ OwnershipClause(call.a.target).root = call.a.target
    BY DEF OwnershipClause, clauseOf
  <2>2. Authorised(call.s, OwnershipClause(call.a.target)) = OwnedTree(call.s, call.a.target)
    BY <2>1 DEF Authorised
  <2> QED
    BY <2>2 DEF Derive
<1> QED
  BY <1>1, <1>3, <1>4, OwnedIsAffected DEF unauthorised

(* Under the scope derived from its own target, a deletion that cascades   *)
(* reaches all that the target owns, and what escapes is exactly what it   *)
(* does not own (safe.go:97-100, scope.go:103-107).                        *)
THEOREM DerivedScopeIsOwnership == VSpec => []DerivedScopeFlagsCollateral
<1>1. VInv => DerivedScopeFlagsCollateral
  BY OwnedNeverEscapes
<1> QED
  BY <1>1, CheckInvariant, PTL
=============================================================================
