----------------------------- MODULE ScopeClauses -----------------------------
(***************************************************************************)
(* The clauses of a scope and what they cover (src/closure/model.go and     *)
(* safe.go), with the derived scope (src/scope/scope.go).                  *)
(*                                                                         *)
(* A clause is a record [dim, kind, group, ns, name, selector, root]; its  *)
(* name pattern is the set of names path.Match accepts for it, empty for   *)
(* the empty pattern; noRef stands for a Root that is not set.             *)
(***************************************************************************)
EXTENDS ScanState

-----------------------------------------------------------------------------
noRef == [kind |-> "", group |-> noGroup, ns |-> "", name |-> "", uid |-> ""]

absentSelector ==
  [present |-> FALSE, matchLabels |-> [k \in {} |-> ""], matchExpressions |-> <<>>]

clauseOf(dim_, kind_, group_, ns_) ==
  [dim |-> dim_, kind |-> kind_, group |-> group_, ns |-> ns_,
   name |-> {}, selector |-> absentSelector, root |-> noRef]

ResourceClause(kind, group, ns, names) ==
  [clauseOf("resource", kind, group, ns) EXCEPT !.name = names]
SelectorClause(kind, group, ns, sel) ==
  [clauseOf("selector", kind, group, ns) EXCEPT !.selector = sel]
NamespaceClause(kind, group, ns) == clauseOf("namespace", kind, group, ns)
OwnershipClause(root_) == [clauseOf("ownership", "", noGroup, "") EXCEPT !.root = root_]

(* The Level-0 scope of a target without a declared one.                   *)
Derive(target) == {OwnershipClause(target)}

-----------------------------------------------------------------------------
(* Scope matching.                                                         *)

dimOf(sc) == IF sc.dim = "" THEN "resource" ELSE sc.dim

(* Group and version gate apart, and only when the clause has them.        *)
gates(sc, r) ==
  /\ sc.kind \in {"", r.kind}
  /\ \A i \in {1, 2} : sc.group[i] \in {"", r.group[i]}
  /\ sc.ns = r.ns

(* Slip kept for checking: the empty selector matches the whole gate.      *)
matchSelectorClauseEmptyMatches(s, sc, r) ==
  tracked(s, r) /\ Matches(sc.selector, lookup(s, r).labels)

matchSelectorClause(s, sc, r) ==
  /\ ~isEmptySelector(sc.selector)
  /\ tracked(s, r)
  /\ Matches(sc.selector, lookup(s, r).labels)

(* The refs reached from start by OwnedChildren: the least set that holds  *)
(* start and the children of its members.                                  *)
ownedRefs(s, start) ==
  LET below  == {start} \cup {o.ref : o \in {x \in s.objs : x.owners # {}}}
      edges  == UNION {{<<r, c>> : c \in OwnedChildren(s, r)} : r \in below}
      closed == {X \in SUBSET below : start \in X /\ \A e \in edges : e[1] \in X => e[2] \in X}
  IN  {r \in below : \A X \in closed : r \in X}

(* Slip kept for checking: only the key of the live root is admitted, and  *)
(* not the one the clause gave it.                                         *)
ownedSubtreeOfLive(s, root) ==
  keysOf(ownedRefs(s, IF tracked(s, root) THEN lookup(s, root).ref ELSE root))

(* The membership keys of an ownership clause: the subtree of the live     *)
(* object root names, and root's own key as the clause wrote it.           *)
ownedSubtree(s, root) ==
  LET start == IF tracked(s, root) THEN lookup(s, root).ref ELSE root
  IN  keysOf(ownedRefs(s, start)) \cup {key(root)}

(* The refs a clause covers; a dimension that is not known covers nothing. *)
covered(s, sc, refs) ==
  LET dim == dimOf(sc)
  IN  CASE dim = "resource"  -> {r \in refs : gates(sc, r) /\ r.name \in sc.name}
        [] dim = "selector"  -> {r \in refs : gates(sc, r) /\ matchSelectorClause(s, sc, r)}
        [] dim = "namespace" -> {r \in refs : gates(sc, r)}
        [] dim = "ownership" ->
             LET subtree == ownedSubtree(s, sc.root) IN {r \in refs : key(r) \in subtree}
        [] OTHER -> {}

(* Slip kept for checking: a member must match every clause.               *)
escapesAnyClause(s, scope, refs) == {r \in refs : \E sc \in scope : r \notin covered(s, sc, refs)}

(* The members that match no clause.                                       *)
escapes(s, scope, refs) == refs \ UNION {covered(s, sc, refs) : sc \in scope}
=============================================================================
