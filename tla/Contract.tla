------------------------------- MODULE Contract -------------------------------
(***************************************************************************)
(* What makes a clause and a TaskContract acceptable: ScopeClause.Validate *)
(* (src/closure/model.go) and scope.Compile (src/scope/scope.go).          *)
(*                                                                         *)
(* A contract is a record [apiVersion, kind, maxSeverity, allow]; allow is *)
(* a set of allow-clauses, which are clauses without a root.  A function   *)
(* that may fail is a pair: whether it succeeds, and its result if so.     *)
(***************************************************************************)
EXTENDS ScopeClauses

hasSelector(c) == ~isEmptySelector(c.selector)

(* Validate: the clause has what its dimension needs, and nothing that its *)
(* dimension ignores.                                                      *)
valid(c) ==
  \/ c.dim \in {"", "resource"} /\ ~hasSelector(c) /\ c.root = noRef
  \/ c.dim = "selector" /\ c.name = {} /\ c.root = noRef
  \/ c.dim = "namespace" /\ c.ns # "" /\ c.name = {} /\ ~hasSelector(c) /\ c.root = noRef
  \/ /\ c.dim = "ownership" /\ c.root.kind # "" /\ c.root.name # ""
     /\ c.name = {} /\ ~hasSelector(c) /\ c.kind = "" /\ c.group = noGroup /\ c.ns = ""

severities == {"", "low", "medium", "high", "critical"}

compileClause(ac) ==
  [clauseOf(ac.dim, ac.kind, ac.group, ac.ns) EXCEPT !.name = ac.name, !.selector = ac.selector]

compilableClause(ac) == ac.dim \in {"", "resource", "selector"} /\ valid(compileClause(ac))

compilable(tc) ==
  /\ tc.apiVersion = "krsm.io/v1"
  /\ tc.kind = "TaskContract"
  /\ tc.maxSeverity \in severities
  /\ \A ac \in tc.allow : compilableClause(ac)

Compile(tc) == {compileClause(ac) : ac \in tc.allow}
=============================================================================
