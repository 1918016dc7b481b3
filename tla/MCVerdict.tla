------------------------------ MODULE MCVerdict ------------------------------
(* The verdict on scopes of every dimension, in both modes.                *)
EXTENDS Verdict, KrsmWorlds

trees ==
  {cluster(depOwners, cmOwners, SVC, selecting(app("x")), app("x"), mounting(CM)) :
     depOwners \in {{}, {POD}}, cmOwners \in {{}, {DEP}}}

Actions ==
  {action("delete", t, TRUE) : t \in {DEP, RS, CM, GONE}}
  \cup {action("restart", DEP, FALSE), action("scale", DEP, FALSE)}

keepers == [selecting(noLabels) EXCEPT !.present = FALSE]

mutations ==
  {mutation(CM, {payload(noLabels, keepers, f)}, {payload(noLabels, keepers, g)}) :
     f \in {{}, {"guard"}}, g \in {{}, {"guard"}}}

declaredScopes ==
  { {},
    {NamespaceClause("", noGroup, "n")},
    {NamespaceClause("", <<"", "v1">>, "n")},
    {SelectorClause("", noGroup, "n", selecting(noLabels))},
    {NamespaceClause("Pod", noGroup, "n"), OwnershipClause(DEP)},
    {ResourceClause("Deployment", <<"apps", "">>, "n", {"d"}), SelectorClause("Pod", noGroup, "n", selecting(app("x"))),
     ResourceClause("Service", noGroup, "n", {"v"}), ResourceClause("", noGroup, "n", {"h", "c"})},
    {[ResourceClause("ConfigMap", noGroup, "n", {"c"}) EXCEPT !.dim = ""],
     SelectorClause("Pod", noGroup, "n", selecting(noLabels))},
    {SelectorClause("", noGroup, "n", selecting(app("x"))), NamespaceClause("", noGroup, "m"),
     [NamespaceClause("", noGroup, "n") EXCEPT !.dim = "region"]} }

declared ==
  {[s |-> c, a |-> x, scope |-> sc, mode |-> m] :
     c \in trees, x \in Actions \cup mutations, sc \in declaredScopes,
     m \in {"audit", "enforce"}}

derived ==
  {[s |-> c, a |-> x, scope |-> Derive(x.target), mode |-> m] :
     c \in trees, x \in Actions \cup mutations, m \in {"audit", "enforce"}}

(* The live path: a target without a uid, and the scope derived from it.   *)
live ==
  {LET t == uidless(x.target)
   IN  [s |-> c, a |-> [x EXCEPT !.target = t], scope |-> Derive(t), mode |-> m] :
     c \in trees, x \in Actions, m \in {"audit", "enforce"}}

MCCalls == declared \cup derived \cup live
=============================================================================
