------------------------------- MODULE Verdict -------------------------------
(***************************************************************************)
(* The verdict: Safe (src/closure/safe.go) over the closure the walk       *)
(* returned, then Mode.Apply (src/scope/scope.go), as krsm check runs them *)
(* one after the other (src/cmd/krsm/main.go:206-211 and 290-295).         *)
(*                                                                         *)
(* A call carries two more fields: `scope`, a set of clauses, and `mode`.  *)
(***************************************************************************)
EXTENDS Closure, ScopeClauses

(* The target, as the caller wrote it, differs from the object it names in *)
(* nothing that a clause reads: a group the clause asks for, the key by    *)
(* which an ownership clause knows its members.                            *)
WrittenAsListed(c) ==
  LET listed == lookup(c.s, c.a.target).ref
  IN  \A sc \in c.scope :
        IF sc.dim = "ownership" THEN sc.root = c.a.target \/ key(c.a.target) = key(listed)
        ELSE \A i \in {1, 2} : sc.group[i] = "" \/ c.a.target.group[i] = listed.group[i]

ModeKnown(c) == c.mode \in {"audit", "enforce"}

OnePayload(c) == (\A p, q \in c.a.old : p = q) /\ (\A p, q \in c.a.new : p = q)

ASSUME VerdictCallsAssumption ==
  \A c \in Calls :
    /\ ModeKnown(c) /\ OnePayload(c)
    /\ tracked(c.s, c.a.target) => WrittenAsListed(c)

VARIABLES
  decision,   \* what Safe returned
  report,     \* what Mode.Apply made of it
  exit        \* the exit code of krsm check

allVars == <<call, queue, visited, affected, pc, decision, report, exit>>

-----------------------------------------------------------------------------
(* What the action triggers outside the cluster.                           *)
ExternalEffects(s, a) ==
  IF tracked(s, a.target) /\ "FinalizerRemoval" \in classify(a)
    THEN {[noRef EXCEPT !.kind = "External", !.ns = a.target.ns, !.name = f] :
             f \in removedFinalizers(a)}
    ELSE {}

Decision(verdict_, reason_, closure_, escaping_, external_) ==
  [verdict |-> verdict_, reason |-> reason_, closure |-> closure_,
   escaping |-> escaping_, external |-> external_]

none == Decision("none", "", {}, {}, {})

(* Slip kept for checking: external effects count as escapes.              *)
SafeCountsExternal(s, a, scope, c) ==
  LET external == ExternalEffects(s, a)
      escaping == escapes(s, scope, c) \cup external
  IN  IF c = {} THEN Decision("Block", "fail-closed", {}, {}, {})
      ELSE IF escaping # {} THEN Decision("Block", "escape", c, escaping, external)
      ELSE Decision("Allow", "", c, escaping, external)

(* Safe, given the closure c of the action.                                *)
Safe(s, a, scope, c) ==
  LET external == ExternalEffects(s, a)
      escaping == escapes(s, scope, c)
  IN  IF c = {} THEN Decision("Block", "fail-closed", {}, {}, {})
      ELSE IF escaping # {} THEN Decision("Block", "escape", c, escaping, external)
      ELSE IF external # {} THEN Decision("Warn", "external", c, escaping, external)
      ELSE Decision("Allow", "", c, escaping, external)

(* Slip kept for checking: audit softens every block.                      *)
ApplySoftensAll(mode, d) ==
  IF mode = "audit" /\ d.verdict = "Block"
    THEN [d EXCEPT !.verdict = "Warn", !.reason = "audit"]
    ELSE d

(* Slip kept for checking: audit drops what it does not block.             *)
ApplyDropsEvidence(mode, d) ==
  IF mode = "audit" /\ d.verdict = "Block" /\ d.escaping # {}
    THEN [d EXCEPT !.verdict = "Allow", !.reason = "audit", !.escaping = {}]
    ELSE d

Apply(mode, d) ==
  IF mode = "audit" /\ d.verdict = "Block" /\ d.escaping # {}
    THEN [d EXCEPT !.verdict = "Warn", !.reason = "audit"]
    ELSE d

-----------------------------------------------------------------------------
VInit == Init /\ decision = none /\ report = none /\ exit = "running"

Walk == Next /\ UNCHANGED <<decision, report, exit>>

(* Slip kept for checking: an empty closure is not decided.                *)
DecideNonEmpty ==
  /\ pc = "returned"
  /\ decision = none
  /\ members # {}
  /\ decision' = Safe(call.s, call.a, call.scope, members)
  /\ UNCHANGED <<call, queue, visited, affected, pc, report, exit>>

Decide ==
  /\ pc = "returned"
  /\ decision = none
  /\ decision' = Safe(call.s, call.a, call.scope, members)
  /\ UNCHANGED <<call, queue, visited, affected, pc, report, exit>>

ApplyMode ==
  /\ decision # none
  /\ report = none
  /\ report' = Apply(call.mode, decision)
  /\ UNCHANGED <<call, queue, visited, affected, pc, decision, exit>>

(* Only a Block is reported through the exit code.                         *)
Exit ==
  /\ report # none
  /\ exit = "running"
  /\ exit' = IF report.verdict = "Block" THEN "2" ELSE "0"
  /\ UNCHANGED <<call, queue, visited, affected, pc, decision, report>>

VNext == Walk \/ Decide \/ ApplyMode \/ Exit

VSpec == VInit /\ [][VNext]_allVars /\ WF_allVars(VNext)

-----------------------------------------------------------------------------
Verdicts == {"Allow", "Warn", "Block"}

VTypeOK ==
  /\ TypeOK
  /\ decision = none \/ decision.verdict \in Verdicts
  /\ decision.escaping \subseteq decision.closure
  /\ report = none \/ report.verdict \in Verdicts
  /\ exit \in {"running", "0", "2"}

-----------------------------------------------------------------------------
(* What the verdict should be, said over the objects of the cluster.       *)

affectedObjects == AffectedObjects(call.s, call.a)

(* The objects root transitively owns, root's object included.             *)
OwnedTree(s, root) ==
  IF ~tracked(s, root) THEN {}
  ELSE LET top   == lookup(s, root)
           below == {top} \cup {o \in s.objs : o.owners # {}}
           owns  == {e \in below \X below : Owns(e[1], e[2])}
           trees == {X \in SUBSET below : top \in X /\ \A e \in owns : e[1] \in X => e[2] \in X}
       IN  {o \in below : \A X \in trees : o \in X}

Authorised(s, sc) ==
  IF sc.dim = "ownership" THEN OwnedTree(s, sc.root)
  ELSE {o \in s.objs :
          /\ sc.dim \in {"", "resource", "selector", "namespace"}
          /\ o.ref.ns = sc.ns
          /\ sc.kind # "" => o.ref.kind = sc.kind
          /\ \A i \in {1, 2} : sc.group[i] # "" => o.ref.group[i] = sc.group[i]
          /\ sc.dim \in {"", "resource"} => o.ref.name \in sc.name
          /\ sc.dim = "selector" =>
               ~isEmptySelector(sc.selector) /\ Matches(sc.selector, o.labels)}

unauthorised == affectedObjects \ UNION {Authorised(call.s, sc) : sc \in call.scope}

severity(v) == CASE v = "Allow" -> 0 [] v = "Warn" -> 1 [] v = "Block" -> 2

(* Safe blocks when the target is unknown or an affected object is outside *)
(* every clause, warns when only a removed finalizer is left to report, and *)
(* allows otherwise (safe.go:8-16, "Precedence is Block > Warn > Allow").  *)
VerdictMatchesScope ==
  (decision # none /\ report = none) =>
    LET unknown == ~tracked(call.s, call.a.target)
        escaped == unauthorised # {}
        leaks   == /\ call.a.verb \in {"update", "patch"}
                   /\ \E o \in call.a.old, n \in call.a.new : ~(o.finalizers \subseteq n.finalizers)
    IN  decision.verdict = CASE unknown \/ escaped -> "Block"
                             [] ~unknown /\ ~escaped /\ leaks -> "Warn"
                             [] OTHER -> "Allow"

(* The exit code of krsm check is 2 exactly when the target is unknown, in *)
(* every mode, or when enforce mode meets an affected object that no clause *)
(* authorises (scope.go:134-140, main.go:206-211): audit softens escapes   *)
(* and nothing else.                                                       *)
ExitMatchesScope ==
  exit # "running" =>
    (exit = "2" <=> \/ ~tracked(call.s, call.a.target)
                    \/ call.mode = "enforce" /\ unauthorised # {})

(* A mode changes how loud a verdict is, never what is shown: what Safe     *)
(* found reaches the report, and audit never turns a finding into an Allow *)
(* (scope.go:134-140).                                                     *)
EvidenceKept ==
  report # none =>
    /\ report.closure = decision.closure
    /\ report.escaping = decision.escaping
    /\ report.external = decision.external
    /\ report.verdict = "Allow" <=> decision.verdict = "Allow"

(* Under the derived scope of its own target, a cascading delete reaches   *)
(* everything the target owns and escapes are exactly what it does not own *)
(* (safe.go:97-100, "owned" means the same on both sides of C in scope).   *)
DerivedScopeFlagsCollateral ==
  (/\ exit # "running"
   /\ call.scope = Derive(call.a.target)
   /\ call.a.verb = "delete"
   /\ call.a.cascade) =>
    LET tree == OwnedTree(call.s, call.a.target)
    IN  /\ tree \subseteq affectedObjects
        /\ {lookup(call.s, r) : r \in report.escaping} = affectedObjects \ tree

(* Clauses are alternatives: taking one away never makes Safe kinder, so a *)
(* wider scope never denies more (safe.go:140, "OR across clauses").       *)
WiderScopeNeverStricter ==
  (decision # none /\ report = none) =>
    \A sc \in call.scope :
      severity(Safe(call.s, call.a, call.scope \ {sc}, members).verdict)
        >= severity(decision.verdict)

(* Every check comes to an exit code.                                      *)
Answers == <>(exit # "running")
=============================================================================
