---------------------------- MODULE ScenarioProofs ----------------------------
(***************************************************************************)
(* Proofs about what the files of a scenario say: the clauses made of the  *)
(* entries of a scope file authorise what these grant as they are written, *)
(* and a run decides by that; and the manifests are answered for as the    *)
(* cluster they describe is.                                               *)
(***************************************************************************)
EXTENDS CommandProofs

-----------------------------------------------------------------------------
(* One entry.                                                              *)

(* An empty selector matches any labels.                                   *)
LEMMA EmptyMatches ==
  ASSUME NEW sel, isEmptySelector(sel), NEW labels
  PROVE  Matches(sel, labels)
  BY DEF isEmptySelector, Matches

(* The selector of a clause is the one the entry writes, or absent like an  *)
(* empty one (scenario.go:329-340).                                        *)
LEMMA ClauseSelectorIs ==
  ASSUME NEW e, e.dim = "selector"
  PROVE  LET sel  == Scenario!matchLabels(e.sel)
             read == Scenario!clauseSelector(e)
         IN  /\ isEmptySelector(read) <=> isEmptySelector(sel)
             /\ ~isEmptySelector(sel) => read = sel
<1>1. isEmptySelector(Scenario!absentSelector)
  BY DEF Scenario!absentSelector, isEmptySelector
<1>2. Scenario!isEmptySelector(Scenario!matchLabels(e.sel))
        <=> isEmptySelector(Scenario!matchLabels(e.sel))
  BY DEF Scenario!isEmptySelector, isEmptySelector
<1> QED
  BY <1>1, <1>2 DEF Scenario!clauseSelector, Scenario!scopeSelectorFrom

(* The kinds and groups an entry writes, wherever it does.                 *)
writtenGvks(e) == e.gvk \cup {[kind |-> e.kind, group |-> e.group]}

(* The clause made of an entry with kind k and group g.                    *)
clauseWith(e, k, g) ==
  [Scenario!clauseOf(e.dim, k, g, Scenario!nsOf(k, e.ns)) EXCEPT
     !.name = e.name, !.selector = Scenario!clauseSelector(e)]

(* An entry of a dimension without a root whose kind and group are k and g *)
(* wherever it writes them, with nothing its dimension ignores.            *)
saysWith(e, k, g) ==
  /\ e.dim \in {"", "resource", "selector", "namespace"}
  /\ \A x \in writtenGvks(e) : x.kind \in {"", k} /\ \A i \in {1, 2} : x.group[i] \in {"", g[i]}
  /\ \E x \in writtenGvks(e) : x.kind = k /\ x.group = g
  /\ e.dim \in {"selector", "namespace"} => e.name = {}
  /\ e.dim # "selector" => isEmptySelector(Scenario!matchLabels(e.sel))

(* It becomes a clause that authorises what the entry grants               *)
(* (scenario.go:588-604, 653-669).                                         *)
LEMMA ClauseGrantsEntry ==
  ASSUME NEW e, NEW k, NEW g, saysWith(e, k, g)
  PROVE  Authorised(call.s, clauseWith(e, k, g)) = granted(e)
<1> USE DEF saysWith
<1> DEFINE sc == clauseWith(e, k, g)
           gvks == writtenGvks(e)
           kinds == {x.kind : x \in gvks} \ {""}
           sel == Scenario!matchLabels(e.sel)
           space == Scenario!nsOf(IF kinds = {} THEN "" ELSE CHOOSE y \in kinds : TRUE, e.ns)
<1>1. /\ sc.dim = e.dim /\ sc.kind = k /\ sc.group = g /\ sc.ns = Scenario!nsOf(k, e.ns)
      /\ sc.name = e.name /\ sc.selector = Scenario!clauseSelector(e)
  BY DEF clauseWith, Scenario!clauseOf
<1>2. kinds = {k} \ {""}
  OBVIOUS
<1>3. (IF kinds = {} THEN "" ELSE CHOOSE y \in kinds : TRUE) = k
  BY <1>2
<1>4. space = Scenario!nsOf(k, e.ns)
  BY <1>3
<1>5. granted(e) = {o \in call.s.objs :
                      /\ kinds \subseteq {o.ref.kind}
                      /\ \A x \in gvks, i \in {1, 2} : x.group[i] \in {"", o.ref.group[i]}
                      /\ o.ref.ns = space
                      /\ e.name # {} \/ e.dim \in {"", "resource"} => o.ref.name \in e.name
                      /\ e.dim = "selector" => ~isEmptySelector(sel)
                      /\ Matches(sel, o.labels)}
  BY DEF granted, writtenGvks
<1>6. Authorised(call.s, sc) =
        {o \in call.s.objs :
           /\ o.ref.ns = sc.ns
           /\ sc.kind # "" => o.ref.kind = sc.kind
           /\ \A i \in {1, 2} : sc.group[i] # "" => o.ref.group[i] = sc.group[i]
           /\ sc.dim \in {"", "resource"} => o.ref.name \in sc.name
           /\ sc.dim = "selector" => ~isEmptySelector(sc.selector) /\ Matches(sc.selector, o.labels)}
  BY <1>1 DEF Authorised
<1>8. /\ \A x \in gvks, i \in {1, 2} : x.group[i] \in {"", g[i]}
      /\ \E x \in gvks : x.group = g
  OBVIOUS
<1> HIDE DEF sc, gvks, kinds, space
<1>7. ASSUME NEW o \in call.s.objs
      PROVE  /\ (kinds \subseteq {o.ref.kind}) <=> (sc.kind # "" => o.ref.kind = sc.kind)
             /\ (\A x \in gvks, i \in {1, 2} : x.group[i] \in {"", o.ref.group[i]})
                  <=> (\A i \in {1, 2} : sc.group[i] # "" => o.ref.group[i] = sc.group[i])
             /\ (e.name # {} \/ e.dim \in {"", "resource"} => o.ref.name \in e.name)
                  <=> (sc.dim \in {"", "resource"} => o.ref.name \in sc.name)
             /\ ((e.dim = "selector" => ~isEmptySelector(sel)) /\ Matches(sel, o.labels))
                  <=> (sc.dim = "selector" =>
                         ~isEmptySelector(sc.selector) /\ Matches(sc.selector, o.labels))
  <2>1. (kinds \subseteq {o.ref.kind}) <=> (sc.kind # "" => o.ref.kind = sc.kind)
    BY <1>1, <1>2
  <2>2. (\A x \in gvks, i \in {1, 2} : x.group[i] \in {"", o.ref.group[i]})
          <=> (\A i \in {1, 2} : sc.group[i] # "" => o.ref.group[i] = sc.group[i])
    BY <1>1, <1>8
  <2>3. (e.name # {} \/ e.dim \in {"", "resource"} => o.ref.name \in e.name)
          <=> (sc.dim \in {"", "resource"} => o.ref.name \in sc.name)
    BY <1>1
  <2>4. CASE e.dim = "selector"
    <3>1. /\ isEmptySelector(sc.selector) <=> isEmptySelector(sel)
          /\ ~isEmptySelector(sel) => sc.selector = sel
      BY <1>1, <2>4, ClauseSelectorIs
    <3> HIDE DEF sel
    <3> QED
      BY <1>1, <2>1, <2>2, <2>3, <2>4, <3>1
  <2>5. CASE e.dim # "selector"
    <3>1. Matches(sel, o.labels)
      BY <2>5, EmptyMatches
    <3> HIDE DEF sel
    <3> QED
      BY <1>1, <2>1, <2>2, <2>3, <2>5, <3>1
  <2> QED
    BY <2>4, <2>5
<1> HIDE DEF sel
<1>9. {o \in call.s.objs :
         /\ kinds \subseteq {o.ref.kind}
         /\ \A x \in gvks, i \in {1, 2} : x.group[i] \in {"", o.ref.group[i]}
         /\ o.ref.ns = space
         /\ e.name # {} \/ e.dim \in {"", "resource"} => o.ref.name \in e.name
         /\ e.dim = "selector" => ~isEmptySelector(sel)
         /\ Matches(sel, o.labels)}
      = {o \in call.s.objs :
           /\ o.ref.ns = sc.ns
           /\ sc.kind # "" => o.ref.kind = sc.kind
           /\ \A i \in {1, 2} : sc.group[i] # "" => o.ref.group[i] = sc.group[i]
           /\ sc.dim \in {"", "resource"} => o.ref.name \in sc.name
           /\ sc.dim = "selector" => ~isEmptySelector(sc.selector) /\ Matches(sc.selector, o.labels)}
  BY <1>1, <1>4, <1>7, ZenonT(60)
<1> QED
  BY <1>5, <1>6, <1>9 DEF sc

(* An entry of scope.yaml that parses and has nothing stray authorises what *)
(* it grants, whatever its dimension (scenario.go:548-614).                *)
LEMMA ScopeEntryGrants ==
  ASSUME NEW e, Scenario!entryParses(e), e.gvk = {}, \A r, q \in e.root : r = q,
         e.dim \notin {"selector", "ownership"} => isEmptySelector(Scenario!matchLabels(e.sel))
  PROVE  Authorised(call.s, Scenario!scopeClause(e)) = granted(e)
<1>1. CASE e.dim = "ownership"
  <2>1. PICK r : e.root = {r}
    <3>1. e.root # {}
      BY <1>1, ParsedEntryIsKnown
    <3> QED
      BY <3>1
  <2>2. Scenario!scopeClause(e) = Scenario!OwnershipClause(Scenario!refOf(r))
    BY <1>1, <2>1 DEF Scenario!scopeClause
  <2>3. Authorised(call.s, Scenario!scopeClause(e)) = OwnedTree(call.s, Scenario!refOf(r))
    BY <2>2 DEF Authorised, Scenario!OwnershipClause, Scenario!clauseOf
  <2>4. granted(e) = OwnedTree(call.s, Scenario!refOf(r))
    BY <1>1, <2>1 DEF granted
  <2> QED
    BY <2>3, <2>4
<1>2. CASE e.dim # "ownership"
  <2>1. Scenario!scopeClause(e) = clauseWith(e, e.kind, e.group)
    BY <1>2 DEF Scenario!scopeClause, clauseWith
  <2>2. Scenario!scopeClause(e).dim = e.dim /\ Scenario!scopeClause(e).name = e.name
    BY <2>1 DEF clauseWith, Scenario!clauseOf
  <2>3. /\ e.dim \in {"", "resource", "selector", "namespace"}
        /\ e.dim \in {"selector", "namespace"} => e.name = {}
    BY <1>2, <2>2 DEF Scenario!entryParses, Scenario!valid
  <2>4. writtenGvks(e) = {[kind |-> e.kind, group |-> e.group]}
    BY DEF writtenGvks
  <2>5. /\ \A x \in writtenGvks(e) :
             x.kind \in {"", e.kind} /\ \A i \in {1, 2} : x.group[i] \in {"", e.group[i]}
        /\ \E x \in writtenGvks(e) : x.kind = e.kind /\ x.group = e.group
    BY <2>4
  <2>6. e.dim # "selector" => isEmptySelector(Scenario!matchLabels(e.sel))
    BY <1>2
  <2>7. saysWith(e, e.kind, e.group)
    BY <2>3, <2>5, <2>6 DEF saysWith
  <2> QED
    BY <2>1, <2>7, ClauseGrantsEntry
<1> QED
  BY <1>1, <1>2

(* And so does an entry of a contract that compiles (scenario.go:653-671,  *)
(* scope.go:181-212).                                                      *)
LEMMA ContractEntryGrants ==
  ASSUME NEW e, Scenario!compilableClause(Scenario!allowClause(e)),
         e.kind = "", e.group = noGroup, \A x, y \in e.gvk : x = y,
         e.dim \notin {"selector", "ownership"} => isEmptySelector(Scenario!matchLabels(e.sel))
  PROVE  Authorised(call.s, Scenario!compileClause(Scenario!allowClause(e))) = granted(e)
<1> DEFINE k == Scenario!gvkOf(e).kind
           g == Scenario!gvkOf(e).group
<1>1. /\ Scenario!allowClause(e).dim = e.dim
      /\ Scenario!allowClause(e).kind = k /\ Scenario!allowClause(e).group = g
      /\ Scenario!allowClause(e).ns = Scenario!nsOf(k, e.ns)
      /\ Scenario!allowClause(e).name = e.name
      /\ Scenario!allowClause(e).selector = Scenario!clauseSelector(e)
  BY DEF Scenario!allowClause, Scenario!clauseOf
<1>2. Scenario!compileClause(Scenario!allowClause(e)) = clauseWith(e, k, g)
  BY <1>1 DEF Scenario!compileClause, clauseWith
<1>3. /\ e.dim \in {"", "resource", "selector"}
      /\ e.dim = "selector" => e.name = {}
  <2>1. /\ Scenario!compileClause(Scenario!allowClause(e)).dim = e.dim
        /\ Scenario!compileClause(Scenario!allowClause(e)).name = e.name
    BY <1>2 DEF clauseWith, Scenario!clauseOf
  <2> QED
    BY <1>1, <2>1 DEF Scenario!compilableClause, Scenario!valid
<1>4. /\ \A x \in writtenGvks(e) :
           x.kind \in {"", k} /\ \A i \in {1, 2} : x.group[i] \in {"", g[i]}
      /\ \E x \in writtenGvks(e) : x.kind = k /\ x.group = g
  <2> USE DEF writtenGvks
  <2>1. CASE e.gvk = {}
    BY <2>1 DEF Scenario!gvkOf, Scenario!noGroup, noGroup
  <2>2. CASE e.gvk # {}
    <3>1. PICK x : x \in e.gvk
      BY <2>2
    <3>2. Scenario!gvkOf(e) = x
      BY <2>2, <3>1 DEF Scenario!gvkOf
    <3>3. k = x.kind /\ g = x.group
      BY <3>2
    <3>4. \A y \in writtenGvks(e) : y \in e.gvk \/ (y.kind = "" /\ y.group = noGroup)
      <4> SUFFICES ASSUME NEW y \in writtenGvks(e), y \notin e.gvk
                   PROVE  y.kind = "" /\ y.group = noGroup
        OBVIOUS
      <4>1. y = [kind |-> e.kind, group |-> e.group]
        OBVIOUS
      <4> QED
        BY <4>1
    <3>5. \A y \in e.gvk : y = x
      BY <3>1
    <3>6. x \in writtenGvks(e)
      BY <3>1
    <3>7. noGroup[1] = "" /\ noGroup[2] = ""
      BY DEF noGroup
    <3> HIDE DEF k, g
    <3>8. ASSUME NEW y \in writtenGvks(e)
          PROVE  y.kind \in {"", k} /\ \A i \in {1, 2} : y.group[i] \in {"", g[i]}
      <4>1. CASE y \in e.gvk
        <5>1. y = x
          BY <3>5, <4>1
        <5> QED
          BY <3>3, <5>1
      <4>2. CASE y \notin e.gvk
        <5>1. y.kind = "" /\ y.group = noGroup
          BY <3>4, <4>2
        <5>2. \A i \in {1, 2} : noGroup[i] = ""
          BY <3>7
        <5> HIDE DEF noGroup
        <5> QED
          BY <5>1, <5>2
      <4> QED
        BY <4>1, <4>2
    <3> QED
      BY <3>3, <3>6, <3>8
  <2> QED
    BY <2>1, <2>2
<1>5. e.dim # "selector" => isEmptySelector(Scenario!matchLabels(e.sel))
  BY <1>3
<1>6. saysWith(e, k, g)
  BY <1>3, <1>4, <1>5 DEF saysWith
<1> QED
  BY <1>2, <1>6, ClauseGrantsEntry

-----------------------------------------------------------------------------
(* The file that decides.                                                  *)

(* The clauses of a check on a scenario are those of the file they came    *)
(* from.                                                                   *)
ScopeRead ==
  phase = "checked" /\ fromScenario =>
    /\ source = "taskcontract.yaml" =>
         call.scope = Scenario!Compile(Scenario!parseTaskContract(dir.contract.body))
    /\ source = "scope.yaml" => call.scope = Scenario!parseScope(dir.scope.body)

(* The file is read when the check begins and not again                    *)
(* (scenario.go:98-131, main.go:196-203).                                  *)
LEMMA ScopeReadKept ==
  ASSUME RunInv, ScopeRead, [CNext]_cvars
  PROVE  ScopeRead'
<1> SUFFICES ASSUME phase' = "checked", fromScenario' PROVE ScopeRead'
  BY DEF ScopeRead
<1>1. CASE phase = "checked"
  <2>1. [VNext]_allVars /\ UNCHANGED <<phase, asked, dir, source>>
    BY <1>1, CheckSteps
  <2>2. UNCHANGED call
    BY <2>1, CheckStepsWalk
  <2> QED
    BY <1>1, <2>1, <2>2 DEF ScopeRead, fromScenario
<1>2. CASE phase # "checked"
  <2>1. UNCHANGED <<asked, dir>>
    BY <1>2, CheckStarts
  <2>2. phase \notin {"list", "error", "usage"} /\ ~Build /\ CallIsRecord
    BY <1>2, <2>1, CheckStarts DEF fromScenario, RunInv, UndecidedUntilScoped, Build
  <2>3. ReadContract \/ ReadScope \/ DeriveScope
    BY <1>2, <2>2, NothingJudgedBefore
       DEF CNext, Run, ShowUsage, RejectArgs, ChooseScenario, ChooseLive, Connect, ConnectFails,
           ReadCluster, ReadRequest, SkipContract, LoadFails, proceed, fail, RunInv,
           ReadLive, Resolve, ResolveFails, Discover, List, ApiFails, BuildFails, exitWithError,
           Others, ChangeApi, Write, cvars, lvars, liveVars, reading
  <2>4. CASE ReadContract
    BY <2>1, <2>2, <2>4 DEF ReadContract, startCheck, ScopeRead, CallIsRecord
  <2>5. CASE ReadScope
    BY <2>1, <2>2, <2>5 DEF ReadScope, startCheck, ScopeRead, CallIsRecord
  <2>6. CASE DeriveScope
    BY <2>1, <2>2, <2>6 DEF DeriveScope, startCheck, ScopeRead, derived
  <2> QED
    BY <2>3, <2>4, <2>5, <2>6
<1> QED
  BY <1>1, <1>2

(* What the scope of a check authorises is what the entries of the file    *)
(* grant, if they have nothing stray.                                      *)
LEMMA ScopeGrantsEntries ==
  ASSUME RunInv, ScopeRead, phase = "checked", fromScenario, declaring.status # "absent",
         NoStray(dir)
  PROVE  UNION {Authorised(call.s, sc) : sc \in call.scope} = UNION {granted(e) : e \in entries}
<1>1. ScopeAccounted
  BY DEF RunInv, UndecidedUntilScoped
<1>2. CASE source = "taskcontract.yaml" /\ contractLoads
  <2> DEFINE clause(e) == Scenario!compileClause(Scenario!allowClause(e))
  <2>1. dir.contract.status = "ok" /\ entries = dir.contract.body.allow
    BY <1>2 DEF contractLoads, loads, declaring, entries
  <2>2. call.scope = {clause(e) : e \in entries}
    <3>1. call.scope = Scenario!Compile(Scenario!parseTaskContract(dir.contract.body))
      BY <1>2 DEF ScopeRead
    <3> QED
      BY <2>1, <3>1 DEF Scenario!Compile, Scenario!parseTaskContract
  <2>3. ASSUME NEW e \in entries PROVE Authorised(call.s, clause(e)) = granted(e)
    <3>1. Scenario!compilableClause(Scenario!allowClause(e))
      BY <1>2, <2>1 DEF contractLoads, loads, Scenario!compilable, Scenario!parseTaskContract
    <3>2. /\ e.kind = "" /\ e.group = noGroup /\ \A x, y \in e.gvk : x = y
          /\ e.dim \notin {"selector", "ownership"} => isEmptySelector(Scenario!matchLabels(e.sel))
      BY <2>1 DEF NoStray
    <3> QED
      BY <3>1, <3>2, ContractEntryGrants
  <2> HIDE DEF clause
  <2> QED
    BY <2>2, <2>3
<1>3. CASE source = "scope.yaml" /\ dir.contract.status = "absent" /\ scopeLoads
  <2>1. dir.scope.status = "ok" /\ entries = dir.scope.body
    BY <1>3 DEF scopeLoads, loads, declaring, entries
  <2>2. call.scope = {Scenario!scopeClause(e) : e \in entries}
    BY <1>3, <2>1 DEF ScopeRead, Scenario!parseScope
  <2>3. ASSUME NEW e \in entries PROVE Authorised(call.s, Scenario!scopeClause(e)) = granted(e)
    <3>1. Scenario!entryParses(e)
      BY <1>3, <2>1 DEF scopeLoads, loads, Scenario!scopeParses
    <3>2. /\ e.gvk = {} /\ \A r, q \in e.root : r = q
          /\ e.dim \notin {"selector", "ownership"} => isEmptySelector(Scenario!matchLabels(e.sel))
      BY <2>1 DEF NoStray
    <3> QED
      BY <3>1, <3>2, ScopeEntryGrants
  <2> QED
    BY <2>2, <2>3
<1>4. ~(dir.contract.status = "absent" /\ dir.scope.status = "absent")
  BY DEF declaring
<1> QED
  BY <1>1, <1>2, <1>3, <1>4 DEF ScopeAccounted

(* Nothing is affected exactly when the target is unknown.                 *)
LEMMA NothingHitIsUnknown ==
  ASSUME IndInv, pc = "returned"
  PROVE  affectedObjects = {} <=> ~tracked(call.s, call.a.target)
<1>1. queue = {}
  BY DEF IndInv, IInv, NothingLost
<1>2. affectedObjects = {obj(r) : r \in members}
  BY <1>1, RecordedIsAffected DEF affectedObjects, recorded
<1>3. members = {} <=> ~tracked(call.s, call.a.target)
  BY EmptyIsUntracked DEF EmptyIffUntracked
<1> QED
  BY <1>2, <1>3

(* In enforce mode a run lets an action through only if all that it         *)
(* affects has everything that some entry of the scope file writes, and    *)
(* stops it only for something that has not (scope.go:192-194,             *)
(* model.go:187-195), for every directory whose entries have nothing that  *)
(* is not read.  A request is to name its target by the group it has.      *)
THEOREM ScopesDecideAsWritten ==
  StartsSane =>
    (CSpec => []((fromScenario => groupGiven) /\ NoStray(dir) => ScopeAsWritten))
<1> SUFFICES ASSUME StartsSane
             PROVE  CSpec => []((fromScenario => groupGiven) /\ NoStray(dir) => ScopeAsWritten)
  OBVIOUS
<1> DEFINE Kept == (fromScenario => groupGiven) /\ NoStray(dir) => ScopeAsWritten
<1>1. CInit => JudgeSound /\ ScopeRead
  BY DEF CInit, JudgeSound, ScopeRead
<1>2. PathInv /\ JudgeSound /\ ScopeRead /\ [CNext]_cvars => JudgeSound' /\ ScopeRead'
  BY JudgeSoundKept, ScopeReadKept DEF PathInv
<1>3. PathInv /\ JudgeSound /\ ScopeRead => Kept
  <2> SUFFICES ASSUME PathInv, JudgeSound, ScopeRead, fromScenario, groupGiven, NoStray(dir),
                      exit \in {"0", "2"}, call.mode = "enforce", declaring.status # "absent"
               PROVE  ScopeAsWritten
    BY DEF ScopeAsWritten
  <2>1. phase = "checked"
    BY DEF PathInv, RunInv, UndecidedUntilScoped
  <2>2. GoodCall /\ GoodCheck /\ oneVersionEach
    BY <2>1, CallIsGood DEF GoodCheck
  <2>3. VInv
    BY <2>1, <2>2, BegunIsSound DEF JudgeSound, PlainCall
  <2>4. ExitMatchesScope /\ IndInv /\ pc = "returned"
    BY <2>3, ModeIsRight DEF VInv, Judged
  <2>5. affectedObjects = {} <=> ~tracked(call.s, call.a.target)
    BY <2>4, NothingHitIsUnknown
  <2>6. unauthorised = affectedObjects \ (UNION {granted(e) : e \in entries})
    BY <2>1, ScopeGrantsEntries DEF unauthorised, PathInv
  <2>7. exit = "2" <=> affectedObjects = {} \/ unauthorised # {}
    BY <2>4, <2>5 DEF ExitMatchesScope
  <2> DEFINE allowed == UNION {granted(e) : e \in entries}
  <2> HIDE DEF allowed
  <2>8. unauthorised = {} <=> affectedObjects \subseteq allowed
    BY <2>6 DEF allowed
  <2>9. /\ exit = "0" => affectedObjects # {} /\ affectedObjects \subseteq allowed
        /\ exit = "2" => affectedObjects = {} \/ ~(affectedObjects \subseteq allowed)
    BY <2>7, <2>8
  <2> QED
    BY <2>9 DEF ScopeAsWritten, allowed
<1> HIDE DEF Kept
<1>4. CSpec => []Kept
  BY <1>1, <1>2, <1>3, PathInvariant, PTL DEF CSpec
<1> QED
  BY <1>4 DEF Kept

-----------------------------------------------------------------------------
(* Two states that hold the same objects under other identities.           *)

(* Every p[i] of s is q[i] in t, different ones stay different, and what    *)
(* the action does first, affects and binds in s it does in t.             *)
Carries(s, a, t, b, p, q) ==
  /\ DOMAIN p = DOMAIN q
  /\ s.objs = {p[i] : i \in DOMAIN p} /\ t.objs = {q[i] : i \in DOMAIN p}
  /\ \A i, j \in DOMAIN p : p[i] = p[j] => i = j
  /\ Seeds(s, a) \subseteq s.objs /\ Seeds(t, b) \subseteq t.objs
  /\ \A i \in DOMAIN p : p[i] \in Seeds(s, a) => q[i] \in Seeds(t, b)
  /\ \A i, j \in DOMAIN p : Affects(classify(a), p[i], p[j]) => Affects(classify(b), q[i], q[j])
  /\ \A i, j \in DOMAIN p : BindsPod(p[i], p[j]) => BindsPod(q[i], q[j])

(* What is affected in s is affected in t.                                 *)
LEMMA CarriesAffected ==
  ASSUME NEW s, NEW a, NEW t, NEW b, NEW p, NEW q, Carries(s, a, t, b, p, q)
  PROVE  /\ AffectedObjects(s, a) \subseteq s.objs
         /\ \A k \in DOMAIN p : p[k] \in AffectedObjects(s, a) => q[k] \in AffectedObjects(t, b)
<1> DEFINE R == Reached(s, a)
           T == Reached(t, b)
           X == {p[i] : i \in {j \in DOMAIN p : q[j] \in T}}
<1> USE DEF Carries
<1>1. R \subseteq s.objs
  BY LeastClosedSet
<1>2. Closed(t, b, T) /\ T \subseteq t.objs
  BY LeastClosedSet
<1>3. Seeds(s, a) \subseteq X
  <2> SUFFICES ASSUME NEW o \in Seeds(s, a) PROVE o \in X
    OBVIOUS
  <2>1. PICK i \in DOMAIN p : o = p[i]
    OBVIOUS
  <2>2. q[i] \in T
    BY <1>2, <2>1 DEF Closed
  <2> QED
    BY <2>1, <2>2
<1>4. ASSUME NEW o \in X, NEW x \in s.objs, Affects(classify(a), o, x)
      PROVE  x \in X
  <2>1. PICK i \in DOMAIN p : o = p[i] /\ q[i] \in T
    OBVIOUS
  <2>2. PICK j \in DOMAIN p : x = p[j]
    OBVIOUS
  <2>3. Affects(classify(b), q[i], q[j]) /\ q[j] \in t.objs
    BY <1>4, <2>1, <2>2
  <2>4. q[j] \in T
    BY <1>2, <2>1, <2>3 DEF Closed
  <2> QED
    BY <2>2, <2>4
<1>5. R \subseteq X
  <2>1. Closed(s, a, X)
    BY <1>3, <1>4 DEF Closed
  <2> HIDE DEF X
  <2> QED
    BY <2>1, LeastInAnyClosed
<1>6. \A k \in DOMAIN p : p[k] \in R => q[k] \in T
  <2> HIDE DEF R, T
  <2> QED
    BY <1>5
<1>7. ASSUME NEW k \in DOMAIN p, p[k] \in Bindings(s, R) PROVE q[k] \in Bindings(t, T)
  <2>1. PICK o \in R : BindsPod(p[k], o)
    BY <1>7 DEF Bindings
  <2>2. PICK i \in DOMAIN p : o = p[i]
    BY <1>1
  <2>3. q[i] \in T /\ BindsPod(q[k], q[i]) /\ q[k] \in t.objs
    BY <1>6, <2>1, <2>2
  <2> QED
    BY <2>3 DEF Bindings
<1>8. AffectedObjects(s, a) = R \cup Bindings(s, R) /\ AffectedObjects(t, b) = T \cup Bindings(t, T)
  BY DEF AffectedObjects
<1>9. Bindings(s, R) \subseteq s.objs
  BY DEF Bindings
<1> HIDE DEF R, T
<1> QED
  BY <1>1, <1>6, <1>7, <1>8, <1>9

(* An object and the one it is in the other state, as far as their own     *)
(* fields go: only the identities behind the names differ.                 *)
LooksLike(o, x) ==
  human(o.ref) = human(x.ref) /\ o.labels = x.labels /\ o.selector = x.selector

(* Then they are related alike, if owners and references are.              *)
LEMMA LookalikesRelateAlike ==
  ASSUME NEW o, NEW x, LooksLike(o, x), NEW p, NEW q, LooksLike(p, q), NEW classes,
         Owns(o, p) <=> Owns(x, q),
         RefersTo(p, o, TRUE) <=> RefersTo(q, x, TRUE),
         RefersTo(p, o, FALSE) <=> RefersTo(q, x, FALSE)
  PROVE  /\ Affects(classes, o, p) <=> Affects(classes, x, q)
         /\ BindsPod(o, p) <=> BindsPod(x, q)
<1>1. /\ o.ref.kind = x.ref.kind /\ o.ref.ns = x.ref.ns /\ o.ref.name = x.ref.name
      /\ p.ref.kind = q.ref.kind /\ p.ref.ns = q.ref.ns /\ p.ref.name = q.ref.name
      /\ o.labels = x.labels /\ p.labels = q.labels
      /\ o.selector = x.selector /\ p.selector = q.selector
  BY DEF LooksLike, human
<1>2. Contains(o, p) <=> Contains(x, q)
  BY <1>1 DEF Contains
<1>3. SelectsPod(o.ref.ns, o.ref.kind, o.selector, p) <=> SelectsPod(x.ref.ns, x.ref.kind, x.selector, q)
  BY <1>1 DEF SelectsPod
<1>4. BindsPod(o, p) <=> BindsPod(x, q)
  BY <1>1 DEF BindsPod, BindsLabels
<1>5. Affects(classes, o, p) <=> Affects(classes, x, q)
  BY <1>1, <1>2, <1>3 DEF Affects
<1> QED
  BY <1>4, <1>5

(* Two actions that differ in no more than the uid of their target.        *)
SameButUID(a, b) ==
  /\ b.verb = a.verb /\ b.cascade = a.cascade /\ b.old = a.old /\ b.new = a.new
  /\ human(b.target) = human(a.target)

(* That uid is nothing the effect classes or a mutation of the selector or *)
(* the labels of the target read (classify.go:28-110, closure.go:104-139).  *)
LEMMA UIDClassifiesNothing ==
  ASSUME NEW a, NEW b, SameButUID(a, b), NEW o, NEW x, LooksLike(o, x)
  PROVE  /\ classify(b) = classify(a)
         /\ AffectedByMutation(a, o) <=> AffectedByMutation(b, x)
<1>1. b.target.kind = a.target.kind /\ b.target.ns = a.target.ns
  BY DEF SameButUID, human
<1>2. classify(b) = classify(a)
  BY <1>1 DEF SameButUID, classify, selectorChanged, labelsChanged, finalizersRemoved, bothPayloads
<1>3. AffectedByMutation(a, o) <=> AffectedByMutation(b, x)
  BY <1>1, <1>2 DEF SameButUID, AffectedByMutation, SelectsPod, BindsLabels, LooksLike, human
<1> QED
  BY <1>2, <1>3

(* A ref whose uid and name belong together is found by its name.          *)
LEMMA FoundByName ==
  ASSUME NEW s, Indexed(s), NEW r, Consistent(s, r)
  PROVE  /\ tracked(s, r) <=> \E o \in s.objs : human(o.ref) = human(r)
         /\ tracked(s, r) => lookup(s, r) \in s.objs /\ human(lookup(s, r).ref) = human(r)
<1>1. tracked(s, r) => lookup(s, r) \in s.objs /\ human(lookup(s, r).ref) = human(r)
  BY DEF Indexed, Consistent, tracked, knownUID, lookup
<1>2. (\E o \in s.objs : human(o.ref) = human(r)) => tracked(s, r)
  BY DEF Indexed, tracked
<1> QED
  BY <1>1, <1>2

-----------------------------------------------------------------------------
(* The manifests, as the loader and as the live reader read them.          *)

Parity ==
  /\ loads(dir.cluster, Scenario!clusterParses(dir.cluster.body)) /\ dir.request.status = "ok"
  /\ DirSane(dir) /\ Deployable(dir)

space(m) == Scenario!nsOf(m.kind, m.ns)

apiIndex == newNameUIDIndex(apiItems, apiScope)

loaded == [i \in DOMAIN docs |-> Scenario!objectFrom(docs[i])]
built  == [i \in DOMAIN docs |-> buildOne(apiItem(docs[i]), apiScope, apiIndex)]

(* The names by which a manifest is meant, its owners and what it refers to. *)
ownersOf(m) == {<<o.kind, space(m), o.name>> : o \in m.owners}

refersTo(m, scaling) ==
  {<<r.to, space(m), r.name>> : r \in {x \in m.refs : (x.kind = "RefScaleTarget") = scaling}}

(* What the loader, Deployable and DirSane say of the manifests.           *)
LEMMA ManifestsAre ==
  ASSUME Parity
  PROVE  /\ Len(dir.cluster.body) \in Nat /\ DOMAIN docs \subseteq 1..Len(dir.cluster.body)
         /\ \A i, j \in DOMAIN docs : nameOf(docs[i]) = nameOf(docs[j]) => i = j
         /\ \A i \in DOMAIN docs : joined(nameOf(docs[i])) # "" /\ apiUID(docs[i]) # ""
         /\ \A i, j \in DOMAIN docs : apiUID(docs[i]) = apiUID(docs[j]) => i = j
         /\ \A i, j \in DOMAIN docs : \A h \in ownersOf(docs[j]) :
              joined(h) = joined(nameOf(docs[i])) => h = nameOf(docs[i])
         /\ \A i, j \in DOMAIN docs : \A scaling \in BOOLEAN : \A h \in refersTo(docs[j], scaling) :
              joined(h) # "" /\ (joined(h) = joined(nameOf(docs[i])) => h = nameOf(docs[i]))
         /\ \A i \in DOMAIN docs :
              /\ wanted(apiResource(docs[i]))
              /\ \A v, w \in docs[i].selector : v = w
              /\ docs[i].kind = "Service" => \A w \in docs[i].selector : w.exprs = <<>>
              /\ docs[i].kind \in Scenario!clusterScopedKinds \/
                   \A o \in docs[i].owners : o.kind \notin Scenario!clusterScopedKinds
<1> DEFINE written(m) == {nameOf(m)} \cup ownersOf(m) \cup {<<r.to, space(m), r.name>> : r \in m.refs}
           names == {nameOf(dir.request.body.target)} \cup UNION {written(docs[i]) : i \in DOMAIN docs}
<1>1. /\ Len(dir.cluster.body) \in Nat /\ DOMAIN dir.cluster.body = 1..Len(dir.cluster.body)
      /\ \A i, j \in DOMAIN docs : nameOf(docs[i]) = nameOf(docs[j]) => i = j
  BY DEF Parity, loads, DirSane, docs
<1>2. DOMAIN docs \subseteq 1..Len(dir.cluster.body)
  BY <1>1 DEF docs, Scenario!kinded
<1>3. /\ \A h, k \in names : joined(h) # "" /\ (joined(h) = joined(k) => h = k)
      /\ \A i \in DOMAIN docs : apiUID(docs[i]) # ""
      /\ \A i, j \in DOMAIN docs : apiUID(docs[i]) = apiUID(docs[j]) => nameOf(docs[i]) = nameOf(docs[j])
      /\ \A i \in DOMAIN docs :
           /\ wanted(apiResource(docs[i]))
           /\ \A v, w \in docs[i].selector : v = w
           /\ docs[i].kind \in Scenario!clusterScopedKinds \/
                \A o \in docs[i].owners : o.kind \notin Scenario!clusterScopedKinds
  BY DEF Parity, loads, Deployable, docs, space, ownersOf
<1>10. \A i \in DOMAIN docs :
         docs[i].kind = "Service" => \A w \in docs[i].selector : w.exprs = <<>>
  BY DEF Parity, loads, docs, Scenario!clusterParses, Scenario!selectorParses
<1>4. \A j \in DOMAIN docs : written(docs[j]) \subseteq names
  OBVIOUS
<1>5. \A j \in DOMAIN docs, scaling \in BOOLEAN :
        nameOf(docs[j]) \in names /\ ownersOf(docs[j]) \subseteq names /\ refersTo(docs[j], scaling) \subseteq names
  BY <1>4 DEF refersTo
<1> HIDE DEF names
<1>6. \A i, j \in DOMAIN docs : apiUID(docs[i]) = apiUID(docs[j]) => i = j
  BY <1>1, <1>3
<1>7. \A i \in DOMAIN docs : joined(nameOf(docs[i])) # ""
  BY <1>3, <1>5
<1>8. \A i, j \in DOMAIN docs : \A h \in ownersOf(docs[j]) :
        joined(h) = joined(nameOf(docs[i])) => h = nameOf(docs[i])
  BY <1>3, <1>5
<1>9. \A i, j \in DOMAIN docs : \A scaling \in BOOLEAN : \A h \in refersTo(docs[j], scaling) :
        joined(h) # "" /\ (joined(h) = joined(nameOf(docs[i])) => h = nameOf(docs[i]))
  BY <1>3, <1>5
<1> QED
  BY <1>1, <1>2, <1>3, <1>6, <1>7, <1>8, <1>9, <1>10

(* The scope map knows every manifest's kind, and the namespace that the   *)
(* live reader resolves is the one the loader does (build.go:167-178,      *)
(* scenario.go:265-273).                                                   *)
LEMMA SpacesAgree ==
  ASSUME NEW i \in DOMAIN docs
  PROVE  resolveNamespace(apiItem(docs[i]), apiScope) = space(docs[i])
<1> DEFINE m == docs[i]
           g == <<m.apiVersion, m.kind>>
<1>1. g \in DOMAIN apiScope /\ apiScope[g] = (m.kind \notin Scenario!clusterScopedKinds)
  BY DEF apiScope
<1>2. apiItem(m).apiVersion = m.apiVersion /\ apiItem(m).kind = m.kind /\ apiItem(m).ns = space(m)
  BY DEF apiItem, space
<1>3. space(m) # "" <=> m.kind \notin Scenario!clusterScopedKinds
  BY DEF space, Scenario!nsOf
<1> QED
  BY <1>1, <1>2, <1>3 DEF resolveNamespace

(* Loaded or built, the object of a manifest has its name, its labels and  *)
(* its selector; what it is known by is its own, but for each manifest.    *)
LEMMA ManifestLooksAlike ==
  ASSUME Parity, NEW i \in DOMAIN docs
  PROVE  /\ LooksLike(loaded[i], built[i])
         /\ human(loaded[i].ref) = nameOf(docs[i])
         /\ loaded[i].ref.uid = joined(nameOf(docs[i]))
         /\ built[i].ref.uid = apiUID(docs[i])
<1> DEFINE m == docs[i]
<1>1. human(loaded[i].ref) = nameOf(m) /\ loaded[i].ref.uid = joined(nameOf(m))
  BY ObjectIsNamed DEF loaded
<1>2. /\ human(built[i].ref) = <<m.kind, resolveNamespace(apiItem(m), apiScope), m.name>>
      /\ built[i].ref.uid = apiUID(m)
      /\ built[i].labels = m.labels
      /\ built[i].selector = selectorFrom(apiItem(m))
  BY DEF built, buildOne, apiItem, human
<1>3. loaded[i].labels = m.labels /\ loaded[i].selector = Scenario!selectorFrom(m)
  BY DEF loaded, Scenario!objectFrom
<1>4. selectorFrom(apiItem(m)) = Scenario!selectorFrom(m)
  <2>1. apiItem(m).selector = m.selector
    BY DEF apiItem
  <2>2. CASE m.selector = {}
    BY <2>1, <2>2 DEF selectorFrom, Scenario!selectorFrom, Scenario!absentSelector
  <2>3. ASSUME NEW w \in m.selector PROVE selectorFrom(apiItem(m)) = Scenario!selectorFrom(m)
    <3>1. \A v, u \in docs[i].selector : v = u
      BY ManifestsAre
    <3>2. m.selector = {w} /\ (CHOOSE v \in m.selector : TRUE) = w
      BY <3>1
    <3>3. apiItem(m).kind = m.kind
      BY DEF apiItem
    <3>4. CASE m.kind = "Service"
      <4>1. w.exprs = <<>>
        BY <3>4, ManifestsAre
      <4>2. Scenario!selectorFrom(m) = [present |-> TRUE, matchLabels |-> w.matchLabels,
                                        matchExpressions |-> <<>>]
        BY <3>2, <3>4 DEF Scenario!selectorFrom, Scenario!absentSelector
      <4>3. selectorFrom(apiItem(m)) = [present |-> TRUE, matchLabels |-> w.matchLabels,
                                        matchExpressions |-> <<>>]
        BY <2>1, <3>2, <3>3, <3>4, <4>1 DEF selectorFrom
      <4> QED
        BY <4>2, <4>3
    <3>5. CASE m.kind # "Service"
      BY <2>1, <3>2, <3>3, <3>5 DEF selectorFrom, Scenario!selectorFrom, Scenario!matchLabels
    <3> QED
      BY <3>4, <3>5
  <2> QED
    BY <2>2, <2>3
<1>5. human(built[i].ref) = nameOf(m)
  BY <1>2, SpacesAgree DEF nameOf, space
<1> QED
  BY <1>1, <1>2, <1>3, <1>4, <1>5 DEF LooksLike

(* The index of the live reader gives each name the uid of the one object  *)
(* that has it (build.go:44-58).                                           *)
LEMMA ApiIndexIs ==
  ASSUME Parity
  PROVE  /\ DOMAIN apiIndex = {nameOf(docs[i]) : i \in DOMAIN docs}
         /\ \A i \in DOMAIN docs : apiIndex[nameOf(docs[i])] = apiUID(docs[i])
<1> DEFINE chosen(h) == CHOOSE i \in DOMAIN apiItems :
             /\ apiItems[i].uid # "" /\ filedAs(apiItems[i], apiScope) = h
             /\ \A j \in DOMAIN apiItems :
                  apiItems[j].uid # "" /\ filedAs(apiItems[j], apiScope) = h => j <= i
<1>1. DOMAIN apiItems = DOMAIN docs
  BY ManifestsAre DEF apiItems
<1>2. \A i \in DOMAIN docs :
        apiItems[i].uid = apiUID(docs[i]) /\ filedAs(apiItems[i], apiScope) = nameOf(docs[i])
  <2> SUFFICES ASSUME NEW i \in DOMAIN docs
               PROVE  apiItems[i].uid = apiUID(docs[i]) /\ filedAs(apiItems[i], apiScope) = nameOf(docs[i])
    OBVIOUS
  <2>1. apiItems[i] = apiItem(docs[i])
    BY <1>1 DEF apiItems
  <2>2. /\ apiItem(docs[i]).kind = docs[i].kind /\ apiItem(docs[i]).name = docs[i].name
        /\ apiItem(docs[i]).uid = apiUID(docs[i])
    BY DEF apiItem
  <2> QED
    BY <2>1, <2>2, SpacesAgree DEF filedAs, nameOf, space
<1>0. Len(dir.cluster.body) \in Nat /\ DOMAIN docs \subseteq 1..Len(dir.cluster.body)
  BY ManifestsAre
<1>9. \A i \in DOMAIN docs : apiUID(docs[i]) # ""
  BY ManifestsAre
<1>10. \A i, j \in DOMAIN docs : nameOf(docs[i]) = nameOf(docs[j]) => i = j
  BY ManifestsAre
<1>11. \A i \in DOMAIN docs : i <= i
  BY <1>0
<1>4. apiIndex = [h \in {filedAs(apiItems[i], apiScope) : i \in {j \in DOMAIN apiItems : apiItems[j].uid # ""}} |->
                    apiItems[chosen(h)].uid]
  BY DEF apiIndex, newNameUIDIndex
<1>5. ASSUME NEW i \in DOMAIN docs PROVE chosen(nameOf(docs[i])) = i
  <2>1. \A j \in DOMAIN apiItems :
          apiItems[j].uid # "" /\ filedAs(apiItems[j], apiScope) = nameOf(docs[i]) => j = i
    BY <1>1, <1>2, <1>9, <1>10
  <2>3. i <= i
    BY <1>11
  <2>2. \E k \in DOMAIN apiItems :
          /\ apiItems[k].uid # "" /\ filedAs(apiItems[k], apiScope) = nameOf(docs[i])
          /\ \A j \in DOMAIN apiItems :
               apiItems[j].uid # "" /\ filedAs(apiItems[j], apiScope) = nameOf(docs[i]) => j <= k
    BY <1>1, <1>2, <1>9, <2>1, <2>3
  <2> QED
    BY <2>1, <2>2
<1> HIDE DEF chosen
<1>6. DOMAIN apiIndex = {nameOf(docs[i]) : i \in DOMAIN docs}
  <2>1. DOMAIN apiIndex = {filedAs(apiItems[i], apiScope) : i \in {j \in DOMAIN apiItems : apiItems[j].uid # ""}}
    BY <1>4
  <2>2. {j \in DOMAIN apiItems : apiItems[j].uid # ""} = DOMAIN docs
    BY <1>1, <1>2, <1>9, <1>10
  <2> QED
    BY <1>2, <2>1, <2>2
<1>7. \A i \in DOMAIN docs : apiIndex[nameOf(docs[i])] = apiUID(docs[i])
  <2> SUFFICES ASSUME NEW i \in DOMAIN docs PROVE apiIndex[nameOf(docs[i])] = apiUID(docs[i])
    OBVIOUS
  <2>1. nameOf(docs[i]) \in DOMAIN apiIndex
    BY <1>6
  <2>2. apiIndex[nameOf(docs[i])] = apiItems[chosen(nameOf(docs[i]))].uid
    BY <1>4, <2>1
  <2> QED
    BY <1>2, <1>5, <2>2
<1> QED
  BY <1>6, <1>7

(* Loaded, a manifest owns another when the other names it as an owner     *)
(* (scenario.go:411-436).                                                  *)
LEMMA LoadedOwns ==
  ASSUME Parity, NEW i \in DOMAIN docs, NEW j \in DOMAIN docs
  PROVE  Owns(loaded[i], loaded[j]) <=> nameOf(docs[i]) \in ownersOf(docs[j])
<1>1. loaded[i].ref.uid = joined(nameOf(docs[i])) /\ joined(nameOf(docs[i])) # ""
  BY ManifestLooksAlike, ManifestsAre
<1>2. loaded[j].owners = {joined(h) : h \in ownersOf(docs[j])}
  <2>1. \A o : Scenario!uidOf(o.kind, space(docs[j]), o.name) = joined(<<o.kind, space(docs[j]), o.name>>)
    BY DEF Scenario!uidOf, joined
  <2>2. loaded[j].owners = {Scenario!uidOf(o.kind, space(docs[j]), o.name) : o \in docs[j].owners}
    BY DEF loaded, Scenario!objectFrom, Scenario!ownersFrom, space
  <2> QED
    BY <2>1, <2>2 DEF ownersOf
<1>3. \A h \in ownersOf(docs[j]) : joined(h) = joined(nameOf(docs[i])) => h = nameOf(docs[i])
  BY ManifestsAre
<1> QED
  BY <1>1, <1>2, <1>3 DEF Owns

(* So it does in the cluster, where an owner without a namespace owns only *)
(* what has none (build.go:118-140).                                       *)
LEMMA BuiltOwns ==
  ASSUME Parity, NEW i \in DOMAIN docs, NEW j \in DOMAIN docs
  PROVE  Owns(built[i], built[j]) <=> nameOf(docs[i]) \in ownersOf(docs[j])
<1> DEFINE meant(k, o) ==
             /\ docs[k].kind = o.kind /\ docs[k].name = o.name
             /\ Scenario!nsOf(o.kind, docs[k].ns) \in {"", Scenario!nsOf(docs[j].kind, docs[j].ns)}
<1>1. built[i].ref.uid = apiUID(docs[i]) /\ apiUID(docs[i]) # ""
  BY ManifestLooksAlike, ManifestsAre
<1>2. built[j].owners = apiOwners(docs[j])
  BY DEF built, buildOne, apiItem
<1>3. \A k \in DOMAIN docs : apiUID(docs[k]) = apiUID(docs[i]) => k = i
  BY ManifestsAre
<1>4. apiOwners(docs[j])
        = {apiUID(x) : x \in {docs[k] : k \in {l \in DOMAIN docs : \E o \in docs[j].owners : meant(l, o)}}}
  BY DEF apiOwners
<1>5. apiUID(docs[i]) \in apiOwners(docs[j]) <=> \E o \in docs[j].owners : meant(i, o)
  <2> HIDE DEF meant
  <2> QED
    BY <1>3, <1>4
<1>6. ASSUME NEW o \in docs[j].owners
      PROVE  meant(i, o) <=> nameOf(docs[i]) = <<o.kind, space(docs[j]), o.name>>
  <2>1. docs[j].kind \in Scenario!clusterScopedKinds \/ o.kind \notin Scenario!clusterScopedKinds
    BY ManifestsAre
  <2>2. \A m : space(m) = "" <=> m.kind \in Scenario!clusterScopedKinds
    BY DEF space, Scenario!nsOf
  <2>3. meant(i, o) <=> /\ docs[i].kind = o.kind /\ docs[i].name = o.name
                        /\ space(docs[i]) \in {"", space(docs[j])}
    BY DEF space
  <2>4. docs[i].kind = o.kind => (space(docs[i]) \in {"", space(docs[j])} <=> space(docs[i]) = space(docs[j]))
    BY <2>1, <2>2
  <2> HIDE DEF meant
  <2> QED
    BY <2>3, <2>4 DEF nameOf, space
<1> HIDE DEF meant
<1> QED
  BY <1>1, <1>2, <1>5, <1>6 DEF Owns, ownersOf

(* Loaded, a manifest refers to another by the other's name                *)
(* (scenario.go:361-409).                                                  *)
LEMMA LoadedRefers ==
  ASSUME Parity, NEW i \in DOMAIN docs, NEW j \in DOMAIN docs, NEW scaling \in BOOLEAN
  PROVE  RefersTo(loaded[j], loaded[i], scaling) <=> nameOf(docs[i]) \in refersTo(docs[j], scaling)
<1> DEFINE target == loaded[i].ref
           cross(r) == [kind |-> r.kind,
                        ref |-> Scenario!refAt(r.to, IF r.kind = "RefScaleTarget" THEN Scenario!noGroup
                                                                         ELSE <<"", "v1">>,
                                               space(docs[j]), r.name)]
           meant(r) == <<r.to, space(docs[j]), r.name>>
<1>1. loaded[j].crossRefs = {cross(r) : r \in docs[j].refs}
  BY DEF loaded, Scenario!objectFrom, Scenario!crossRefsFrom, space
<1>2. \A r : cross(r).kind = r.kind /\ human(cross(r).ref) = meant(r) /\ cross(r).ref.uid = joined(meant(r))
  BY DEF Scenario!refAt, Scenario!uidOf, human, joined
<1>3. target.uid = joined(nameOf(docs[i])) /\ joined(nameOf(docs[i])) # ""
  BY ManifestLooksAlike, ManifestsAre
<1>4. ASSUME NEW r \in docs[j].refs, (r.kind = "RefScaleTarget") = scaling
      PROVE  crossRefMatches(cross(r).ref, target) <=> nameOf(docs[i]) = meant(r)
  <2>1. meant(r) \in refersTo(docs[j], scaling)
    BY <1>4 DEF refersTo
  <2> HIDE DEF cross, meant, target
  <2>3. \A h \in refersTo(docs[j], scaling) :
          joined(h) # "" /\ (joined(h) = joined(nameOf(docs[i])) => h = nameOf(docs[i]))
    BY ManifestsAre
  <2>2. joined(meant(r)) # "" /\ (joined(meant(r)) = joined(nameOf(docs[i])) => meant(r) = nameOf(docs[i]))
    BY <2>1, <2>3
  <2> QED
    BY <1>2, <1>3, <2>2 DEF crossRefMatches
<1> HIDE DEF cross, target
<1> DEFINE sided(k) == (k = "RefScaleTarget") = scaling
<1>6. RefersTo(loaded[j], loaded[i], scaling)
        <=> \E cr \in loaded[j].crossRefs : sided(cr.kind) /\ crossRefMatches(cr.ref, target)
  BY DEF RefersTo, target
<1> HIDE DEF sided
<1>5. RefersTo(loaded[j], loaded[i], scaling)
        <=> \E r \in docs[j].refs : sided(r.kind) /\ crossRefMatches(cross(r).ref, target)
  BY <1>1, <1>2, <1>6
<1> QED
  BY <1>4, <1>5 DEF refersTo, sided

(* So it does in the cluster, where a reference has the uid of what it     *)
(* names, or none (build.go:60-95, 142-165).                               *)
LEMMA BuiltRefers ==
  ASSUME Parity, NEW i \in DOMAIN docs, NEW j \in DOMAIN docs, NEW scaling \in BOOLEAN
  PROVE  RefersTo(built[j], built[i], scaling) <=> nameOf(docs[i]) \in refersTo(docs[j], scaling)
<1> DEFINE target == built[i].ref
           cross(r) == crossRef(r, space(docs[j]), apiIndex)
           meant(r) == <<r.to, space(docs[j]), r.name>>
<1>1. built[j].crossRefs = {cross(r) : r \in docs[j].refs}
  <2>1. apiItem(docs[j]).refs = docs[j].refs
    BY DEF apiItem
  <2> QED
    BY <2>1, SpacesAgree DEF built, buildOne
<1>2. \A r : /\ cross(r).kind = r.kind /\ human(cross(r).ref) = meant(r)
             /\ cross(r).ref.uid = uidFor(apiIndex, meant(r))
  BY DEF crossRef, human
<1>3. /\ target.uid = apiUID(docs[i]) /\ apiUID(docs[i]) # "" /\ human(target) = nameOf(docs[i])
  BY ManifestLooksAlike, ManifestsAre DEF LooksLike
<1>4. ASSUME NEW r PROVE crossRefMatches(cross(r).ref, target) <=> nameOf(docs[i]) = meant(r)
  <2>1. CASE meant(r) \in DOMAIN apiIndex
    <3>1. PICK k \in DOMAIN docs : meant(r) = nameOf(docs[k])
      BY <2>1, ApiIndexIs
    <3>2. cross(r).ref.uid = apiUID(docs[k]) /\ apiUID(docs[k]) # ""
      BY <1>2, <2>1, <3>1, ApiIndexIs, ManifestsAre DEF uidFor
    <3>3. crossRefMatches(cross(r).ref, target) <=> apiUID(docs[k]) = apiUID(docs[i])
      BY <1>3, <3>2 DEF crossRefMatches
    <3>4. apiUID(docs[k]) = apiUID(docs[i]) <=> nameOf(docs[k]) = nameOf(docs[i])
      BY ManifestsAre
    <3> QED
      BY <3>1, <3>3, <3>4
  <2>2. CASE meant(r) \notin DOMAIN apiIndex
    <3>1. cross(r).ref.uid = ""
      BY <1>2, <2>2 DEF uidFor
    <3> HIDE DEF cross, meant, target
    <3> QED
      BY <1>2, <1>3, <3>1 DEF crossRefMatches
  <2> QED
    BY <2>1, <2>2
<1> HIDE DEF cross, target
<1> DEFINE sided(k) == (k = "RefScaleTarget") = scaling
<1>6. RefersTo(built[j], built[i], scaling)
        <=> \E cr \in built[j].crossRefs : sided(cr.kind) /\ crossRefMatches(cr.ref, target)
  BY DEF RefersTo, target
<1> HIDE DEF sided
<1>5. RefersTo(built[j], built[i], scaling)
        <=> \E r \in docs[j].refs : sided(r.kind) /\ crossRefMatches(cross(r).ref, target)
  BY <1>1, <1>2, <1>6
<1> QED
  BY <1>4, <1>5 DEF refersTo, sided

-----------------------------------------------------------------------------
(* The two states, and the request in either.                              *)

(* What is asked of the one state is asked of the other, where the target  *)
(* is known by its name alone (main.go:380-398).                           *)
LEMMA AskedAlike ==
  ASSUME Parity
  PROVE  LET a == Scenario!parseAction(dir.request.body)
             b == [a EXCEPT !.target.uid = ""]
         IN  SameButUID(a, b) /\ b.target.uid = ""
<1> DEFINE raw == dir.request.body
           a == Scenario!parseAction(raw)
           b == [a EXCEPT !.target.uid = ""]
<1>1. a = [verb |-> raw.verb, target |-> a.target, cascade |-> a.cascade, old |-> a.old, new |-> a.new]
  BY DEF Scenario!parseAction
<1>2. a.target = [kind |-> a.target.kind, group |-> a.target.group, ns |-> a.target.ns,
                  name |-> a.target.name, uid |-> a.target.uid]
  BY DEF Scenario!parseAction, Scenario!refOf, Scenario!refAt
<1> HIDE DEF a
<1>3. /\ b.verb = a.verb /\ b.cascade = a.cascade /\ b.old = a.old /\ b.new = a.new
      /\ b.target = [a.target EXCEPT !.uid = ""]
  BY <1>1
<1>4. /\ b.target.kind = a.target.kind /\ b.target.ns = a.target.ns /\ b.target.name = a.target.name
      /\ b.target.uid = ""
  <2>1. \A k, g, n, m, u : LET r == [kind |-> k, group |-> g, ns |-> n, name |-> m, uid |-> u]
                                x == [r EXCEPT !.uid = ""]
                            IN  x.kind = k /\ x.ns = n /\ x.name = m /\ x.uid = ""
    OBVIOUS
  <2> HIDE DEF b
  <2> QED
    BY <1>2, <1>3, <2>1
<1> HIDE DEF b
<1>5. SameButUID(a, b) /\ b.target.uid = ""
  BY <1>3, <1>4 DEF SameButUID, human
<1> QED
  BY <1>5 DEF a, b

(* Loader and live reader make states of the manifests that are alike in   *)
(* all but their uids and owners (parity_test.go:27-30).                   *)
StatesAlike(s, a, t, b) ==
  /\ s.objs = {loaded[i] : i \in DOMAIN docs} /\ Indexed(s) /\ Consistent(s, a.target)
  /\ t.objs = {built[i] : i \in DOMAIN docs} /\ Indexed(t) /\ Consistent(t, b.target)
  /\ SameButUID(a, b)

LEMMA ScenarioStatesAlike ==
  ASSUME Parity
  PROVE  LET a == Scenario!parseAction(dir.request.body)
         IN  StatesAlike(NewScanState(Scenario!parseCluster(dir.cluster.body)), a,
                         NewScanState(BuildObjects(apiItems, apiScope)), [a EXCEPT !.target.uid = ""])
<1> DEFINE a == Scenario!parseAction(dir.request.body)
           b == [a EXCEPT !.target.uid = ""]
           s == NewScanState(loaded)
           t == NewScanState(built)
<1>1. Len(dir.cluster.body) \in Nat /\ DOMAIN docs \subseteq 1..Len(dir.cluster.body)
  BY ManifestsAre
<1>2. loaded = Scenario!parseCluster(dir.cluster.body) /\ DOMAIN loaded = DOMAIN docs
  BY DEF loaded, Scenario!parseCluster, docs
<1>3. built = BuildObjects(apiItems, apiScope) /\ DOMAIN built = DOMAIN docs
  <2>1. DOMAIN apiItems = DOMAIN docs
    BY ManifestsAre DEF apiItems
  <2>2. \A i \in DOMAIN docs : apiItems[i] = apiItem(docs[i])
    BY <2>1 DEF apiItems
  <2> QED
    BY <2>1, <2>2 DEF built, BuildObjects, apiIndex
<1>4. s.objs = {loaded[i] : i \in DOMAIN docs} /\ Indexed(s)
  BY <1>1, <1>2, ScanStateIs
<1>5. t.objs = {built[i] : i \in DOMAIN docs} /\ Indexed(t)
  BY <1>1, <1>3, ScanStateIs
<1>6. Consistent(s, a.target)
  BY <1>2, ScenarioStateIs DEF Parity, loads
<1>7. SameButUID(a, b) /\ b.target.uid = ""
  BY AskedAlike
<1> HIDE DEF a, b, s, t
<1>8. Consistent(t, b.target)
  BY <1>5, <1>7 DEF Consistent, Indexed, tracked, knownUID, lookup
<1> QED
  BY <1>2, <1>3, <1>4, <1>5, <1>6, <1>7, <1>8 DEF StatesAlike, a, b, s, t

(* What the action meets first is the same.                                *)
LEMMA SeedsAlike ==
  ASSUME Parity, NEW s, NEW a, NEW t, NEW b, StatesAlike(s, a, t, b)
  PROVE  /\ Seeds(s, a) \subseteq s.objs /\ Seeds(t, b) \subseteq t.objs
         /\ \A i \in DOMAIN docs : loaded[i] \in Seeds(s, a) <=> built[i] \in Seeds(t, b)
<1>1. /\ s.objs = {loaded[i] : i \in DOMAIN docs} /\ t.objs = {built[i] : i \in DOMAIN docs}
      /\ Indexed(s) /\ Consistent(s, a.target) /\ Indexed(t) /\ Consistent(t, b.target)
      /\ SameButUID(a, b) /\ human(b.target) = human(a.target)
  BY DEF StatesAlike, SameButUID
<1> DEFINE h == human(a.target)
<1>2. \A i \in DOMAIN docs : /\ LooksLike(loaded[i], built[i])
                             /\ human(loaded[i].ref) = nameOf(docs[i])
                             /\ human(built[i].ref) = nameOf(docs[i])
  BY ManifestLooksAlike DEF LooksLike
<1>3. \A i, j \in DOMAIN docs : nameOf(docs[i]) = nameOf(docs[j]) => i = j
  BY ManifestsAre
<1>4. /\ tracked(s, a.target) <=> \E o \in s.objs : human(o.ref) = h
      /\ tracked(s, a.target) => lookup(s, a.target) \in s.objs /\ human(lookup(s, a.target).ref) = h
  BY <1>1, FoundByName
<1>5. /\ tracked(t, b.target) <=> \E o \in t.objs : human(o.ref) = h
      /\ tracked(t, b.target) => lookup(t, b.target) \in t.objs /\ human(lookup(t, b.target).ref) = h
  BY <1>1, FoundByName
<1> HIDE DEF h
<1>6. /\ tracked(s, a.target) <=> \E i \in DOMAIN docs : nameOf(docs[i]) = h
      /\ \A i \in DOMAIN docs : tracked(s, a.target) => (loaded[i] = lookup(s, a.target) <=> nameOf(docs[i]) = h)
  BY <1>1, <1>2, <1>3, <1>4
<1>7. /\ tracked(t, b.target) <=> \E i \in DOMAIN docs : nameOf(docs[i]) = h
      /\ \A i \in DOMAIN docs : tracked(t, b.target) => (built[i] = lookup(t, b.target) <=> nameOf(docs[i]) = h)
  BY <1>1, <1>2, <1>3, <1>5
<1>8. \A i \in DOMAIN docs : AffectedByMutation(a, loaded[i]) <=> AffectedByMutation(b, built[i])
  BY <1>1, <1>2, UIDClassifiesNothing
<1>9. \A i \in DOMAIN docs : loaded[i] \in s.objs /\ built[i] \in t.objs
  BY <1>1
<1>10. \A i \in DOMAIN docs :
         loaded[i] \in Seeds(s, a)
           <=> tracked(s, a.target) /\ (nameOf(docs[i]) = h \/ AffectedByMutation(a, loaded[i]))
  BY <1>6, <1>9 DEF Seeds
<1>11. \A i \in DOMAIN docs :
         built[i] \in Seeds(t, b)
           <=> tracked(t, b.target) /\ (nameOf(docs[i]) = h \/ AffectedByMutation(b, built[i]))
  BY <1>7, <1>9 DEF Seeds
<1>12. Seeds(s, a) \subseteq s.objs /\ Seeds(t, b) \subseteq t.objs
  BY <1>4, <1>5 DEF Seeds
<1> QED
  BY <1>6, <1>7, <1>8, <1>10, <1>11, <1>12

(* So is all that follows, in both directions.                             *)
LEMMA StatesCarry ==
  ASSUME Parity, NEW s, NEW a, NEW t, NEW b, StatesAlike(s, a, t, b)
  PROVE  Carries(s, a, t, b, loaded, built) /\ Carries(t, b, s, a, built, loaded)
<1>1. /\ s.objs = {loaded[i] : i \in DOMAIN docs} /\ t.objs = {built[i] : i \in DOMAIN docs}
      /\ SameButUID(a, b)
  BY DEF StatesAlike
<1>2. DOMAIN loaded = DOMAIN docs /\ DOMAIN built = DOMAIN docs
  BY DEF loaded, built
<1>3. \A i \in DOMAIN docs : /\ LooksLike(loaded[i], built[i])
                             /\ human(loaded[i].ref) = nameOf(docs[i])
                             /\ human(built[i].ref) = nameOf(docs[i])
  BY ManifestLooksAlike DEF LooksLike
<1>4. \A i, j \in DOMAIN docs : loaded[i] = loaded[j] \/ built[i] = built[j] => i = j
  <2>1. \A i, j \in DOMAIN docs : nameOf(docs[i]) = nameOf(docs[j]) => i = j
    BY ManifestsAre
  <2> QED
    BY <1>3, <2>1
<1>5. ASSUME NEW i \in DOMAIN docs, NEW j \in DOMAIN docs
      PROVE  /\ Affects(classify(a), loaded[i], loaded[j]) <=> Affects(classify(b), built[i], built[j])
             /\ BindsPod(loaded[i], loaded[j]) <=> BindsPod(built[i], built[j])
  <2>1. classify(b) = classify(a)
    BY <1>1, <1>3, UIDClassifiesNothing
  <2>2. Owns(loaded[i], loaded[j]) <=> Owns(built[i], built[j])
    BY LoadedOwns, BuiltOwns
  <2>3. RefersTo(loaded[j], loaded[i], TRUE) <=> RefersTo(built[j], built[i], TRUE)
    BY LoadedRefers, BuiltRefers
  <2>4. RefersTo(loaded[j], loaded[i], FALSE) <=> RefersTo(built[j], built[i], FALSE)
    BY LoadedRefers, BuiltRefers
  <2>5. LooksLike(loaded[i], built[i]) /\ LooksLike(loaded[j], built[j])
    BY <1>3
  <2> QED
    BY <2>1, <2>2, <2>3, <2>4, <2>5, LookalikesRelateAlike
<1>6. /\ Seeds(s, a) \subseteq s.objs /\ Seeds(t, b) \subseteq t.objs
      /\ \A i \in DOMAIN docs : loaded[i] \in Seeds(s, a) <=> built[i] \in Seeds(t, b)
  BY SeedsAlike
<1> QED
  BY <1>1, <1>2, <1>4, <1>5, <1>6 DEF Carries

(* The objects that are affected have the same names.                      *)
LEMMA AnswersAlike ==
  ASSUME Parity, NEW s, NEW a, NEW t, NEW b, StatesAlike(s, a, t, b)
  PROVE  {human(o.ref) : o \in AffectedObjects(s, a)} = {human(o.ref) : o \in AffectedObjects(t, b)}
<1> DEFINE A == AffectedObjects(s, a)
           B == AffectedObjects(t, b)
<1>1. DOMAIN loaded = DOMAIN docs /\ DOMAIN built = DOMAIN docs
  BY DEF loaded, built
<1>2. \A i \in DOMAIN docs : human(loaded[i].ref) = human(built[i].ref)
  BY ManifestLooksAlike DEF LooksLike
<1>3. A \subseteq {loaded[i] : i \in DOMAIN docs} /\ B \subseteq {built[i] : i \in DOMAIN docs}
  BY StatesCarry, CarriesAffected DEF StatesAlike
<1>4. \A i \in DOMAIN docs : loaded[i] \in A <=> built[i] \in B
  BY <1>1, StatesCarry, CarriesAffected
<1> HIDE DEF A, B
<1>5. ASSUME NEW o \in A PROVE \E x \in B : human(x.ref) = human(o.ref)
  BY <1>2, <1>3, <1>4
<1>6. ASSUME NEW x \in B PROVE \E o \in A : human(o.ref) = human(x.ref)
  BY <1>2, <1>3, <1>4
<1>7. {human(o.ref) : o \in A} = {human(o.ref) : o \in B}
  BY <1>5, <1>6
<1> QED
  BY <1>7 DEF A, B

-----------------------------------------------------------------------------
(* The walk of a run.                                                      *)

(* The walk of a scenario that began is in the invariant of Closure.       *)
WalkSound == phase = "checked" /\ fromScenario => AtStart \/ IndInv

LEMMA WalkSoundKept ==
  ASSUME StartsSane, PathInv, WalkSound, [CNext]_cvars
  PROVE  WalkSound'
<1>1. CASE phase = "checked"
  <2>1. [Next]_vars /\ UNCHANGED asked
    BY <1>1, CheckSteps, CheckStepsWalk DEF PathInv
  <2> SUFFICES ASSUME fromScenario PROVE IndInv'
    BY <2>1 DEF WalkSound, fromScenario
  <2>2. GoodCall
    BY <1>1, CallIsGood
  <2>3. IndInv
    BY <1>1, <2>2, StartIsInvariant DEF WalkSound
  <2> QED
    BY <2>1, <2>3, NextKeeps
<1>2. CASE phase # "checked" /\ phase' = "checked"
  <2>1. AtStart'
    BY <1>2, CheckStarts DEF PathInv, AtStart
  <2> QED
    BY <2>1 DEF WalkSound
<1>3. CASE phase' # "checked"
  BY <1>3 DEF WalkSound
<1> QED
  BY <1>1, <1>2, <1>3

(* What a check reports are the names of the affected objects.             *)
LEMMA ReportedNamesAre ==
  ASSUME IndInv, queue = {}
  PROVE  {human(r) : r \in members} = {human(o.ref) : o \in AffectedObjects(call.s, call.a)}
<1>1. AffectedObjects(call.s, call.a) = {obj(r) : r \in members}
  BY RecordedIsAffected DEF recorded
<1>2. \A r \in members : human(obj(r).ref) = human(r)
  BY MemberResolves
<1> QED
  BY <1>1, <1>2

(* A check of a scenario reports what a check of the cluster its manifests *)
(* describe would, object for object by name, for every directory whose    *)
(* manifests an API server could hold and the reader would list: the uids, *)
(* namespaces and owners the loader makes up (scenario.go:256-277,         *)
(* 361-436) change nothing (model.go:51-52, parity_test.go:27-30).         *)
THEOREM ScenariosAnswerAsClusters ==
  StartsSane => (CSpec => [](Deployable(dir) => SameAsLive))
<1> SUFFICES ASSUME StartsSane PROVE CSpec => [](Deployable(dir) => SameAsLive)
  OBVIOUS
<1> DEFINE Same == Deployable(dir) => SameAsLive
<1>1. CInit => WalkSound
  BY DEF CInit, WalkSound
<1>2. PathInv /\ WalkSound /\ [CNext]_cvars => WalkSound'
  BY WalkSoundKept
<1>3. PathInv /\ WalkSound => Same
  <2> SUFFICES ASSUME PathInv, WalkSound, Deployable(dir), fromScenario, pc = "returned"
               PROVE  SameAsLive
    BY DEF SameAsLive
  <2>1. phase = "checked"
    BY DEF PathInv, RunInv, UndecidedUntilScoped
  <2>2. IndInv /\ queue = {}
    BY <2>1 DEF WalkSound, AtStart, IndInv, IInv, NothingLost
  <2>3. /\ loads(dir.cluster, Scenario!clusterParses(dir.cluster.body))
        /\ dir.request.status = "ok" /\ DirSane(dir)
        /\ call.s = NewScanState(Scenario!parseCluster(dir.cluster.body))
        /\ call.a = Scenario!parseAction(dir.request.body)
    BY <2>1 DEF PathInv, LoadInv, StartsSane, fromScenario
  <2>4. Parity
    BY <2>3 DEF Parity
  <2> DEFINE t == NewScanState(BuildObjects(apiItems, apiScope))
             b == [call.a EXCEPT !.target.uid = ""]
  <2>5. StatesAlike(call.s, call.a, t, b)
    BY <2>3, <2>4, ScenarioStatesAlike
  <2> HIDE DEF t, b
  <2>6. {human(o.ref) : o \in AffectedObjects(call.s, call.a)} = {human(o.ref) : o \in AffectedObjects(t, b)}
    BY <2>4, <2>5, AnswersAlike
  <2>7. {human(r) : r \in members} = {human(o.ref) : o \in AffectedObjects(t, b)}
    BY <2>2, <2>6, ReportedNamesAre
  <2> QED
    BY <2>7 DEF SameAsLive, t, b
<1> HIDE DEF Same
<1>4. CSpec => []Same
  BY <1>1, <1>2, <1>3, PathInvariant, PTL DEF CSpec
<1> QED
  BY <1>4 DEF Same

-----------------------------------------------------------------------------
(* The memo of ownership subtrees (safe.go:110-137) is filed under the key *)
(* of the root alone.                                                      *)

(* Roots of one key have one subtree, if a uid stands for an object        *)
(* whenever the root does.                                                 *)
LEMMA OneSubtreeOfKey ==
  ASSUME NEW q, NEW r, key(q) = key(r),
         \A x \in {q, r} : x.uid # "" /\ tracked(call.s, x) => knownUID(call.s, x)
  PROVE  ownedSubtree(call.s, q) = ownedSubtree(call.s, r)
<1>1. \/ q.uid # "" /\ r.uid = q.uid
      \/ q.uid = "" /\ r.uid = "" /\ human(q) = human(r)
  BY KeyCases
<1>2. tracked(call.s, q) <=> tracked(call.s, r)
  BY <1>1 DEF tracked, knownUID
<1>3. CASE tracked(call.s, q)
  <2>1. lookup(call.s, q) = lookup(call.s, r)
    BY <1>1, <1>2, <1>3 DEF lookup, knownUID
  <2> QED
    BY <1>2, <1>3, <2>1 DEF ownedSubtree
<1>4. CASE ~tracked(call.s, q)
  BY <1>2, <1>4, UntrackedRootOwnsNothing
<1> QED
  BY <1>3, <1>4

(* The scope of a check is derived, or its roots have the uids the loader  *)
(* makes up for their names (scenario.go:265-277, 575-590).                *)
RootsNamed ==
  phase = "checked" =>
    \/ call.scope = Derive(call.a.target)
    \/ /\ fromScenario
       /\ \A sc \in call.scope :
            dimOf(sc) = "ownership" => sc.root.uid = joined(human(sc.root))

(* A ref of the loader has the uid made of its name (scenario.go:275-277). *)
LEMMA RefIsNamed ==
  ASSUME NEW raw
  PROVE  Scenario!refOf(raw).uid = joined(human(Scenario!refOf(raw)))
<1>1. human(Scenario!refOf(raw)) = <<raw.kind, Scenario!nsOf(raw.kind, raw.ns), raw.name>>
  BY DEF Scenario!refOf, Scenario!refAt, human
<1>2. Scenario!refOf(raw).uid = Scenario!uidOf(raw.kind, Scenario!nsOf(raw.kind, raw.ns), raw.name)
  BY DEF Scenario!refOf, Scenario!refAt
<1>3. \A k, n, m : joined(<<k, n, m>>) = Scenario!uidOf(k, n, m)
  BY DEF Scenario!uidOf, joined
<1> QED
  BY <1>1, <1>2, <1>3

LEMMA RootsNamedKept ==
  ASSUME PathInv, RootsNamed, [CNext]_cvars
  PROVE  RootsNamed'
<1>1. CASE phase = "checked"
  <2>1. [VNext]_allVars /\ UNCHANGED <<phase, asked>>
    BY <1>1, CheckSteps DEF PathInv
  <2>2. UNCHANGED call
    BY <2>1, CheckStepsWalk
  <2> QED
    BY <1>1, <2>1, <2>2 DEF RootsNamed, fromScenario
<1>2. CASE phase # "checked" /\ phase' = "checked"
  <2>1. UNCHANGED asked /\ (call.a)' = call.a /\ CallIsRecord
    BY <1>2, CheckStarts DEF PathInv, RunInv
  <2>2. ReadContract \/ ReadScope \/ DeriveScope \/ (call.scope)' = Derive(call.a.target)
    <3>1. phase \in {"contract", "scope"} \/ (call.scope)' = Derive(call.a.target)
      BY <1>2, CheckStarts DEF PathInv
    <3>2. CASE phase \in {"contract", "scope"}
      BY <1>2, <3>2, NothingJudgedBefore
         DEF CNext, Run, ShowUsage, RejectArgs, ChooseScenario, ChooseLive, Connect, ConnectFails,
             ReadCluster, ReadRequest, SkipContract, LoadFails, proceed, fail, PathInv, RunInv,
             ReadLive, Resolve, ResolveFails, Discover, List, ApiFails, BuildFails, Build,
             exitWithError, Others, ChangeApi, Write, cvars, lvars, liveVars, reading
    <3> QED
      BY <3>1, <3>2
  <2>3. ReadContract \/ ReadScope => fromScenario
    BY DEF ReadContract, ReadScope, fromScenario, PathInv, ClusterInv
  <2>4. CASE ReadContract
    <3>1. (call.scope)' = Scenario!Compile(Scenario!parseTaskContract(dir.contract.body))
      BY <2>1, <2>4 DEF ReadContract, startCheck, CallIsRecord
    <3>2. \A ac \in Scenario!parseTaskContract(dir.contract.body).allow :
            dimOf(Scenario!compileClause(ac)) # "ownership"
      BY <2>4 DEF ReadContract, contractLoads, loads, Scenario!compilable,
                  Scenario!compilableClause, Scenario!compileClause, Scenario!clauseOf, dimOf
    <3> QED
      BY <1>2, <2>1, <2>3, <2>4, <3>1, <3>2 DEF Scenario!Compile, RootsNamed, fromScenario
  <2>5. CASE ReadScope
    <3>1. (call.scope)' = Scenario!parseScope(dir.scope.body)
      BY <2>1, <2>5 DEF ReadScope, startCheck, CallIsRecord
    <3>2. ASSUME NEW e, dimOf(Scenario!scopeClause(e)) = "ownership"
          PROVE  Scenario!scopeClause(e).root.uid = joined(human(Scenario!scopeClause(e).root))
      <4>1. e.dim = "ownership"
        BY <3>2 DEF Scenario!scopeClause, Scenario!clauseOf, dimOf
      <4>2. Scenario!scopeClause(e).root = Scenario!refOf(CHOOSE r \in e.root : TRUE)
        BY <4>1 DEF Scenario!scopeClause, Scenario!OwnershipClause, Scenario!clauseOf
      <4> QED
        BY <4>2, RefIsNamed
    <3> QED
      BY <1>2, <2>1, <2>3, <2>5, <3>1, <3>2 DEF Scenario!parseScope, RootsNamed, fromScenario
  <2>6. CASE DeriveScope
    <3>1. (call.scope)' = Derive(call.a.target)
      BY <2>1, <2>6 DEF DeriveScope, startCheck, CallIsRecord
    <3> QED
      BY <2>1, <3>1 DEF RootsNamed
  <2>7. CASE (call.scope)' = Derive(call.a.target)
    BY <2>1, <2>7 DEF RootsNamed
  <2> QED
    BY <2>2, <2>4, <2>5, <2>6, <2>7
<1>3. CASE phase' # "checked"
  BY <1>3 DEF RootsNamed
<1> QED
  BY <1>1, <1>2, <1>3

(* A root of a scenario that stands for an object has the uid of one.      *)
LEMMA RootIsFiled ==
  ASSUME StartsSane, PathInv, phase = "checked", fromScenario,
         NEW root, root.uid = joined(human(root)), root.uid # "", tracked(call.s, root)
  PROVE  knownUID(call.s, root)
<1>1. /\ dir.cluster.status = "ok" /\ dir.request.status = "ok" /\ DirSane(dir)
      /\ call.s = NewScanState(Scenario!parseCluster(dir.cluster.body))
  BY DEF PathInv, LoadInv, loads, StartsSane, fromScenario
<1> DEFINE files == dir.cluster.body
           seq   == Scenario!parseCluster(files)
<1>2. Len(files) \in Nat /\ DOMAIN files = 1..Len(files)
  BY <1>1 DEF DirSane
<1>3. DOMAIN seq = DOMAIN Scenario!kinded(files) /\ DOMAIN seq \subseteq 1..Len(files)
  BY <1>2 DEF Scenario!kinded, Scenario!parseCluster
<1>4. \A i \in DOMAIN seq : seq[i].ref.uid = joined(human(seq[i].ref))
  BY <1>3, ObjectIsNamed DEF Scenario!parseCluster
<1> HIDE DEF seq
<1>5. call.s.objs = {seq[i] : i \in DOMAIN seq} /\ Indexed(call.s)
  BY <1>1, <1>2, <1>3, ScanStateIs DEF seq
<1>6. SUFFICES ASSUME ~knownUID(call.s, root) PROVE FALSE
  OBVIOUS
<1> DEFINE o == call.s.byHuman[human(root)]
<1>7. o \in call.s.objs /\ human(o.ref) = human(root)
  BY <1>5, <1>6 DEF tracked, Indexed
<1>8. o.ref.uid = root.uid
  <2>1. PICK i \in DOMAIN seq : o = seq[i]
    BY <1>5, <1>7
  <2>2. o.ref.uid = joined(human(o.ref))
    BY <1>4, <2>1
  <2> HIDE DEF o
  <2> QED
    BY <1>7, <2>2
<1> QED
  BY <1>5, <1>6, <1>7, <1>8 DEF Indexed, knownUID

(* In every check a run makes, two ownership clauses whose roots have one  *)
(* key name one subtree: what Safe remembers under the key of a root       *)
(* (safe.go:83-87, 110-137) is what it would compute for any root of that   *)
(* key, and in whichever order it meets the clauses.                       *)
THEOREM RememberedSubtreesAreRight ==
  StartsSane =>
    (CSpec => [](phase = "checked" =>
       \A c, d \in call.scope :
         /\ dimOf(c) = "ownership" /\ dimOf(d) = "ownership"
         /\ key(c.root) = key(d.root)
         => ownedSubtree(call.s, c.root) = ownedSubtree(call.s, d.root)))
<1> SUFFICES ASSUME StartsSane
             PROVE  CSpec => [](phase = "checked" =>
                      \A c, d \in call.scope :
                        /\ dimOf(c) = "ownership" /\ dimOf(d) = "ownership"
                        /\ key(c.root) = key(d.root)
                        => ownedSubtree(call.s, c.root) = ownedSubtree(call.s, d.root))
  OBVIOUS
<1> DEFINE Right ==
      phase = "checked" =>
        \A c, d \in call.scope :
          /\ dimOf(c) = "ownership" /\ dimOf(d) = "ownership"
          /\ key(c.root) = key(d.root)
          => ownedSubtree(call.s, c.root) = ownedSubtree(call.s, d.root)
<1>1. CInit => RootsNamed
  BY DEF CInit, RootsNamed
<1>2. PathInv /\ RootsNamed /\ [CNext]_cvars => RootsNamed'
  BY RootsNamedKept
<1>3. PathInv /\ RootsNamed => Right
  <2> SUFFICES ASSUME PathInv, RootsNamed, phase = "checked",
                      NEW c \in call.scope, NEW d \in call.scope,
                      dimOf(c) = "ownership", dimOf(d) = "ownership", key(c.root) = key(d.root)
               PROVE  ownedSubtree(call.s, c.root) = ownedSubtree(call.s, d.root)
    OBVIOUS
  <2>1. CASE call.scope = Derive(call.a.target)
    BY <2>1 DEF Derive
  <2>2. CASE call.scope # Derive(call.a.target)
    <3>1. /\ fromScenario
          /\ c.root.uid = joined(human(c.root)) /\ d.root.uid = joined(human(d.root))
      BY <2>2 DEF RootsNamed
    <3>2. \A x \in {c.root, d.root} :
            x.uid # "" /\ tracked(call.s, x) => knownUID(call.s, x)
      BY <3>1, RootIsFiled
    <3> QED
      BY <3>2, OneSubtreeOfKey
  <2> QED
    BY <2>1, <2>2
<1> HIDE DEF Right
<1>4. CSpec => []Right
  BY <1>1, <1>2, <1>3, PathInvariant, PTL DEF CSpec
<1> QED
  BY <1>4 DEF Right
=============================================================================
