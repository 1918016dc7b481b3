---------------------------- MODULE CommandProofs ----------------------------
(***************************************************************************)
(* Proofs about a whole run of krsm, Command: types and failing closed for *)
(* whatever it starts from, the calls it makes, its decision and its report *)
(* for starts that keep to StartsSane.                                     *)
(***************************************************************************)
EXTENDS Command, TornProofs

(* Where the scope of a check that began came from.                        *)
ScopeAccounted ==
  \/ source = "taskcontract.yaml" /\ contractLoads
  \/ source = "scope.yaml" /\ dir.contract.status = "absent" /\ scopeLoads
  \/ source = derived /\ dir.contract.status = "absent" /\ dir.scope.status = "absent"

(* A run is undecided until a scope is accounted for, scope.yaml is only   *)
(* turned to without a contract, and the two paths do not mix: what makes  *)
(* FailsClosedOnScope inductive.                                           *)
UndecidedUntilScoped ==
  /\ phase # "checked" =>
       pc = "idle" /\ decision = none /\ report = none /\ source = "" /\ shown = nothingShown
  /\ phase = "error" => exit = "1"
  /\ phase \notin {"checked", "error", "usage"} => exit = "running"
  /\ fromScenario =>
       phase \in {"args", "cluster", "request", "contract", "scope", "checked", "error"}
  /\ phase = "scope" => dir.contract.status = "absent"
  /\ phase = "checked" /\ fromScenario => ScopeAccounted
  /\ phase = "checked" => (exit = "running" <=> shown = nothingShown)

-----------------------------------------------------------------------------
(* A report that is written is not the empty one (main.go:440-470).        *)
LEMMA ReportIsShown ==
  ASSUME NEW src, NEW dec
  PROVE  /\ writeReport(src, dec) # nothingShown
         /\ writeReport(src, dec).word \in {"BLOCK", "WARN", "ALLOW"}
<1>1. writeReport(src, dec).word \in {"BLOCK", "WARN", "ALLOW"}
  BY DEF writeReport, printed
<1>2. nothingShown.word = ""
  BY DEF nothingShown
<1> QED
  BY <1>1, <1>2

(* An entry of scope.yaml that parses has a dimension krsm knows, operators *)
(* it knows, and a root when it is an ownership clause                     *)
(* (scenario.go:548-614, model.go:178-251).                                *)
LEMMA ParsedEntryIsKnown ==
  ASSUME NEW e, Scenario!entryParses(e)
  PROVE  /\ e.dim \in dimensions
         /\ e.dim = "ownership" => e.root # {}
         /\ e.dim = "selector" => \A i \in DOMAIN e.sel.exprs : e.sel.exprs[i].op \in Operators
<1>1. e.dim # "ownership" => Scenario!scopeClause(e).dim = e.dim
  BY DEF Scenario!scopeClause, Scenario!clauseOf
<1>2. Scenario!valid(Scenario!scopeClause(e))
  BY DEF Scenario!entryParses
<1>3. e.dim \in dimensions
  BY <1>1, <1>2 DEF Scenario!valid, dimensions
<1> QED
  BY <1>3 DEF Scenario!entryParses, Scenario!operatorsKnown, Operators

(* An entry of a contract that compiles has one of the two dimensions of   *)
(* allow-clauses and operators krsm knows, and the contract has a severity *)
(* it knows (scope.go:153-212, scenario.go:674-678).                       *)
LEMMA CompiledContractIsKnown ==
  ASSUME NEW tc, Scenario!contractParses(tc), Scenario!compilable(Scenario!parseTaskContract(tc))
  PROVE  /\ tc.maxSeverity \in Scenario!severities
         /\ \A e \in tc.allow :
              /\ e.dim \in dimensions \ {"ownership"}
              /\ e.dim = "selector" =>
                   \A i \in DOMAIN e.sel.exprs : e.sel.exprs[i].op \in Operators
<1>1. tc.maxSeverity \in Scenario!severities
  BY DEF Scenario!compilable, Scenario!parseTaskContract
<1>2. ASSUME NEW e \in tc.allow PROVE e.dim \in dimensions \ {"ownership"}
  <2>1. Scenario!allowClause(e) \in Scenario!parseTaskContract(tc).allow
    BY DEF Scenario!parseTaskContract
  <2>2. Scenario!allowClause(e).dim \in {"", "resource", "selector"}
    BY <2>1 DEF Scenario!compilable, Scenario!compilableClause
  <2>3. Scenario!allowClause(e).dim = e.dim
    BY DEF Scenario!allowClause, Scenario!clauseOf
  <2> QED
    BY <2>2, <2>3 DEF dimensions
<1>3. ASSUME NEW e \in tc.allow, e.dim = "selector"
      PROVE  \A i \in DOMAIN e.sel.exprs : e.sel.exprs[i].op \in Operators
  BY <1>3 DEF Scenario!contractParses, Scenario!operatorsKnown, Operators
<1> QED
  BY <1>1, <1>2, <1>3

-----------------------------------------------------------------------------
(* A run starts with nothing decided.                                      *)
LEMMA RunInitEstablishes == CInit => UndecidedUntilScoped
  BY DEF CInit, Fresh, UndecidedUntilScoped

(* Before a scope is known there is nothing to walk or judge.              *)
LEMMA NothingJudgedBefore ==
  ASSUME UndecidedUntilScoped, Judge \/ Finish
  PROVE  phase = "checked"
<1> SUFFICES ASSUME pc = "idle", decision = none, report = none PROVE FALSE
  BY DEF UndecidedUntilScoped
<1>1. ~Walk
  BY DEF Walk, Next, Return, Skip, Expand
<1>2. ~Decide /\ ~ApplyMode /\ ~Exit
  BY DEF Decide, ApplyMode, Exit
<1> QED
  BY <1>1, <1>2 DEF Judge, Finish

(* Every step of a run (main.go:133-212, scenario.go:56-133) keeps it.     *)
LEMMA RunNextKeeps == UndecidedUntilScoped /\ [CNext]_cvars => UndecidedUntilScoped'
<1> SUFFICES ASSUME UndecidedUntilScoped, [CNext]_cvars PROVE UndecidedUntilScoped'
  OBVIOUS
<1> USE DEF UndecidedUntilScoped, fromScenario
<1>1. CASE ShowUsage \/ RejectArgs
  BY <1>1 DEF ShowUsage, RejectArgs, proceed, fail, exitWithError
<1>2. CASE ChooseScenario \/ ChooseLive
  BY <1>2 DEF ChooseScenario, ChooseLive, proceed
<1>3. CASE Connect \/ ConnectFails
  BY <1>3 DEF Connect, ConnectFails, proceed, fail, exitWithError
<1>4. CASE ReadCluster \/ ReadRequest \/ SkipContract
  BY <1>4 DEF ReadCluster, ReadRequest, SkipContract, proceed
<1>5. CASE ReadContract
  BY <1>5 DEF ReadContract, startCheck, ScopeAccounted, contractLoads
<1>6. CASE ReadScope
  BY <1>6 DEF ReadScope, startCheck, ScopeAccounted, scopeLoads
<1>7. CASE DeriveScope
  BY <1>7 DEF DeriveScope, startCheck, ScopeAccounted
<1>8. CASE LoadFails
  BY <1>8 DEF LoadFails, fail, exitWithError
<1>9. CASE ReadLive
  <2> USE DEF ReadLive
  <2>1. CASE Resolve \/ Discover \/ List
    BY <1>9, <2>1 DEF Resolve, Discover, List, allVars
  <2>2. CASE ResolveFails \/ ApiFails \/ BuildFails
    BY <1>9, <2>2 DEF ResolveFails, ApiFails, BuildFails, exitWithError, reading
  <2>3. CASE Build
    BY <1>9, <2>3 DEF Build
  <2> QED
    BY <1>9, <2>1, <2>2, <2>3
<1>10. CASE Judge
  <2>1. phase = "checked"
    BY <1>10, NothingJudgedBefore
  <2>2. UNCHANGED <<phase, asked, dir, source, shown, exit>>
    BY <1>10 DEF Judge, liveVars, Walk, Decide, ApplyMode
  <2> QED
    BY <2>1, <2>2 DEF ScopeAccounted, contractLoads, scopeLoads
<1>11. CASE Finish
  <2>1. phase = "checked"
    BY <1>11, NothingJudgedBefore
  <2>2. UNCHANGED <<phase, asked, dir, source>> /\ exit' \in {"0", "2"}
    BY <1>11 DEF Finish, liveVars, Exit
  <2>3. shown' # nothingShown
    BY <1>11, ReportIsShown DEF Finish
  <2> QED
    BY <2>1, <2>2, <2>3 DEF ScopeAccounted, contractLoads, scopeLoads
<1>12. CASE Others \/ UNCHANGED cvars
  <2>1. UNCHANGED <<phase, asked, dir, source, shown, exit, pc, decision, report>>
    BY <1>12 DEF Others, ChangeApi, Write, cvars, lvars, liveVars, allVars
  <2> QED
    BY <2>1 DEF ScopeAccounted, contractLoads, scopeLoads
<1> QED
  BY <1>1, <1>2, <1>3, <1>4, <1>5, <1>6, <1>7, <1>8, <1>9, <1>10, <1>11, <1>12
     DEF CNext, Run

(* A scope file that is there decides, or the run ends with exit code 1:   *)
(* one that cannot be read, or that has one entry krsm does not understand, *)
(* never yields a verdict, and the scope is derived only when both files   *)
(* are absent (scenario.go:96-131, scope.go:11-13), whatever the directory. *)
THEOREM ScopeFailsClosed == CSpec => []FailsClosedOnScope
<1>1. ASSUME UndecidedUntilScoped PROVE FailsClosedOnScope
  <2> SUFFICES ASSUME fromScenario, exit # "running"
               PROVE  FailsClosedOnScope
    BY DEF FailsClosedOnScope
  <2>1. CASE phase = "error"
    BY <1>1, <2>1 DEF UndecidedUntilScoped, FailsClosedOnScope, derived
  <2>2. CASE phase = "checked"
    <3>1. shown # nothingShown /\ ScopeAccounted
      BY <1>1, <2>2 DEF UndecidedUntilScoped
    <3>2. CASE source = "taskcontract.yaml" /\ contractLoads
      <4>1. /\ dir.contract.status = "ok"
            /\ declaring = dir.contract
            /\ entries = dir.contract.body.allow
        BY <3>2 DEF contractLoads, loads, declaring, entries
      <4>2. /\ dir.contract.body.maxSeverity \in Scenario!severities
            /\ \A e \in entries :
                 /\ e.dim \in dimensions \ {"ownership"}
                 /\ e.dim = "selector" =>
                      \A i \in DOMAIN e.sel.exprs : e.sel.exprs[i].op \in Operators
        BY <3>2, <4>1, CompiledContractIsKnown DEF contractLoads, loads
      <4> QED
        BY <3>1, <3>2, <4>1, <4>2 DEF FailsClosedOnScope, derived
    <3>3. CASE source = "scope.yaml" /\ dir.contract.status = "absent" /\ scopeLoads
      <4>1. dir.scope.status = "ok" /\ declaring = dir.scope /\ entries = dir.scope.body
        BY <3>3 DEF scopeLoads, loads, declaring, entries
      <4>2. \A e \in entries : Scenario!entryParses(e)
        BY <3>3, <4>1 DEF scopeLoads, loads, Scenario!scopeParses
      <4>3. \A e \in entries :
              /\ e.dim \in dimensions
              /\ e.dim = "ownership" => e.root # {}
              /\ e.dim = "selector" =>
                   \A i \in DOMAIN e.sel.exprs : e.sel.exprs[i].op \in Operators
        BY <4>2, ParsedEntryIsKnown
      <4> QED
        BY <3>1, <3>3, <4>1, <4>3 DEF FailsClosedOnScope, derived
    <3>4. CASE source = derived /\ dir.contract.status = "absent" /\ dir.scope.status = "absent"
      BY <3>1, <3>4 DEF FailsClosedOnScope, declaring
    <3> QED
      BY <3>1, <3>2, <3>3, <3>4 DEF ScopeAccounted
  <2> QED
    BY <1>1, <2>1, <2>2 DEF UndecidedUntilScoped, fromScenario
<1> QED
  BY <1>1, RunInitEstablishes, RunNextKeeps, PTL DEF CSpec

-----------------------------------------------------------------------------
(* Types.                                                                  *)

(* Whatever a run reads, before a check begins nothing is walked, and then *)
(* what the verdict and the report hold comes from the walk.               *)
RunInv ==
  /\ UndecidedUntilScoped /\ CallIsRecord
  /\ phase \in {"args", "usage", "error", "connect", "resolve", "discover", "list",
                "cluster", "request", "contract", "scope", "checked"}
  /\ phase # "checked" => visited = {} /\ affected = emptyMap
  /\ phase = "checked" => TypeOK /\ Judged
  /\ phase = "usage" => exit = "0"
  /\ source \in {"", "taskcontract.yaml", "scope.yaml", derived}
  /\ shown.word \in {"", "ALLOW", "WARN", "BLOCK"}

(* It holds of a command line that is not parsed yet.                      *)
LEMMA RunStarts == CInit => RunInv
<1> SUFFICES ASSUME CInit PROVE RunInv
  OBVIOUS
<1>1. CallIsRecord
  BY DEF CInit, Fresh, CallIsRecord, noCall
<1> QED
  BY <1>1, RunInitEstablishes DEF CInit, Fresh, RunInv, nothingShown

(* A step before the check (main.go:133-200, scenario.go:56-95) leaves the  *)
(* walk, the verdict and the report as they were.                          *)
LEMMA EarlyStepsKeepTypes ==
  ASSUME RunInv, [CNext]_cvars, phase # "checked", phase' # "checked"
  PROVE  RunInv'
<1>1. UndecidedUntilScoped'
  BY RunNextKeeps DEF RunInv
<1>2. ~Judge /\ ~Finish /\ ~ReadContract /\ ~ReadScope /\ ~DeriveScope /\ ~Build
  BY NothingJudgedBefore DEF RunInv, ReadContract, ReadScope, DeriveScope, startCheck, Build
<1>3. /\ UNCHANGED <<visited, affected, pc, source, shown>>
      /\ CallIsRecord'
      /\ phase' \in {"args", "usage", "error", "connect", "resolve", "discover", "list",
                     "cluster", "request", "contract", "scope"}
      /\ \/ exit' = exit /\ phase' \notin {"usage", "error"}
         \/ phase' = phase /\ exit' = exit
         \/ exit' = "1" /\ phase' = "error"
         \/ exit' = "0" /\ phase' = "usage"
  <2> USE DEF RunInv, CallIsRecord
  <2>1. CASE ShowUsage \/ RejectArgs \/ ChooseScenario \/ ChooseLive \/ Connect \/ ConnectFails
    BY <2>1 DEF ShowUsage, RejectArgs, ChooseScenario, ChooseLive, Connect, ConnectFails,
                proceed, fail, exitWithError
  <2>2. CASE ReadCluster \/ ReadRequest \/ SkipContract \/ LoadFails
    BY <2>2 DEF ReadCluster, ReadRequest, SkipContract, LoadFails, proceed, fail, exitWithError
  <2>3. CASE ReadLive
    BY <1>2, <2>3 DEF ReadLive, Resolve, ResolveFails, Discover, List, ApiFails, BuildFails,
                      exitWithError, reading, allVars, noCall
  <2>4. CASE Others \/ UNCHANGED cvars
    BY <2>4 DEF Others, ChangeApi, Write, cvars, lvars, liveVars, allVars
  <2> QED
    BY <1>2, <2>1, <2>2, <2>3, <2>4 DEF CNext, Run
<1> QED
  BY <1>1, <1>3 DEF RunInv

(* A check begins with the target, if it is known, as all there is to walk *)
(* (main.go:203, closure.go:20-27).                                        *)
LEMMA CheckStarts ==
  ASSUME RunInv, [CNext]_cvars, phase # "checked", phase' = "checked"
  PROVE  /\ CallIsRecord' /\ pc' = "walk" /\ exit' = "running"
         /\ visited' = {} /\ affected' = emptyMap /\ decision' = none /\ report' = none
         /\ queue' = IF tracked(call.s, call.a.target)' THEN {(call.a.target)'} ELSE {}
         /\ source' \in {"taskcontract.yaml", "scope.yaml", derived} /\ shown' = nothingShown
         /\ UNCHANGED <<args, asked, dir, check>>
         /\ (call.a)' = call.a /\ (call.mode)' = call.mode
         /\ \/ /\ phase \in {"contract", "scope"} /\ (call.s)' = call.s
            \/ /\ Build /\ (call.scope)' = Derive(call.a.target)
<1> USE DEF RunInv, CallIsRecord
<1>1. phase \notin {"error", "usage"}
  BY DEF CNext, Run, ShowUsage, RejectArgs, ChooseScenario, ChooseLive, Connect, ConnectFails,
         ReadCluster, ReadRequest, ReadContract, SkipContract, ReadScope, DeriveScope, LoadFails,
         ReadLive, Resolve, ResolveFails, Discover, List, ApiFails, BuildFails, Build, reading,
         Others, ChangeApi, Write, cvars, lvars, liveVars, Judge, Finish, fail, exitWithError
<1>2. exit = "running" /\ decision = none /\ report = none /\ shown = nothingShown
  BY <1>1 DEF UndecidedUntilScoped
<1>3. CASE ReadContract \/ ReadScope \/ DeriveScope
  BY <1>2, <1>3 DEF ReadContract, ReadScope, DeriveScope, startCheck
<1>4. CASE Build /\ ReadLive
  <2>1. PICK objs \in {BuildObjects(got, kindScope)} : \E s \in {NewScanState(objs)} :
          /\ call' = [call EXCEPT !.s = s, !.scope = Derive(call.a.target)]
          /\ queue' = IF tracked(s, call.a.target) THEN {call.a.target} ELSE {}
    BY <1>4 DEF Build
  <2> QED
    BY <1>2, <1>4, <2>1 DEF Build, ReadLive
<1>5. ReadContract \/ ReadScope \/ DeriveScope \/ (Build /\ ReadLive)
  BY NothingJudgedBefore
     DEF CNext, Run, ShowUsage, RejectArgs, ChooseScenario, ChooseLive, Connect, ConnectFails,
         ReadCluster, ReadRequest, SkipContract, LoadFails, proceed, fail,
         ReadLive, Resolve, ResolveFails, Discover, List, ApiFails, BuildFails, exitWithError,
         Others, ChangeApi, Write, cvars, lvars, liveVars, reading
<1> QED
  BY <1>3, <1>4, <1>5

(* Once a check has begun, the steps are those of the walk and the verdict, *)
(* and of other clients, who are not seen any more.                        *)
LEMMA CheckSteps ==
  ASSUME RunInv, [CNext]_cvars, phase = "checked"
  PROVE  /\ [VNext]_allVars /\ UNCHANGED <<phase, args, asked, dir, source, check>>
         /\ \/ Finish
            \/ shown' = shown /\ exit' = exit
<1>1. CASE Judge
  BY <1>1 DEF Judge, VNext, liveVars, Walk, Decide, ApplyMode
<1>2. CASE Finish
  BY <1>2 DEF Finish, VNext, liveVars
<1>3. CASE UNCHANGED cvars
  BY <1>3 DEF cvars, lvars, liveVars, allVars
<1> QED
  BY <1>1, <1>2, <1>3
     DEF CNext, Run, ShowUsage, RejectArgs, ChooseScenario, ChooseLive, Connect, ConnectFails,
         ReadCluster, ReadRequest, ReadContract, SkipContract, ReadScope, DeriveScope, LoadFails,
         ReadLive, Resolve, ResolveFails, Discover, List, ApiFails, BuildFails, Build, reading,
         Others, ChangeApi, Write

(* Every step of a run keeps RunInv.                                       *)
LEMMA RunKeeps == RunInv /\ [CNext]_cvars => RunInv'
<1> SUFFICES ASSUME RunInv, [CNext]_cvars PROVE RunInv'
  OBVIOUS
<1>1. UndecidedUntilScoped'
  BY RunNextKeeps DEF RunInv
<1>2. CASE phase # "checked" /\ phase' # "checked"
  BY <1>2, EarlyStepsKeepTypes
<1>3. CASE phase # "checked" /\ phase' = "checked"
  <2>1. TypeOK'
    BY <1>3, CheckStarts DEF TypeOK, emptyMap
  <2>2. Judged'
    BY <1>3, CheckStarts DEF Judged
  <2>3. CallIsRecord' /\ source' \in {"taskcontract.yaml", "scope.yaml", derived}
    BY <1>3, CheckStarts
  <2>4. shown' = nothingShown
    BY <1>3, CheckStarts
  <2>5. nothingShown.word = ""
    BY DEF nothingShown
  <2> QED
    BY <1>1, <1>3, <2>1, <2>2, <2>3, <2>4, <2>5 DEF RunInv
<1>4. CASE phase = "checked"
  <2>1. [VNext]_allVars /\ phase' = phase /\ source' = source
    BY <1>4, CheckSteps
  <2>2. [Next]_vars /\ UNCHANGED call
    BY <2>1, CheckStepsWalk
  <2>3. TypeOK' /\ Judged'
    BY <1>4, <2>1, <2>2, TypesKept, JudgedKept DEF RunInv
  <2>4. (shown.word)' \in {"", "ALLOW", "WARN", "BLOCK"}
    BY <1>4, CheckSteps, ReportIsShown DEF Finish, RunInv
  <2> QED
    BY <1>1, <1>4, <2>1, <2>2, <2>3, <2>4 DEF RunInv, CallIsRecord
<1> QED
  BY <1>2, <1>3, <1>4

(* The invariant holds in every state of a run.                            *)
LEMMA RunInvariant == CSpec => []RunInv
  BY RunStarts, RunKeeps, PTL DEF CSpec

(* Whatever the command line, the directory and the answers of the API, a  *)
(* run walks only what it has read, and exits with 1 exactly for an error  *)
(* (main.go:116-127).                                                      *)
THEOREM CommandTypesHold == CSpec => []CTypeOK
<1>1. RunInv => CTypeOK
  <2> SUFFICES ASSUME RunInv PROVE CTypeOK
    OBVIOUS
  <2>1. phase = "checked" => VTypeOK
    BY JudgedIsTyped DEF RunInv
  <2>2. pc = "idle" <=> phase # "checked"
    BY DEF RunInv, UndecidedUntilScoped, TypeOK
  <2>3. exit = "running" \/ (exit = "1" <=> phase = "error")
    BY DEF RunInv, UndecidedUntilScoped, Judged
  <2> QED
    BY <2>1, <2>2, <2>3 DEF RunInv, CTypeOK
<1> QED
  BY <1>1, RunInvariant, PTL

-----------------------------------------------------------------------------
(* A check of a scenario.                                                  *)

(* What a scenario has put into the call, file by file                     *)
(* (scenario.go:56-133, main.go:192-203).                                  *)
LoadInv ==
  fromScenario =>
    /\ \E st \in Starts : dir = st.dir /\ asked = run(st.args)
    /\ ModeKnown(asked)
    /\ phase \in {"cluster", "request", "contract", "scope", "checked"} => call.mode = asked.mode
    /\ phase \in {"request", "contract", "scope", "checked"} =>
         /\ loads(dir.cluster, Scenario!clusterParses(dir.cluster.body))
         /\ call.s = NewScanState(Scenario!parseCluster(dir.cluster.body))
    /\ phase \in {"contract", "scope", "checked"} =>
         dir.request.status = "ok" /\ call.a = Scenario!parseAction(dir.request.body)

(* Whatever the command line, a check is made in one of the two modes      *)
(* (main.go:170-176).                                                      *)
LEMMA AskedModeIsKnown ==
  ASSUME NEW args_
  PROVE  ModeKnown(run(args_))
<1>1. \A how : ModeKnown(usage(how))
  BY DEF ModeKnown, usage
<1>2. ASSUME NEW p, modeKnown(p.mode) PROVE ModeKnown(checkLive(p)) /\ ModeKnown(checkScenario(p))
  <2>1. p.mode.val \in {"audit", "enforce"}
    <3>1. text("audit").val = "audit" /\ text("enforce").val = "enforce"
      BY DEF text
    <3> QED
      BY <1>2, <3>1 DEF modeKnown
  <2>2. ModeKnown(checkScenario(p))
    BY <1>1, <2>1 DEF checkScenario, usage, ModeKnown
  <2>3. ModeKnown(checkLive(p))
    BY <1>1, <2>1 DEF checkLive, usage, ModeKnown
  <2> QED
    BY <2>2, <2>3
<1>3. ASSUME NEW rest PROVE ModeKnown(runCheck(rest))
  BY <1>1, <1>2 DEF runCheck
<1> QED
  BY <1>1, <1>3 DEF run

(* A run starts with its directory and no file read.                       *)
LEMMA LoadStarts == CInit => LoadInv
  BY AskedModeIsKnown DEF CInit, LoadInv

(* Every step reads one file or leaves what was read alone.                *)
LEMMA LoadKeeps ==
  ASSUME RunInv, LoadInv, [CNext]_cvars
  PROVE  LoadInv'
<1> SUFFICES ASSUME fromScenario' PROVE LoadInv'
  BY DEF LoadInv
<1>1. UNCHANGED <<asked, dir>> /\ fromScenario
  BY DEF CNext, Run, ShowUsage, RejectArgs, ChooseScenario, ChooseLive, Connect, ConnectFails,
         ReadCluster, ReadRequest, ReadContract, SkipContract, ReadScope, DeriveScope, LoadFails,
         ReadLive, Judge, Finish, Others, cvars, proceed, fail, startCheck, fromScenario
<1>2. /\ CallIsRecord
      /\ phase \in {"args", "cluster", "request", "contract", "scope", "checked", "error"}
  BY <1>1 DEF RunInv, UndecidedUntilScoped
<1> USE DEF LoadInv, ModeKnown
<1>3. CASE phase' = "error"
  BY <1>1, <1>3
<1>4. CASE ChooseScenario
  BY <1>1, <1>2, <1>4 DEF ChooseScenario, proceed, CallIsRecord
<1>5. CASE ReadCluster
  BY <1>1, <1>2, <1>5 DEF ReadCluster, proceed, CallIsRecord, loads
<1>6. CASE ReadRequest
  BY <1>1, <1>2, <1>6 DEF ReadRequest, proceed, CallIsRecord, loads
<1>7. CASE SkipContract
  BY <1>1, <1>2, <1>7 DEF SkipContract, proceed
<1>8. CASE phase # "checked" /\ phase' = "checked"
  <2>1. ~Build
    BY <1>2 DEF Build
  <2>2. phase \in {"contract", "scope"} /\ (call.s)' = call.s /\ (call.a)' = call.a
          /\ (call.mode)' = call.mode
    BY <1>8, <2>1, CheckStarts
  <2> QED
    BY <1>1, <1>8, <2>2
<1>9. CASE UNCHANGED <<phase, call>>
  BY <1>1, <1>9
<1>10. phase = "checked" => UNCHANGED <<phase, call>>
  BY CheckSteps, CheckStepsWalk
<1>11. CASE ShowUsage \/ RejectArgs \/ ConnectFails \/ LoadFails
  <2>1. phase' = "error"
    BY <1>1, <1>11 DEF ShowUsage, RejectArgs, ConnectFails, LoadFails, fail, exitWithError,
                       fromScenario
  <2> QED
    BY <1>3, <2>1
<1>12. ~ChooseLive /\ ~Connect /\ ~ReadLive
  BY <1>1, <1>2 DEF ChooseLive, Connect, ReadLive, fromScenario, Resolve, ResolveFails, Discover,
                    List, ApiFails, BuildFails, Build, reading
<1>13. CASE ReadContract \/ ReadScope \/ DeriveScope
  <2>1. phase # "checked" /\ phase' = "checked"
    BY <1>13 DEF ReadContract, ReadScope, DeriveScope, startCheck
  <2> QED
    BY <1>8, <2>1
<1>14. CASE Judge \/ Finish
  <2>1. phase = "checked"
    BY <1>14, NothingJudgedBefore DEF RunInv
  <2> QED
    BY <1>9, <1>10, <2>1
<1>15. CASE Others \/ UNCHANGED cvars
  <2>1. UNCHANGED <<phase, call>>
    BY <1>15 DEF Others, ChangeApi, Write, cvars, lvars, liveVars, allVars
  <2> QED
    BY <1>9, <2>1
<1> QED
  BY <1>4, <1>5, <1>6, <1>7, <1>11, <1>12, <1>13, <1>14, <1>15 DEF CNext, Run

(* The object of a manifest is filed under its name and the uid made of it *)
(* (scenario.go:275-277, 411-436).                                         *)
LEMMA ObjectIsNamed ==
  ASSUME NEW m
  PROVE  LET o == Scenario!objectFrom(m)
         IN  human(o.ref) = nameOf(m) /\ o.ref.uid = joined(nameOf(m))
  BY DEF Scenario!objectFrom, Scenario!refAt, human, nameOf, joined, Scenario!uidOf

(* And so is the target of a request (scenario.go:447-467).                *)
LEMMA TargetIsNamed ==
  ASSUME NEW raw
  PROVE  LET r == Scenario!parseAction(raw).target
         IN  human(r) = nameOf(raw.target) /\ r.uid = joined(nameOf(raw.target))
  BY DEF Scenario!parseAction, Scenario!refOf, Scenario!refAt, human, nameOf, joined, Scenario!uidOf

(* The State of a sane directory is well formed, and gives the target of   *)
(* its request the uid and the name of one object.                         *)
LEMMA ScenarioStateIs ==
  ASSUME NEW d, DirSane(d), d.cluster.status = "ok", d.request.status = "ok"
  PROVE  LET s == NewScanState(Scenario!parseCluster(d.cluster.body))
             r == Scenario!parseAction(d.request.body).target
         IN  /\ WellFormed(s) /\ Distinct(s) /\ \A o, x \in s.objs : o.ref.uid = x.ref.uid => o = x
             /\ Consistent(s, r) /\ r.uid # ""
             /\ tracked(s, r) => lookup(s, r).ref.uid = r.uid
<1> DEFINE files == d.cluster.body
           kinds == Scenario!kinded(files)
           seq   == Scenario!parseCluster(files)
           s     == NewScanState(seq)
           r     == Scenario!parseAction(d.request.body).target
           uidNames == {nameOf(kinds[i]) : i \in DOMAIN kinds} \cup {nameOf(d.request.body.target)}
<1>1. /\ Len(files) \in Nat /\ DOMAIN files = 1..Len(files)
      /\ \A i, j \in DOMAIN kinds : nameOf(kinds[i]) = nameOf(kinds[j]) => i = j
      /\ \A h, k \in uidNames : joined(h) # "" /\ (joined(h) = joined(k) => h = k)
  BY DEF DirSane
<1>2. DOMAIN kinds \subseteq 1..Len(files) /\ DOMAIN seq = DOMAIN kinds
  BY <1>1 DEF Scenario!kinded, Scenario!parseCluster
<1>3. \A i \in DOMAIN seq :
        human(seq[i].ref) = nameOf(kinds[i]) /\ seq[i].ref.uid = joined(nameOf(kinds[i]))
  BY <1>2, ObjectIsNamed DEF Scenario!parseCluster
<1>4. human(r) = nameOf(d.request.body.target) /\ r.uid = joined(human(r))
  BY TargetIsNamed
<1> HIDE DEF kinds, seq, r
<1>5. s.objs = {seq[i] : i \in DOMAIN seq} /\ Indexed(s)
  BY <1>1, <1>2, ScanStateIs
<1> HIDE DEF s
<1>6. \A o \in s.objs : human(o.ref) \in uidNames /\ o.ref.uid = joined(human(o.ref))
  BY <1>2, <1>3, <1>5
<1>7. human(r) \in uidNames
  BY <1>4
<1> HIDE DEF uidNames
<1>8. ASSUME NEW o \in s.objs, NEW x \in s.objs, human(o.ref) = human(x.ref) PROVE o = x
  <2>1. PICK i \in DOMAIN seq : o = seq[i]
    BY <1>5
  <2>2. PICK j \in DOMAIN seq : x = seq[j]
    BY <1>5
  <2>3. nameOf(kinds[i]) = nameOf(kinds[j])
    BY <1>3, <1>8, <2>1, <2>2
  <2> QED
    BY <1>1, <1>2, <2>1, <2>2, <2>3
<1>9. \A o \in s.objs : o.ref.uid # ""
  BY <1>1, <1>6
<1>10. ASSUME NEW o \in s.objs, NEW x \in s.objs, o.ref.uid = x.ref.uid PROVE o = x
  <2>1. human(o.ref) \in uidNames /\ human(x.ref) \in uidNames
    BY <1>6
  <2>2. joined(human(o.ref)) = joined(human(x.ref))
    BY <1>6, <1>10
  <2> QED
    BY <1>1, <1>8, <2>1, <2>2
<1>11. WellFormed(s)
  <2>1. ASSUME NEW o \in s.objs PROVE knownUID(s, o.ref) /\ s.byUID[o.ref.uid] = o
    <3>1. /\ o.ref.uid # "" /\ o.ref.uid \in DOMAIN s.byUID
          /\ s.byUID[o.ref.uid] \in s.objs /\ s.byUID[o.ref.uid].ref.uid = o.ref.uid
      BY <1>5, <1>9 DEF Indexed
    <3> QED
      BY <1>10, <3>1 DEF knownUID
  <2> QED
    BY <1>5, <2>1 DEF WellFormed, Indexed, tracked, lookup
<1>12. tracked(s, r) => lookup(s, r) \in s.objs
  BY <1>5 DEF Indexed, tracked, knownUID, lookup
<1>13. tracked(s, r) =>
         human(lookup(s, r).ref) = human(r) \/ lookup(s, r).ref.uid = r.uid
  BY <1>5 DEF Indexed, tracked, knownUID, lookup
<1>14. tracked(s, r) =>
         human(lookup(s, r).ref) = human(r) /\ lookup(s, r).ref.uid = r.uid
  BY <1>1, <1>4, <1>6, <1>7, <1>12, <1>13
<1>15. r.uid # ""
  BY <1>1, <1>4, <1>7
<1>16. Distinct(s)
  BY <1>5, <1>9, <1>10, FoundByUID DEF Distinct
<1> QED
  BY <1>10, <1>11, <1>14, <1>15, <1>16 DEF Consistent, s, r, seq

(* What the theorems about Closure and Verdict assume of a call is true of *)
(* the call a scenario makes.                                              *)
LEMMA ScenarioCallIsGood ==
  ASSUME LoadInv, fromScenario, DirSane(dir), phase = "checked"
  PROVE  /\ GoodCall /\ Distinct(call.s) /\ oneVersionEach
         /\ ModeKnown(call) /\ OnePayload(call)
         /\ tracked(call.s, call.a.target) /\ groupGiven => WrittenAsListed(call)
<1>1. /\ dir.cluster.status = "ok" /\ dir.request.status = "ok"
      /\ call.s = NewScanState(Scenario!parseCluster(dir.cluster.body))
      /\ call.a = Scenario!parseAction(dir.request.body)
      /\ ModeKnown(asked) /\ call.mode = asked.mode
  BY DEF LoadInv, loads
<1>2. /\ WellFormed(call.s) /\ Distinct(call.s)
      /\ \A o, x \in call.s.objs : o.ref.uid = x.ref.uid => o = x
      /\ Consistent(call.s, call.a.target) /\ call.a.target.uid # ""
      /\ tracked(call.s, call.a.target) =>
           lookup(call.s, call.a.target).ref.uid = call.a.target.uid
  BY <1>1, ScenarioStateIs
<1>3. OnePayload(call)
  <2>1. (\A p, q \in dir.request.body.old : p = q) /\ (\A p, q \in dir.request.body.new : p = q)
    BY <1>1 DEF DirSane
  <2> QED
    BY <1>1, <2>1 DEF OnePayload, Scenario!parseAction
<1>4. ASSUME tracked(call.s, call.a.target), groupGiven
      PROVE  WrittenAsListed(call)
  <2>1. key(lookup(call.s, call.a.target).ref) = key(call.a.target)
    BY <1>2, <1>4 DEF key
  <2>2. lookup(call.s, call.a.target).ref.group = call.a.target.group
    BY <1>4 DEF groupGiven
  <2> QED
    BY <2>1, <2>2 DEF WrittenAsListed
<1> QED
  BY <1>1, <1>2, <1>3, <1>4 DEF GoodCall, ModeKnown, oneVersionEach

-----------------------------------------------------------------------------
(* A check of a live cluster.                                              *)

(* All that is ever live, whatever the run starts from.                    *)
ever == everLive({st.cluster : st \in Starts})

(* A live check that has read nothing yet (main.go:249-260).               *)
ReadBegins == phase = "resolve" /\ Fresh /\ World /\ cluster \subseteq ever

(* What a live check has read; a run takes this path for no other command  *)
(* line, and the scenario path neither.                                    *)
ClusterInv ==
  /\ asked.way \notin {"live", "scenario"} => phase \in {"args", "usage", "error"}
  /\ asked.way = "live" =>
       /\ phase \in {"args", "connect", "resolve", "discover", "list", "checked", "error"}
       /\ phase \in {"args", "connect"} =>
            /\ Fresh /\ served \in Discoveries
            /\ cluster \subseteq ever /\ SaneObjects(cluster, Discoveries)
            /\ ModeKnown(IF phase = "args" THEN asked ELSE check)
       /\ phase \in {"resolve", "discover", "list", "checked"} =>
            ReadBegins \/ (ReadInv /\ ListedOnce(ever))

(* A run starts from a server that keeps to its rules.                     *)
LEMMA ClusterStarts ==
  ASSUME StartsSane, CInit
  PROVE  ClusterInv
<1>1. PICK st \in Starts :
        args = st.args /\ asked = run(st.args) /\ dir = st.dir /\ cluster = st.cluster /\ served = st.served
  BY DEF CInit
<1>2. phase = "args" /\ Fresh /\ ModeKnown(asked)
  BY <1>1, AskedModeIsKnown DEF CInit
<1>3. asked.way = "live" => served \in Discoveries
  BY <1>1 DEF StartsSane
<1>4. SaneObjects(cluster, Discoveries)
  BY <1>1 DEF StartsSane, Sane
<1>5. cluster \subseteq ever
  BY <1>1 DEF ever, everLive
<1> QED
  BY <1>2, <1>3, <1>4, <1>5 DEF ClusterInv

(* While it reads and after, a live check of a run takes the steps of      *)
(* LiveCheck and no others.                                                *)
LEMMA LiveStepsAre ==
  ASSUME RunInv, phase \in {"resolve", "discover", "list", "checked"}, ~fromScenario, [CNext]_cvars
  PROVE  [LNext]_lvars /\ phase' \in {"resolve", "discover", "list", "checked", "error"}
<1>1. CASE ReadLive
  <2>1. LNext
    BY <1>1 DEF ReadLive, LNext, Step
  <2>2. phase' \in {"resolve", "discover", "list", "checked", "error"}
    BY <1>1 DEF ReadLive, Resolve, ResolveFails, Discover, List, ApiFails, BuildFails, Build,
                exitWithError
  <2> QED
    BY <2>1, <2>2
<1>2. CASE Judge \/ Finish
  BY <1>2 DEF Judge, Finish, LNext, Step, Verify, VNext, liveVars
<1>3. CASE Others \/ UNCHANGED cvars
  BY <1>3 DEF Others, LNext, cvars, lvars, liveVars, ChangeApi, Write
<1>4. ReadLive \/ Judge \/ Finish \/ Others \/ UNCHANGED cvars
  BY DEF CNext, Run, ShowUsage, RejectArgs, ChooseScenario, ChooseLive, Connect, ConnectFails,
         ReadCluster, ReadRequest, ReadContract, SkipContract, ReadScope, DeriveScope, LoadFails
<1> QED
  BY <1>1, <1>2, <1>3, <1>4

(* Before it reads there is only the command line to take (main.go:142-190 *)
(* and 249-260).                                                           *)
LEMMA LiveBeginningKept ==
  ASSUME RunInv, ClusterInv, asked.way = "live", phase \in {"args", "connect"}, [CNext]_cvars
  PROVE  ClusterInv'
<1>1. asked' = asked
  BY DEF CNext, Run, ShowUsage, RejectArgs, ChooseScenario, ChooseLive, Connect, ConnectFails,
         ReadCluster, ReadRequest, ReadContract, SkipContract, ReadScope, DeriveScope, LoadFails,
         ReadLive, Judge, Finish, Others, cvars, proceed, fail, startCheck
<1>2. ~Judge /\ ~Finish
  BY NothingJudgedBefore DEF RunInv
<1>3. \/ ChooseLive \/ Connect \/ ConnectFails \/ UNCHANGED cvars
  BY <1>2 DEF CNext, Run, ShowUsage, RejectArgs, ChooseScenario,
         ReadCluster, ReadRequest, ReadContract, SkipContract, ReadScope, DeriveScope, LoadFails,
         ReadLive, Resolve, ResolveFails, Discover, List, ApiFails, BuildFails, Build, reading,
         Others, ChangeApi, Write
<1>4. CASE ChooseLive
  <2>1. /\ Fresh' /\ UNCHANGED <<served, cluster>> /\ phase' = "connect" /\ phase = "args"
        /\ check'.mode = asked.mode
    BY <1>4 DEF ChooseLive, proceed, Fresh, ClusterInv
  <2> QED
    BY <1>1, <2>1 DEF ClusterInv, ModeKnown
<1>5. CASE Connect
  <2>1. /\ Fresh' /\ UNCHANGED <<served, cluster, check, moments>> /\ phase' = "resolve"
        /\ phase = "connect" /\ moments = {}
    BY <1>5 DEF Connect, proceed, Fresh, ClusterInv
  <2>2. World'
    BY <2>1 DEF ClusterInv, World, ModeKnown
  <2> QED
    BY <1>1, <2>1, <2>2 DEF ClusterInv, ReadBegins
<1>6. CASE ConnectFails
  <2>1. phase' = "error"
    BY <1>6 DEF ConnectFails, fail, exitWithError
  <2> QED
    BY <2>1 DEF ClusterInv
<1>7. CASE UNCHANGED cvars
  <2>1. Fresh' /\ UNCHANGED <<phase, served, cluster, check>>
    BY <1>7 DEF cvars, lvars, allVars, liveVars, Fresh, ClusterInv
  <2> QED
    BY <1>1, <2>1 DEF ClusterInv, ModeKnown
<1> QED
  BY <1>3, <1>4, <1>5, <1>6, <1>7

(* Every step of a run keeps it.                                           *)
LEMMA ClusterKeeps ==
  ASSUME StartsSane, RunInv, ClusterInv, [CNext]_cvars
  PROVE  ClusterInv'
<1>1. Ruled /\ Orderly(Discoveries, ever) /\ \A w \in Writes : w.put \subseteq ever
  BY DEF StartsSane, Sane, Ruled, ever, everLive
<1>2. asked' = asked
  BY DEF CNext, Run, ShowUsage, RejectArgs, ChooseScenario, ChooseLive, Connect, ConnectFails,
         ReadCluster, ReadRequest, ReadContract, SkipContract, ReadScope, DeriveScope, LoadFails,
         ReadLive, Judge, Finish, Others, cvars, proceed, fail, startCheck
<1>3. CASE asked.way = "live" /\ phase \in {"args", "connect"}
  BY <1>3, LiveBeginningKept
<1>4. CASE asked.way = "live" /\ phase \in {"resolve", "discover", "list", "checked"}
  <2>1. [LNext]_lvars /\ phase' \in {"resolve", "discover", "list", "checked", "error"}
    BY <1>4, LiveStepsAre DEF fromScenario
  <2>2. ReadInv /\ ListedOnce(ever)
    BY <1>4, FreshIsReadOnce DEF ClusterInv, ReadBegins, ever
  <2>3. ReadInv' /\ ListedOnce(ever)'
    BY <1>1, <2>1, <2>2, ReadOnceKept DEF ever
  <2> QED
    BY <1>2, <1>4, <2>1, <2>3 DEF ClusterInv
<1>5. CASE asked.way = "live" /\ phase = "error"
  <2>1. phase' = "error"
    BY <1>5, NothingJudgedBefore
       DEF CNext, Run, ShowUsage, RejectArgs, ChooseScenario, ChooseLive, Connect, ConnectFails,
           ReadCluster, ReadRequest, ReadContract, SkipContract, ReadScope, DeriveScope, LoadFails,
           ReadLive, Resolve, ResolveFails, Discover, List, ApiFails, BuildFails, Build, reading,
           fail, exitWithError, Others, ChangeApi, Write, cvars, lvars, liveVars, RunInv
  <2> QED
    BY <1>2, <2>1 DEF ClusterInv
<1>6. CASE fromScenario
  BY <1>2, <1>6 DEF ClusterInv, fromScenario
<1>7. CASE asked.way \notin {"live", "scenario"}
  <2>1. phase \in {"args", "usage", "error"}
    BY <1>7 DEF ClusterInv
  <2>2. phase' \in {"args", "usage", "error"}
    BY <1>7, <2>1, NothingJudgedBefore
       DEF CNext, Run, ShowUsage, RejectArgs, ChooseScenario, ChooseLive, Connect, ConnectFails,
           ReadCluster, ReadRequest, ReadContract, SkipContract, ReadScope, DeriveScope, LoadFails,
           ReadLive, Resolve, ResolveFails, Discover, List, ApiFails, BuildFails, Build, reading,
           proceed, fail, exitWithError, Others, ChangeApi, Write, cvars, lvars, liveVars, RunInv
  <2> QED
    BY <1>2, <1>7, <2>2 DEF ClusterInv
<1> QED
  BY <1>3, <1>4, <1>5, <1>6, <1>7 DEF ClusterInv, fromScenario

-----------------------------------------------------------------------------
(* Every call the program makes is a good one.                             *)

(* The three invariants of a run together.                                 *)
PathInv == RunInv /\ LoadInv /\ ClusterInv

LEMMA PathInvariant == StartsSane => (CSpec => []PathInv)
<1> SUFFICES ASSUME StartsSane PROVE CSpec => []PathInv
  OBVIOUS
<1>1. CInit => PathInv
  BY RunStarts, LoadStarts, ClusterStarts DEF PathInv
<1>2. PathInv /\ [CNext]_cvars => PathInv'
  BY RunKeeps, LoadKeeps, ClusterKeeps DEF PathInv
<1> QED
  BY <1>1, <1>2, PTL DEF CSpec

(* A check is of a scenario or of a live cluster, and in both cases what   *)
(* the walk and Safe are given is good.                                    *)
LEMMA CallIsGood ==
  ASSUME StartsSane, PathInv, phase = "checked"
  PROVE  /\ Distinct(call.s) /\ Consistent(call.s, call.a.target)
         /\ ModeKnown(call) /\ OnePayload(call)
         /\ fromScenario => oneVersionEach
         /\ oneVersionEach => GoodCall
         /\ tracked(call.s, call.a.target) /\ (fromScenario => groupGiven) => WrittenAsListed(call)
<1>1. CASE fromScenario
  <2>1. DirSane(dir)
    BY <1>1 DEF PathInv, LoadInv, StartsSane, fromScenario
  <2> QED
    BY <1>1, <2>1, ScenarioCallIsGood DEF PathInv, GoodCall
<1>2. CASE ~fromScenario
  <2>1. asked.way = "live"
    BY <1>2 DEF PathInv, ClusterInv, fromScenario
  <2>2. ReadInv /\ ListedOnce(ever)
    BY <2>1 DEF PathInv, ClusterInv, ReadBegins
  <2>3. AfterRead /\ Orderly(Discoveries, ever)
    BY <2>2 DEF AfterRead, StartsSane, Sane, Ruled, ever
  <2>4. Distinct(call.s)
    BY <2>2, <2>3, TornStateIs DEF ever
  <2>5. /\ Consistent(call.s, call.a.target) /\ GoodCheck
        /\ oneVersionEach => GoodCall
    BY <2>2, <2>3, TornCallIsGood DEF ever
  <2> QED
    BY <1>2, <2>4, <2>5 DEF GoodCheck
<1> QED
  BY <1>1, <1>2

(* Loader and live reader make objects that share a uid only as versions   *)
(* of one object, and a target that names at most one of them (uidOf,      *)
(* scenario.go:275-277; build.go:62-87, reader.go:193-197).  Where none is *)
(* there in two versions, and in a scenario none is, what the theorems     *)
(* about Closure and Verdict assume is true of the call, whatever the      *)
(* directory or the cluster, and also when others write while it is read.  *)
THEOREM CallsAlwaysMeetAssumption == StartsSane => (CSpec => []CallsMeetAssumption)
<1> SUFFICES ASSUME StartsSane PROVE CSpec => []CallsMeetAssumption
  OBVIOUS
<1>1. PathInv => CallsMeetAssumption
  <2> SUFFICES ASSUME PathInv, pc # "idle" PROVE CallsMeetAssumption
    BY DEF CallsMeetAssumption
  <2>1. phase = "checked"
    BY DEF PathInv, RunInv, UndecidedUntilScoped
  <2> QED
    BY <2>1, CallIsGood DEF CallsMeetAssumption, GoodCall, Distinct
<1> QED
  BY <1>1, PathInvariant, PTL

-----------------------------------------------------------------------------
(* What a run decides.                                                     *)

(* The State holds one version of each object, and a request names its     *)
(* target by the group and version it has.                                 *)
PlainCall == oneVersionEach /\ (fromScenario => groupGiven)

(* A check of such a call is under way and has done nothing yet, or is in  *)
(* the invariant of Verdict.                                               *)
JudgeSound == phase = "checked" /\ PlainCall => Begun \/ VInv

LEMMA JudgeSoundKept ==
  ASSUME StartsSane, PathInv, JudgeSound, [CNext]_cvars
  PROVE  JudgeSound'
<1>1. CASE phase = "checked"
  <2>1. [VNext]_allVars /\ UNCHANGED <<phase, asked>>
    BY <1>1, CheckSteps DEF PathInv
  <2>2. UNCHANGED call
    BY <2>1, CheckStepsWalk
  <2> SUFFICES ASSUME PlainCall PROVE VInv'
    BY <2>1, <2>2 DEF JudgeSound, PlainCall, oneVersionEach, fromScenario, groupGiven
  <2>3. GoodCall /\ GoodCheck
    BY <1>1, CallIsGood DEF GoodCheck, PlainCall
  <2>4. VInv
    BY <1>1, <2>3, BegunIsSound DEF JudgeSound
  <2> QED
    BY <2>1, <2>4, CheckNextKeeps
<1>2. CASE phase # "checked" /\ phase' = "checked"
  <2>1. Begun'
    BY <1>2, CheckStarts DEF PathInv, Begun, AtStart
  <2> QED
    BY <2>1 DEF JudgeSound
<1>3. CASE phase' # "checked"
  BY <1>3 DEF JudgeSound
<1> QED
  BY <1>1, <1>2, <1>3

(* From the command line to the exit code: whatever a run reads, and from  *)
(* where, verdict and exit code are those that the objects it read and the *)
(* clauses of its scope call for, and under a derived scope what escapes   *)
(* is what the target does not own (main.go:116-212, 249-300).  A request  *)
(* is to name its target by the group it has, for a clause reads the group *)
(* of a target as it was written (safe.go:213), and a live State is to     *)
(* hold one version of each object.                                        *)
THEOREM RunsDecideRight ==
  StartsSane =>
    (CSpec => [](phase = "checked" /\ PlainCall =>
                   VerdictMatchesScope /\ ExitMatchesScope /\ DerivedScopeFlagsCollateral))
<1> SUFFICES ASSUME StartsSane
             PROVE  CSpec => [](phase = "checked" /\ PlainCall =>
                              VerdictMatchesScope /\ ExitMatchesScope /\ DerivedScopeFlagsCollateral)
  OBVIOUS
<1> DEFINE Right == phase = "checked" /\ PlainCall =>
                      VerdictMatchesScope /\ ExitMatchesScope /\ DerivedScopeFlagsCollateral
<1>1. CInit => JudgeSound
  BY DEF CInit, JudgeSound
<1>2. PathInv /\ JudgeSound /\ [CNext]_cvars => JudgeSound'
  BY JudgeSoundKept
<1>3. PathInv /\ JudgeSound => Right
  <2> SUFFICES ASSUME PathInv, JudgeSound, phase = "checked", PlainCall
               PROVE  VerdictMatchesScope /\ ExitMatchesScope /\ DerivedScopeFlagsCollateral
    OBVIOUS
  <2>1. GoodCall /\ GoodCheck
    BY CallIsGood DEF GoodCheck, PlainCall
  <2>2. VInv
    BY <2>1, BegunIsSound DEF JudgeSound
  <2> QED
    BY <2>2, SafeIsRight, ModeIsRight, OwnedNeverEscapes
<1> HIDE DEF Right
<1>4. CSpec => []Right
  BY <1>1, <1>2, <1>3, PathInvariant, PTL DEF CSpec
<1> QED
  BY <1>4 DEF Right

-----------------------------------------------------------------------------
(* What a run shows.                                                       *)

(* The report that was printed is the one that was decided on.             *)
ReportPrinted == phase = "checked" /\ exit # "running" => shown = writeReport(source, report)

LEMMA ReportPrintedKept ==
  ASSUME RunInv, ReportPrinted, [CNext]_cvars
  PROVE  ReportPrinted'
<1>1. CASE phase # "checked" /\ phase' = "checked"
  <2>1. exit' = "running"
    BY <1>1, CheckStarts
  <2> QED
    BY <2>1 DEF ReportPrinted
<1>2. CASE phase = "checked" /\ Finish
  <2>1. shown' = writeReport(source, report) /\ UNCHANGED <<source, report>>
    BY <1>2 DEF Finish, Exit
  <2> QED
    BY <2>1 DEF ReportPrinted
<1>3. CASE phase = "checked" /\ Judge
  <2>1. UNCHANGED <<phase, source, shown, exit>>
    BY <1>3 DEF Judge, Walk, Decide, ApplyMode, liveVars
  <2>2. exit # "running" => UNCHANGED report
    BY <1>3 DEF Judge, Walk, Decide, ApplyMode, RunInv, Judged
  <2> QED
    BY <2>1, <2>2 DEF ReportPrinted
<1>4. CASE phase = "checked" /\ (Others \/ UNCHANGED cvars)
  <2>1. UNCHANGED <<phase, source, shown, exit, report>>
    BY <1>4 DEF Others, ChangeApi, Write, cvars, lvars, liveVars, allVars
  <2> QED
    BY <2>1 DEF ReportPrinted
<1>5. phase = "checked" => Finish \/ Judge \/ Others \/ UNCHANGED cvars
  BY DEF CNext, Run, ShowUsage, RejectArgs, ChooseScenario, ChooseLive, Connect, ConnectFails,
         ReadCluster, ReadRequest, ReadContract, SkipContract, ReadScope, DeriveScope, LoadFails,
         ReadLive, Resolve, ResolveFails, Discover, List, ApiFails, BuildFails, Build, reading
<1>6. CASE phase' # "checked"
  BY <1>6 DEF ReportPrinted
<1> QED
  BY <1>1, <1>2, <1>3, <1>4, <1>5, <1>6

(* What leaves the cluster is each finalizer that is written before and    *)
(* not after (closure.go:141-158, classify.go:113-128).                    *)
LEMMA ExternalNamesRemoved ==
  ASSUME GoodCheck, tracked(call.s, call.a.target)
  PROVE  {r.name : r \in ExternalEffects(call.s, call.a)} =
           IF call.a.verb \in {"update", "patch"} /\ call.a.old # {} /\ call.a.new # {}
             THEN removedFinalizers(call.a) ELSE {}
<1> DEFINE X == ExternalEffects(call.s, call.a)
           mutates == call.a.verb \in {"update", "patch"} /\ call.a.old # {} /\ call.a.new # {}
<1>1. CASE X = {}
  <2>1. mutates => removedFinalizers(call.a) = {}
    <3> SUFFICES ASSUME mutates PROVE removedFinalizers(call.a) = {}
      OBVIOUS
    <3>1. PICK o \in call.a.old, n \in call.a.new : TRUE
      OBVIOUS
    <3>2. o.finalizers \subseteq n.finalizers
      BY <1>1, ExternalIsFinalizerDropped
    <3>3. call.a.old = {o} /\ call.a.new = {n}
      BY DEF GoodCheck, OnePayload
    <3> QED
      BY <3>2, <3>3 DEF removedFinalizers
  <2> QED
    BY <1>1, <2>1
<1>2. CASE X # {}
  <2>1. mutates
    BY <1>2, ExternalIsFinalizerDropped
  <2> DEFINE leaving(f) == [noRef EXCEPT !.kind = "External", !.ns = call.a.target.ns, !.name = f]
             gone == removedFinalizers(call.a)
  <2>2. X = {leaving(f) : f \in gone}
    BY <1>2 DEF ExternalEffects
  <2>3. \A f : leaving(f).name = f
    BY DEF noRef
  <2> HIDE DEF leaving, gone, X
  <2>4. {r.name : r \in X} = gone
    BY <2>2, <2>3
  <2> QED
    BY <2>1, <2>4 DEF gone, X
<1> QED
  BY <1>1, <1>2

(* What Safe reports beside the members is what leaves the cluster.        *)
LEMMA ExternalOfSafe ==
  ASSUME NEW s, NEW a, NEW scope, NEW c, c # {}
  PROVE  Safe(s, a, scope, c).external = ExternalEffects(s, a)
  BY DEF Safe, Decision

(* Who lets an action through has seen what is wrong with it.              *)
LEMMA FindingsOfReport ==
  ASSUME VInv, ReportPrinted, phase = "checked", exit = "0"
  PROVE  FindingsShown
<1> DEFINE E == escapes(call.s, call.scope, members)
           X == ExternalEffects(call.s, call.a)
           removed == IF call.a.verb \in {"update", "patch"} /\ call.a.old # {} /\ call.a.new # {}
                        THEN (UNION {p.finalizers : p \in call.a.old})
                               \ (UNION {p.finalizers : p \in call.a.new})
                        ELSE {}
           escaped == {human(o.ref) : o \in unauthorised}
<1>1. /\ pc = "returned" /\ GoodCall /\ GoodCheck /\ IndInv
      /\ decision = Safe(call.s, call.a, call.scope, members)
      /\ report = Apply(call.mode, decision)
      /\ report.verdict # "Block"
  BY DEF VInv, IndInv, Judged
<1>2. shown = writeReport(source, report)
  BY DEF ReportPrinted
<1>3. members # {} /\ tracked(call.s, call.a.target)
  <2>1. members # {}
    BY <1>1, SafeIs, ApplyIs DEF escapes
  <2> QED
    BY <1>1, <2>1, EmptyIsUntracked DEF EmptyIffUntracked, VInv
<1>4. /\ report.escaping = E /\ report.external = X
      /\ report.verdict = "Warn" <=> E # {} \/ X # {}
      /\ report.verdict \in {"Allow", "Warn"}
  <2>1. decision.escaping = E /\ decision.external = X
    BY <1>1, <1>3, SafeIs, ExternalOfSafe
  <2>2. decision.verdict = IF E # {} THEN "Block" ELSE IF X # {} THEN "Warn" ELSE "Allow"
    BY <1>1, <1>3, SafeIs
  <2>3. /\ report.escaping = decision.escaping /\ report.external = decision.external
        /\ report.verdict = IF call.mode = "audit" /\ decision.verdict = "Block" /\ E # {}
                              THEN "Warn" ELSE decision.verdict
    BY <1>1, <2>1, ApplyIs
  <2> HIDE DEF E, X
  <2> QED
    BY <1>1, <2>1, <2>2, <2>3
<1>5. escaped = {human(r) : r \in E}
  <2>1. unauthorised = {obj(r) : r \in E}
    BY <1>1, EscapesAreUnauthorised
  <2>2. ASSUME NEW r \in E PROVE human(obj(r).ref) = human(r)
    BY <1>1, MemberResolves DEF escapes
  <2> HIDE DEF E
  <2> QED
    BY <2>1, <2>2
<1>6. removed = {r.name : r \in X}
  BY <1>1, <1>3, ExternalNamesRemoved DEF removedFinalizers
<1>7. X = {} <=> removed = {}
  BY <1>6
<1>8. E = {} <=> escaped = {}
  BY <1>5
<1> HIDE DEF E, X, removed, escaped
<1>9. /\ report.verdict = "Warn" => shown.word = "WARN" /\ shown.out = E /\ shown.err = X
      /\ report.verdict = "Allow" => shown.word = "ALLOW" /\ shown.out = {} /\ shown.err = {}
  BY <1>2, <1>4 DEF writeReport, printed
<1>10. /\ escaped \subseteq {human(r) : r \in shown.out}
       /\ removed = {r.name : r \in shown.err}
       /\ shown.word = "ALLOW" => escaped = {} /\ removed = {}
       /\ shown.word = "WARN" => escaped # {} \/ removed # {}
  <2>1. CASE report.verdict = "Warn"
    BY <1>4, <1>5, <1>6, <1>7, <1>8, <1>9, <2>1
  <2>2. CASE report.verdict = "Allow"
    BY <1>4, <1>5, <1>6, <1>7, <1>8, <1>9, <2>2
  <2> QED
    BY <1>4, <2>1, <2>2
<1> QED
  BY <1>10 DEF FindingsShown, removed, escaped

(* Whoever lets an action through has been shown what is wrong with it:    *)
(* each affected object outside the scope on stdout, each finalizer that   *)
(* goes on stderr, and ALLOW only for want of both (main.go:431-470), over *)
(* every scenario and every live cluster, of a call as in RunsDecideRight. *)
THEOREM FindingsAlwaysShown == StartsSane => (CSpec => [](PlainCall => FindingsShown))
<1> SUFFICES ASSUME StartsSane PROVE CSpec => [](PlainCall => FindingsShown)
  OBVIOUS
<1> DEFINE Told == PlainCall => FindingsShown
<1>1. CInit => JudgeSound /\ ReportPrinted
  BY DEF CInit, JudgeSound, ReportPrinted
<1>2. PathInv /\ JudgeSound /\ ReportPrinted /\ [CNext]_cvars => JudgeSound' /\ ReportPrinted'
  BY JudgeSoundKept, ReportPrintedKept DEF PathInv
<1>3. PathInv /\ JudgeSound /\ ReportPrinted => Told
  <2> SUFFICES ASSUME PathInv, JudgeSound, ReportPrinted, PlainCall,
                      shown # nothingShown, exit = "0"
               PROVE  FindingsShown
    BY DEF FindingsShown
  <2>1. phase = "checked"
    BY DEF PathInv, RunInv, UndecidedUntilScoped
  <2>2. GoodCall /\ GoodCheck
    BY <2>1, CallIsGood DEF GoodCheck, PlainCall
  <2>3. VInv
    BY <2>1, <2>2, BegunIsSound DEF JudgeSound
  <2> QED
    BY <2>1, <2>3, FindingsOfReport
<1> HIDE DEF Told
<1>4. CSpec => []Told
  BY <1>1, <1>2, <1>3, PathInvariant, PTL DEF CSpec
<1> QED
  BY <1>4 DEF Told

-----------------------------------------------------------------------------
(* What a run on a live cluster reports.                                   *)

(* What a live check that began to read has read so far.                   *)
LEMMA LiveHasRead ==
  ASSUME StartsSane, PathInv, asked.way = "live", phase \in {"resolve", "discover", "list", "checked"}
  PROVE  Ruled /\ ReadInv
<1>1. Ruled
  BY DEF StartsSane, Sane, Ruled
<1>2. ReadBegins \/ ReadInv
  BY DEF PathInv, ClusterInv
<1> QED
  BY <1>1, <1>2, FreshIsRead DEF ReadBegins

(* On a quiet cluster it has queued and recorded nothing without cause.    *)
QuietRun == asked.way = "live" => QuietSound

LEMMA QuietRunKept ==
  ASSUME StartsSane, OneGroup(Discoveries), PathInv, QuietRun, [CNext]_cvars
  PROVE  QuietRun'
<1> SUFFICES ASSUME asked.way = "live", phase' = "checked" PROVE QuietSound'
  <2>1. asked' = asked
    BY DEF CNext, Run, ShowUsage, RejectArgs, ChooseScenario, ChooseLive, Connect, ConnectFails,
           ReadCluster, ReadRequest, ReadContract, SkipContract, ReadScope, DeriveScope, LoadFails,
           ReadLive, Judge, Finish, Others, cvars, proceed, fail, startCheck
  <2> QED
    BY <2>1 DEF QuietRun, QuietSound
<1>1. phase \in {"resolve", "discover", "list", "checked"}
  <2>1. phase # "checked" => phase = "list"
    <3> SUFFICES ASSUME phase # "checked" PROVE phase = "list"
      OBVIOUS
    <3>1. phase \in {"contract", "scope"} \/ Build
      BY CheckStarts DEF PathInv
    <3>2. phase \notin {"contract", "scope"}
      BY DEF PathInv, ClusterInv
    <3> QED
      BY <3>1, <3>2 DEF Build
  <2> QED
    BY <2>1
<1>2. Ruled /\ ReadInv
  BY <1>1, LiveHasRead
<1>3. [LNext]_lvars
  BY <1>1, LiveStepsAre DEF PathInv, fromScenario
<1> QED
  BY <1>2, <1>3, QuietSoundKept DEF QuietRun

(* A run on a live cluster, whatever its command line (main.go:249-300,    *)
(* reader.go:24-26), if no kind is listed in two groups: collateral that   *)
(* is there throughout its read is reported, when nothing is written       *)
(* meanwhile report and exit code are right for the cluster as it is, and  *)
(* when a call fails there is no verdict.                                  *)
THEOREM LiveRunsReport ==
  StartsSane /\ OneGroup(Discoveries) =>
    (CSpec => [](asked.way = "live" =>
                   SteadyCollateralReported /\ QuietVerdictIsRight /\ NoVerdictOnPartialRead))
<1> SUFFICES ASSUME StartsSane, OneGroup(Discoveries)
             PROVE  CSpec => [](asked.way = "live" =>
                              SteadyCollateralReported /\ QuietVerdictIsRight /\ NoVerdictOnPartialRead)
  OBVIOUS
<1> DEFINE Reports == asked.way = "live" =>
                        SteadyCollateralReported /\ QuietVerdictIsRight /\ NoVerdictOnPartialRead
<1>1. CInit => QuietRun
  BY DEF CInit, QuietRun, QuietSound
<1>2. PathInv /\ QuietRun /\ [CNext]_cvars => QuietRun'
  BY QuietRunKept
<1>3. PathInv /\ QuietRun => Reports
  <2> SUFFICES ASSUME PathInv, QuietRun, asked.way = "live"
               PROVE  SteadyCollateralReported /\ QuietVerdictIsRight /\ NoVerdictOnPartialRead
    OBVIOUS
  <2>1. CASE phase \in {"resolve", "discover", "list", "checked"}
    <3>1. Ruled /\ ReadInv
      BY <2>1, LiveHasRead
    <3>2. NoVerdictOnPartialRead
      BY <3>1 DEF ReadInv, LiveInv, ReadBeforeVerdict, NoVerdictOnPartialRead
    <3> QED
      BY <3>1, <3>2, SteadyInAnswer, QuietOutcome DEF QuietRun
  <2>2. CASE phase \in {"args", "connect", "error"}
    <3>1. /\ pc = "idle" /\ decision = none
          /\ failed => phase = "error"
          /\ phase = "error" => exit = "1"
      BY <2>2 DEF PathInv, RunInv, UndecidedUntilScoped, ClusterInv, Fresh
    <3> QED
      BY <2>2, <3>1 DEF SteadyCollateralReported, QuietVerdictIsRight, NoVerdictOnPartialRead
  <2> QED
    BY <2>1, <2>2 DEF PathInv, ClusterInv
<1> HIDE DEF Reports
<1>4. CSpec => []Reports
  BY <1>1, <1>2, <1>3, PathInvariant, PTL DEF CSpec
<1> QED
  BY <1>4 DEF Reports
=============================================================================
