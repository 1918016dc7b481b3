------------------------------- MODULE Command -------------------------------
(***************************************************************************)
(* One run of krsm (src/cmd/krsm/main.go), from its command line to its    *)
(* exit code: the scenario path, which loads a directory file by file      *)
(* (src/internal/scenario/scenario.go), and the live path, which reads the *)
(* cluster as LiveCheck does.  Both run the walk, Safe and the mode, and   *)
(* print a report.                                                         *)
(*                                                                         *)
(* A directory is a record [cluster, request, contract, scope] of files    *)
(* [status, body]: status is "ok", "absent", "unreadable" or "malformed",  *)
(* the last for a file the YAML decoder refuses.  A run starts from a      *)
(* record [args, dir, cluster, served]; dir does not change while it is    *)
(* read.  The command line is parsed once, into asked, since nothing it    *)
(* depends on changes.                                                     *)
(***************************************************************************)
EXTENDS LiveCheck, CommandLine

Scenario == INSTANCE ScenarioLoad

CONSTANT Starts

VARIABLES
  args,        \* the command line
  asked,       \* what run makes of it
  dir,         \* the scenario directory it names
  source,      \* where the scope came from
  shown        \* what writeReport printed

cvars == <<lvars, args, asked, dir, source, shown>>

-----------------------------------------------------------------------------
noCheck == [verb |-> "", token |-> "", ns |-> "", name |-> "", mode |-> "audit"]

CInit ==
  /\ \E st \in Starts :
       args = st.args /\ asked = run(st.args) /\ dir = st.dir /\ cluster = st.cluster /\ served = st.served
  /\ check = noCheck
  /\ phase = "args"
  /\ Fresh
  /\ source = "" /\ shown = nothingShown

(* A step before the verdict, to the next phase.                           *)
proceed(next) ==
  /\ phase' = next
  /\ UNCHANGED <<queue, visited, affected, pc, decision, report, cluster, served, todo,
                 kindScope, got, moments, writes, failed, args, asked, dir, shown>>

fail == exitWithError /\ UNCHANGED <<failed, args, asked, dir, source, shown>>

-----------------------------------------------------------------------------
(* The command line.                                                       *)

ShowUsage ==
  /\ phase = "args"
  /\ asked.way = "usage"
  /\ exit' = "0"
  /\ proceed("usage")
  /\ UNCHANGED <<call, check, source>>

RejectArgs == phase = "args" /\ asked.way = "error" /\ fail

ChooseScenario ==
  /\ phase = "args"
  /\ asked.way = "scenario"
  /\ call' = [call EXCEPT !.mode = asked.mode]
  /\ proceed("cluster")
  /\ UNCHANGED <<check, source, exit>>

ChooseLive ==
  /\ phase = "args"
  /\ asked.way = "live"
  /\ check' = [verb |-> asked.verb, token |-> asked.target.kind, ns |-> asked.ns,
                name |-> asked.target.val, mode |-> asked.mode]
  /\ proceed("connect")
  /\ UNCHANGED <<call, source, exit>>

(* newLiveReader, then splitTarget.                                        *)
Connect ==
  /\ phase = "connect"
  /\ splits(asked.target)
  /\ proceed("resolve")
  /\ UNCHANGED <<call, check, source, exit>>

(* The kubeconfig may not resolve, whatever the target is.                 *)
ConnectFails == phase = "connect" /\ fail

-----------------------------------------------------------------------------
(* scenario.Load.                                                          *)

loads(file, parses) == file.status = "ok" /\ parses

ReadCluster ==
  /\ phase = "cluster"
  /\ loads(dir.cluster, Scenario!clusterParses(dir.cluster.body))
  /\ \E objs \in {Scenario!parseCluster(dir.cluster.body)} :
       call' = [call EXCEPT !.s = NewScanState(objs)]
  /\ proceed("request")
  /\ UNCHANGED <<check, source, exit>>

ReadRequest ==
  /\ phase = "request"
  /\ loads(dir.request, TRUE)
  /\ call' = [call EXCEPT !.a = Scenario!parseAction(dir.request.body)]
  /\ proceed("contract")
  /\ UNCHANGED <<check, source, exit>>

(* The scope is known: main calls Safe, and Safe calls Closure.            *)
startCheck(scope_, source_) ==
  /\ phase' = "checked"
  /\ call' = [call EXCEPT !.scope = scope_]
  /\ source' = source_
  /\ queue' = IF tracked(call.s, call.a.target) THEN {call.a.target} ELSE {}
  /\ pc' = "walk"
  /\ UNCHANGED <<visited, affected, decision, report, exit, check, cluster, served, todo,
                 kindScope, got, moments, writes, failed, args, asked, dir, shown>>

contractLoads ==
  loads(dir.contract, /\ Scenario!contractParses(dir.contract.body)
                      /\ Scenario!compilable(Scenario!parseTaskContract(dir.contract.body)))

ReadContract ==
  /\ phase = "contract"
  /\ contractLoads
  /\ startCheck(Scenario!Compile(Scenario!parseTaskContract(dir.contract.body)),
                "taskcontract.yaml")

(* Slip kept for checking: any failure to read counts as an absent file.   *)
SkipContractUnread ==
  /\ phase = "contract"
  /\ dir.contract.status \in {"absent", "unreadable"}
  /\ proceed("scope")
  /\ UNCHANGED <<call, check, source, exit>>

SkipContract ==
  /\ phase = "contract"
  /\ dir.contract.status = "absent"
  /\ proceed("scope")
  /\ UNCHANGED <<call, check, source, exit>>

scopeLoads == loads(dir.scope, Scenario!scopeParses(dir.scope.body))

ReadScope ==
  /\ phase = "scope"
  /\ scopeLoads
  /\ startCheck(Scenario!parseScope(dir.scope.body), "scope.yaml")

derived == "derived (ownership-tree)"

DeriveScope ==
  /\ phase = "scope"
  /\ dir.scope.status = "absent"
  /\ startCheck(Derive(call.a.target), derived)

(* cluster.yaml and request.yaml must be there, a scope file need not.     *)
LoadFails ==
  /\ \/ phase = "cluster" /\ ~loads(dir.cluster, Scenario!clusterParses(dir.cluster.body))
     \/ phase = "request" /\ ~loads(dir.request, TRUE)
     \/ phase = "contract" /\ ~contractLoads /\ dir.contract.status # "absent"
     \/ phase = "scope" /\ ~scopeLoads /\ dir.scope.status # "absent"
  /\ fail

-----------------------------------------------------------------------------
(* The live path, up to the walk; its scope is derived.                    *)
ReadLive ==
  /\ \/ Resolve \/ ResolveFails \/ Discover \/ List \/ ApiFails \/ BuildFails
     \/ Build
  /\ source' = IF phase' = "checked" THEN derived ELSE source
  /\ UNCHANGED <<args, asked, dir, shown>>

(* Both paths: Closure, Safe, Mode.Apply, then the report and the exit.    *)
Judge == (Walk \/ Decide \/ ApplyMode) /\ UNCHANGED <<liveVars, args, asked, dir, source, shown>>

Finish ==
  /\ Exit
  /\ shown' = writeReport(source, report)
  /\ UNCHANGED <<liveVars, args, asked, dir, source>>

Run ==
  \/ ShowUsage \/ RejectArgs \/ ChooseScenario \/ ChooseLive \/ Connect \/ ConnectFails
  \/ ReadCluster \/ ReadRequest \/ ReadContract \/ SkipContract \/ ReadScope \/ DeriveScope
  \/ LoadFails \/ ReadLive \/ Judge \/ Finish

Others == (ChangeApi \/ \E w \in Writes : Write(w)) /\ UNCHANGED <<args, asked, dir, source, shown>>

CNext == Run \/ Others

(* The program is one goroutine, and nothing ends it but its last step.    *)
CSpec == CInit /\ [][CNext]_cvars /\ WF_cvars(Run)

-----------------------------------------------------------------------------
CTypeOK ==
  /\ phase \in {"args", "usage", "error", "connect", "resolve", "discover", "list",
                "cluster", "request", "contract", "scope", "checked"}
  /\ phase = "checked" => VTypeOK
  /\ pc = "idle" <=> phase # "checked"
  /\ exit = "running" \/ (exit = "1" <=> phase = "error")
  /\ source \in {"", "taskcontract.yaml", "scope.yaml", derived}
  /\ shown.word \in {"", "ALLOW", "WARN", "BLOCK"}

-----------------------------------------------------------------------------
(* What the scope files say, read as they are written.                     *)

fromScenario == asked.way = "scenario"

(* The file that decides: the contract when there is one, or scope.yaml.   *)
declaring == IF dir.contract.status # "absent" THEN dir.contract ELSE dir.scope

entries == IF dir.contract.status # "absent" THEN dir.contract.body.allow ELSE dir.scope.body

(* An object is granted when it has everything the entry writes.  A kind   *)
(* or a group written outside gvk in a contract is still written.          *)
granted(e) ==
  LET gvks   == e.gvk \cup {[kind |-> e.kind, group |-> e.group]}
      kinds  == {g.kind : g \in gvks} \ {""}
      space  == Scenario!nsOf(IF kinds = {} THEN "" ELSE CHOOSE k \in kinds : TRUE, e.ns)
      sel    == Scenario!matchLabels(e.sel)
  IN  IF e.dim = "ownership"
        THEN UNION {OwnedTree(call.s, Scenario!refOf(r)) : r \in e.root}
        ELSE {o \in call.s.objs :
                /\ kinds \subseteq {o.ref.kind}
                /\ \A g \in gvks, i \in {1, 2} : g.group[i] \in {"", o.ref.group[i]}
                /\ o.ref.ns = space
                /\ e.name # {} \/ e.dim \in {"", "resource"} => o.ref.name \in e.name
                /\ e.dim = "selector" => ~isEmptySelector(sel)
                /\ Matches(sel, o.labels)}

(* The request names its target with the group and version it has.         *)
groupGiven ==
  tracked(call.s, call.a.target) => lookup(call.s, call.a.target).ref.group = call.a.target.group

nameOf(m) == <<m.kind, Scenario!nsOf(m.kind, m.ns), m.name>>

(* The three parts of a name with slashes between.                         *)
joined(h) == "uid:" \o h[1] \o "/" \o h[2] \o "/" \o h[3]

(* What a directory may hold: a sequence of manifests, no two of one kind, *)
(* namespace and name, and names that stay apart when they are joined, as   *)
(* names without a slash do; one object written before and one after.      *)
DirSane(d) ==
  (d.cluster.status = "ok" /\ d.request.status = "ok") =>
    LET files == d.cluster.body
        kinds == Scenario!kinded(files)
        names == {nameOf(kinds[i]) : i \in DOMAIN kinds} \cup {nameOf(d.request.body.target)}
    IN  /\ Len(files) \in Nat /\ DOMAIN files = 1..Len(files)
        /\ \A i, j \in DOMAIN kinds : nameOf(kinds[i]) = nameOf(kinds[j]) => i = j
        /\ \A h, k \in names : joined(h) # "" /\ (joined(h) = joined(k) => h = k)
        /\ \A p, q \in d.request.body.old : p = q
        /\ \A p, q \in d.request.body.new : p = q

(* An entry has nothing its file and its dimension do not read: kind and   *)
(* group are where the file has them, selector fields where they count.     *)
NoStray(d) ==
  LET plain(e) ==
        e.dim \notin {"selector", "ownership"} => isEmptySelector(Scenario!matchLabels(e.sel))
      single(S) == \A x, y \in S : x = y
  IN  /\ d.contract.status = "ok" =>
           \A e \in d.contract.body.allow :
             plain(e) /\ single(e.gvk) /\ e.kind = "" /\ e.group = noGroup
      /\ d.scope.status = "ok" =>
           \A e \in d.scope.body : plain(e) /\ single(e.root) /\ e.gvk = {}

(* What a run may start from: a scenario from such a directory, a live     *)
(* check from a server that keeps to its rules.                            *)
StartsSane ==
  LET clusters == {st.cluster : st \in Starts}
  IN  /\ \A st \in Starts :
           /\ run(st.args).way = "scenario" => DirSane(st.dir)
           /\ run(st.args).way = "live" => st.served \in Discoveries
      /\ Sane(Discoveries, clusters, Writes) /\ Orderly(Discoveries, everLive(clusters))

(* What the program makes its calls of: every object has a uid, which no   *)
(* object of another name has, and is found under it as itself or as its   *)
(* other version.  The reader lists a kind once for each of its versions   *)
(* (reader.go:193-197, docs/plans/v0.5-admission-webhook.md S3); where no  *)
(* object is there in two of them, which is so for every scenario, the     *)
(* State is one of distinct objects, as the theorems about Closure and     *)
(* Verdict assume.  The target's uid is that of the object it names, and   *)
(* it is written like that object but, in a request, for its group (uidOf, *)
(* scenario.go:275-277; build.go:62-87).                                   *)
CallsMeetAssumption ==
  pc # "idle" =>
    /\ \A o \in call.s.objs :
         /\ o.ref.uid # "" /\ tracked(call.s, o.ref)
         /\ lookup(call.s, o.ref).ref.uid = o.ref.uid
    /\ \A o, x \in call.s.objs : o.ref.uid = x.ref.uid =>
         human(o.ref) = human(x.ref) /\ (o.ref.group = x.ref.group => o = x)
    /\ fromScenario => oneVersionEach
    /\ oneVersionEach => WellFormed(call.s)
    /\ Consistent(call.s, call.a.target)
    /\ ModeKnown(call) /\ OnePayload(call)
    /\ tracked(call.s, call.a.target) /\ (fromScenario => groupGiven) => WrittenAsListed(call)

(* An action is let through in enforce mode only if every object it        *)
(* affects has everything that some entry of the scope file writes, and it *)
(* is stopped only for one that has not.  No field of an entry is passed   *)
(* over: a stray one "is surfaced rather than silently dropped"            *)
(* (scope.go:192-194, model.go:187-195, scenario.go:562-565 and 588-591).  *)
ScopeAsWritten ==
  (fromScenario /\ exit \in {"0", "2"} /\ call.mode = "enforce" /\ declaring.status # "absent") =>
    LET hit     == affectedObjects
        allowed == UNION {granted(e) : e \in entries}
    IN  /\ exit = "0" => hit # {} /\ hit \subseteq allowed
        /\ exit = "2" /\ groupGiven => hit = {} \/ ~(hit \subseteq allowed)

dimensions == {"", "resource", "selector", "namespace", "ownership"}

(* A verdict on a scenario is never given on a scope that was meant        *)
(* otherwise: a file that is there and cannot be read, or with one entry   *)
(* of an unknown dimension, operator or severity, leaves exit code 1 and   *)
(* nothing to act on; the scope is derived only when both files are absent *)
(* (scenario.go:96-98, scope.go:11-13).                                    *)
FailsClosedOnScope ==
  (fromScenario /\ exit # "running") =>
    /\ (\/ declaring.status \in {"unreadable", "malformed"}
        \/ /\ declaring.status = "ok"
           /\ \E e \in entries :
                \/ e.dim \notin dimensions
                \/ e.dim = "ownership" /\ e.root = {}
                \/ e.dim = "selector" /\ \E i \in DOMAIN e.sel.exprs :
                     e.sel.exprs[i].op \notin Operators
        \/ /\ dir.contract.status = "ok"
           /\ dir.contract.body.maxSeverity \notin Scenario!severities)
         => exit = "1" /\ shown = nothingShown
    /\ source = derived <=> /\ shown # nothingShown
                            /\ dir.contract.status = "absent" /\ dir.scope.status = "absent"

-----------------------------------------------------------------------------
(* The same cluster read from the API server: uids are of its own making,  *)
(* and an ownerReference carries the uid of the object it names, in the    *)
(* namespace of the object that carries it or in none.                     *)
docs == Scenario!kinded(dir.cluster.body)

apiUID(m) == "api-" \o joined(nameOf(m))

apiOwners(m) ==
  {apiUID(x) : x \in {docs[i] : i \in {j \in DOMAIN docs :
     \E o \in m.owners : /\ docs[j].kind = o.kind /\ docs[j].name = o.name
                         /\ Scenario!nsOf(o.kind, docs[j].ns) \in
                              {"", Scenario!nsOf(m.kind, m.ns)}}}}

apiItem(m) ==
  [kind |-> m.kind, ns |-> Scenario!nsOf(m.kind, m.ns), name |-> m.name, uid |-> apiUID(m),
   labels |-> m.labels, selector |-> m.selector, owners |-> apiOwners(m), refs |-> m.refs,
   finalizers |-> m.finalizers, apiVersion |-> m.apiVersion]

(* The resource a manifest is of, as discovery names it.                   *)
apiResource(m) ==
  [group |-> m.apiVersion[1], version |-> m.apiVersion[2], name |-> m.kind, kind |-> m.kind,
   namespaced |-> m.kind \notin Scenario!clusterScopedKinds, verbs |-> {"list"},
   subresource |-> FALSE, tokens |-> {m.kind}]

(* The reader lists some kinds only (selectTargets, reader.go:175-207).  *)
apiItems == [i \in {j \in DOMAIN docs : wanted(apiResource(docs[j]))} |-> apiItem(docs[i])]

apiScope ==
  [g \in {<<docs[i].apiVersion, docs[i].kind>> : i \in DOMAIN docs} |->
     g[2] \notin Scenario!clusterScopedKinds]

(* Manifests that an API server could hold as they are written and that    *)
(* the reader would list: each has a name and is of a kind that is listed, *)
(* every name in them stays apart from the others when it is joined, a     *)
(* manifest has one selector at most, and owners are in the namespace of   *)
(* what they own.                                                          *)
Deployable(d) ==
  (d.cluster.status = "ok" /\ d.request.status = "ok") =>
    LET kinds == Scenario!kinded(d.cluster.body)
        space(m) == Scenario!nsOf(m.kind, m.ns)
        written(m) == {nameOf(m)} \cup {<<o.kind, space(m), o.name>> : o \in m.owners}
                                 \cup {<<r.to, space(m), r.name>> : r \in m.refs}
        names == {nameOf(d.request.body.target)} \cup UNION {written(kinds[i]) : i \in DOMAIN kinds}
    IN  /\ \A h, k \in names : joined(h) # "" /\ (joined(h) = joined(k) => h = k)
        /\ \A i \in DOMAIN kinds : apiUID(kinds[i]) # ""
        /\ \A i, j \in DOMAIN kinds :
             apiUID(kinds[i]) = apiUID(kinds[j]) => nameOf(kinds[i]) = nameOf(kinds[j])
        /\ \A i \in DOMAIN kinds :
             /\ wanted(apiResource(kinds[i])) /\ kinds[i].name # ""
             /\ \A v, w \in kinds[i].selector : v = w
             /\ kinds[i].kind \in Scenario!clusterScopedKinds \/
                  \A o \in kinds[i].owners : o.kind \notin Scenario!clusterScopedKinds

(* A check of a scenario reports what a check of the cluster its manifests *)
(* describe would: the loader's made-up uids, namespaces and owners change *)
(* nothing (model.go:51-52, parity_test.go:27-30).                         *)
SameAsLive ==
  (fromScenario /\ pc = "returned" /\ decision = none) =>
    LET live_  == NewScanState(BuildObjects(apiItems, apiScope))
        action == [call.a EXCEPT !.target.uid = ""]
    IN  {human(r) : r \in members} = {human(o.ref) : o \in AffectedObjects(live_, action)}

-----------------------------------------------------------------------------
(* The values given to the flags of one of these names, the last first to  *)
(* count.                                                                  *)
given(names) ==
  {<<i, args[i].value>> : i \in {j \in DOMAIN args : args[j].form = "eq" /\ args[j].name \in names}}
  \cup
  {<<i, asValue(args[i + 1])>> :
     i \in {j \in DOMAIN args \ {Len(args)} : args[j].form = "flag" /\ args[j].name \in names}}

lastGiven(names) == {asString(g[2]) : g \in {x \in given(names) : \A y \in given(names) : y[1] <= x[1]}}

(* A command line in which a flag that takes a value is followed by a word *)
(* and not by another flag, and no namespace is empty.                     *)
Legible(line) ==
  LET takesNext(i) == line[i].form = "flag" /\ line[i].name \in valued \cup {"namespace"}
      value(i) == IF line[i].form = "eq" THEN line[i].value ELSE asValue(line[i + 1])
  IN  /\ line \in Seq([form : {"word", "flag", "eq"}, name : STRING,
                       value : [slash : BOOLEAN, kind : STRING, val : STRING]])
      /\ \A i \in DOMAIN line : line[i].form = "word" => line[i].name = ""
      /\ \A i \in DOMAIN line \ {Len(line)} : takesNext(i) => line[i + 1].form = "word"
      /\ \A i \in DOMAIN line :
           /\ line[i].name \in {"n", "namespace"}
           /\ line[i].form = "eq" \/ (line[i].form = "flag" /\ i # Len(line))
           => value(i) # text("")

(* No argument is passed over: a verdict is given under the last mode      *)
(* written, wherever it stands, and a live one on the last namespace and   *)
(* the target written; any other word is refused (main.go:192-197 and      *)
(* 238-253).                                                               *)
NothingIgnored ==
  shown # nothingShown =>
    /\ lastGiven({"mode"}) \subseteq {call.mode}
    /\ ~fromScenario =>
         /\ lastGiven({"n", "namespace"}) \subseteq {call.a.target.ns}
         /\ \E i \in DOMAIN args : args[i] = word(path(check.token, call.a.target.name))

(* Who lets an action through has seen what is wrong with it: every        *)
(* affected object outside the scope on stdout, every finalizer it removes *)
(* on stderr, and ALLOW only when there is neither (main.go:431-434 and    *)
(* 455-458, "rather than silently dropping the External detail").          *)
FindingsShown ==
  (shown # nothingShown /\ exit = "0") =>
    LET escaped == {human(o.ref) : o \in unauthorised}
        removed == IF call.a.verb \in {"update", "patch"} /\ call.a.old # {} /\ call.a.new # {}
                     THEN (UNION {p.finalizers : p \in call.a.old})
                            \ UNION {p.finalizers : p \in call.a.new}
                     ELSE {}
    IN  /\ escaped \subseteq {human(r) : r \in shown.out}
        /\ removed = {r.name : r \in shown.err}
        /\ shown.word = "ALLOW" => escaped = {} /\ removed = {}
        /\ shown.word = "WARN" /\ groupGiven => escaped # {} \/ removed # {}

(* An action is let through only if its verb is one the closure knows:     *)
(* "an unknown blast radius must never be silently admitted"               *)
(* (DESIGN.md:96).  The loader does not look at the verb.                  *)
OnlyKnownVerbsAllowed ==
  (shown # nothingShown /\ exit = "0") =>
    call.a.verb \in {"delete", "update", "patch", "scale", "restart"}

(* Every run comes to an exit code, if every API call is answered.         *)
CommandAnswers == <>(exit # "running")
=============================================================================
