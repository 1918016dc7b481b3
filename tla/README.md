# A verification project for KRSM

KRSM decides, before a change is made to a Kubernetes cluster, whether the change stays inside
the scope of a task. Its core is one question: which objects does an action really affect?
`closure.Closure` answers it by walking the live graph, `closure.Safe` compares the answer with
a declared or derived scope, and `krsm check` turns the comparison into an exit code, over a
YAML scenario or over a live cluster.

This directory holds TLA+ modules that model that pipeline, TLC configurations that check it on
small clusters, and proofs, checked by TLAPS, that on every cluster the walk computes what it is
said to compute, that verdict, exit code and report follow from that, and that the loader and the
live reader hand it nothing it does not hold for. `PROJECT.json` indexes it: which definition
translates which lines of the source, which run checks what, which hazards of the code each property
is for.

Contents: [Inventory](#inventory) · [Modules](#modules-and-how-they-correspond-to-the-code) ·
[Runs](#runs) · [Bounds](#bounds-and-why-they-are-enough) · [Fairness](#fairness) ·
[Disagreements found](#where-the-code-and-what-is-said-of-it-disagree) · [Proofs](#proofs) ·
[Not modelled](#not-modelled) · [Plan](#plan)

## Inventory

| Component | Source | State it keeps | Operations | Status |
|---|---|---|---|---|
| closure walk | `closure/closure.go` | work list, visited keys, map key → ref | `Closure`, the two mutation helpers, `ExternalEffects` | modelled, proved |
| effect classes | `closure/classify.go` | none | `classify`, payload comparisons | modelled |
| domain model, selectors | `closure/model.go`, `selector.go` | none | identity, selector matching, clauses, `ScopeClause.Validate` | modelled |
| linear-scan state | `closure/state.go` | objects, `byUID`, `byHuman` | `NewScanState`, the methods of `State` | modelled |
| verdict | `closure/safe.go` | memo of ownership subtrees | `Safe`, clause matching | modelled, proved |
| scope | `scope/scope.go` | none | `Derive`, `Mode.Apply`, `Compile` | modelled, proved |
| live reader | `internal/cluster/reader.go` | what it has listed so far | `ResolveKind`, `State` | modelled, proved |
| object builder | `internal/cluster/build.go`, `crossref.go`, `selector.go`, `index.go` | name → uid index | `BuildObjects` | partly: the layout of pod specs and malformed fields are abstracted |
| check command | `cmd/krsm/main.go` | exit code | the command line, offline and live `check` | modelled but for the resolution of a kubeconfig |
| scenario loader | `internal/scenario/scenario.go` | none | files → objects, action, scope | partly: the YAML decoder and the layout of pod specs are abstracted |
| report writer | `cmd/krsm/main.go` | none | `writeReport` | partly: which findings are shown where; not their text |
| import guard, end-to-end suite, reader role, webhook documents | | | | not modelled, see below |

**How they interact.** `krsm check` is one goroutine. Offline it loads a scenario, calls
`Safe(state, action, scope)`, applies the mode, prints and exits. Live it resolves the kind with
one discovery, builds a `State` with another discovery and one `List` per selected resource,
derives the scope from the target, and goes on the same way. `Safe` calls `Closure`, and both ask
the same immutable `State`; the clause matcher asks it again for labels and for the subtree an
ownership clause names. Nothing is persisted, so there is no restart to recover from; the one
actor beside the check is everybody else who writes to the cluster while it is read.

**What is hard.**

* *Order of expansion.* The work list is a FIFO that is filled partly from Go maps, whose order
  is random; bindings are recorded without being queued. The answer must not depend on the order.
* *Identity.* One object has a uid, a name, and two refs when the target was given without uid.
  Deduplication, lookup and ownership clauses each use them differently.
* *Classes are fixed, the walk is not.* The effect classes come from the target alone and then
  license relations at every hop.
* *Absence.* A nil selector binds nothing, an empty one everything but for a Service; a missing
  map key reads as `""`.
* *Two meanings of one value.* An empty closure means an unknown target; a `Block` without
  escapes is the fail-closed one, and audit must not soften it.
* *A read that is not atomic.* Every list has its own moment, any call may fail, and an API may
  come or go between the two discoveries.
* *What is written and what is read.* A directory holds up to four files, two of which say the
  scope, in two formats; a field that one kind of entry ignores, an argument after the directory
  or a report case in the wrong order loses information without an error.

**What makes each component correct.**

* Walk: it ends on cyclic owners; its answer is exactly the least set closed under the licensed
  relations, with the bindings of its pods, whatever the order; each object once; empty exactly
  for an unknown target; both sides of a mutation reported.
* Verdict: `Block` exactly when the target is unknown or an affected object is outside every
  clause; audit softens escapes and nothing else, and hides no evidence; clauses are alternatives;
  the derived scope covers what the target owns and nothing else.
* Live reader: what is there throughout the read is never lost; a read that failed gives no
  verdict; a read with no write beside it decides as the live cluster demands; every check answers.
* Builder: identity, namespaces and references come out as the ones the live objects have.
* Loader: a scope that cannot be read is never taken for an absent one; an entry grants what it
  writes and no more; the state it builds answers as a live read of the same objects would.
* Command line and report: no argument is passed over; who lets an action through has been shown
  what is wrong with it.

The full list of hazards, each at its line and with the properties that cover it, is in
`PROJECT.json`.

## Modules and how they correspond to the code

```
KrsmModel      identity, selectors, effect classes           model.go selector.go classify.go
  ScanState    the State interface over a set of objects      state.go
    AffectedSet    the closure said without a walk            (specification)
      Closure      the breadth-first walk                      closure.go
    ScopeClauses   clauses, what they cover, the derived one   model.go safe.go scope.go
      Contract     what is a valid clause and contract         model.go scope.go
        ScenarioLoad  the files of a scenario, pure            scenario.go
    LiveBuild      selection and building, pure                reader.go build.go index.go ...
    KrsmWorlds     the clusters and actions of the runs
  Verdict        Closure and ScopeClauses: Safe, mode, exit    safe.go scope.go main.go
    LiveCheck    Verdict and LiveBuild: the live read          reader.go main.go
      Command    LiveCheck, ScenarioLoad and CommandLine: a whole run of krsm   main.go scenario.go
CommandLine      arguments and report, pure                    main.go
AbstractClosure  one call, one answer                          (specification)
MCClosure MCVerdict MCLive MCCommand    constants for TLC
ClosureProofs                  theorems about Closure
  VerdictProofs                about Verdict
    LiveProofs                 about LiveCheck, whatever the server answers
      SnapshotProofs           what a read collects, and what is made of it
        TornProofs             a read that others write beside
          CommandProofs        about Command
            ScenarioProofs     what the files of a scenario say, and what is made of it
            LineProofs         what the command line says
```

**Data.** A ref is a record of kind, group, namespace, name and uid, and `group` is the pair of group
and version; `noGroup` has neither, and a clause may gate on one without the other. Labels are functions from a finite set of keys
to strings. A selector keeps the nil / non-nil distinction of the Go map. Of an owner reference
only the uid is kept, because nothing else of it is read. A name pattern is the set of names it
accepts. Refs are compared and filed by `key` and `human`, as in the code.

**Closure.** State: `call` (the arguments), `queue`, `visited`, `affected` (the Go map from
`Ref.key()` to `Ref`) and `pc`. One step pops one ref: `Skip` is the early `continue`, `Expand`
the whole body of the loop (record, steps 1 to 6b that append to the queue, step 7 that records
the bindings of a pod), `Return` the end of the loop. `queue` is a set, and any member may be
popped next: this covers the FIFO of the code and every order a Go map may be ranged in, and
duplicates in the queue, which `visited` drops, are merged.

**AffectedSet and AbstractClosure.** What the walk is for, said without refs, keys or queues: the
relations hold between objects, and the answer is the intersection of all sets of objects that
contain the target, contain what the mutation binds, and are closed under the licensed relations,
together with the objects that bind one of their pods. `AbstractClosure` is the one-step machine
that gives this answer; `Closure!Abs` is the refinement mapping.

**Verdict.** `Walk` is any step of `Closure`; `Decide` is the rest of `Safe`, `ApplyMode` is
`Mode.Apply`, `Exit` the exit code. `VerdictCallsAssumption` says what the callers of `Safe` give
it. The memo of ownership subtrees is left out: each subtree is computed anew, and
`RememberedSubtreesAreRight` shows that in every run the memo gives the same. Escapes and their
order in the report are kept as sets. The property side (`OwnedTree`, `Authorised`, `unauthorised`) is written over
objects, not over refs and keys.

**LiveBuild and LiveCheck.** One action per API call or pure stage of `runCheckLive`:
`Resolve`/`ResolveFails` (parse the verb, discover, resolve the kind), `Discover` (the second
discovery and the selection), `List` (one resource), `ApiFails` (any call), `Build`/`BuildFails`
(items → objects → state → derived scope), `Verify` (any step of `Verdict`). The environment is
`Write` (another client removes, creates or replaces objects, between any two calls) and
`ChangeApi` (an API appears or goes between the discoveries). `moments`, `writes` and `failed` are
history: the clusters that were live during the read, the number of writes, whether a call failed.

**CommandLine, Contract and ScenarioLoad.** Pure. An argument is a word, a flag, or a flag with its
value, and a value is one text or two around a slash, because that is all the code looks at;
`parseFlags` is the part of Go's `flag` package that matters here: it stops at the first
positional, and a flag that takes a value takes whatever follows. What is made of the arguments is
a recursive function of how many have been read (`parsed`, `extracted`). A file is what the YAML decoder
makes of it: manifests, a request, a set of scope entries, a contract. What may be absent is a set
of at most one element, and a function of the code that may return an error is a pair here, for
example `scopeParses` and `parseScope`.

**Command.** A run of the program from `main` on: the command line is parsed (`ShowUsage`,
`RejectArgs`, `ChooseScenario`, `ChooseLive`), then either `scenario.Load` reads one file a step
(`ReadCluster`, `ReadRequest`, `ReadContract` or `SkipContract`, `ReadScope` or `DeriveScope`, with
`LoadFails` at each) or the live path runs (`Connect`, `ConnectFails`, and `ReadLive`, any step of
the read in `LiveCheck`); both meet in `Judge`, any step of `Verdict`, and `Finish`, which prints
and exits. A file is "ok", "absent", "unreadable" or "malformed", and the code tells the second
from the third: that is what decides whether the next source of a scope is tried.
`asked` keeps what the parser makes of the arguments, and `shown` what was printed.

**Forms kept for checking.** A definition whose comment says *Slip kept for checking* is never used
by a specification. It is a plausible mistake in the definition that follows it (a dropped guard,
one payload instead of two, a missing lookup), kept so that each property can be shown to notice
one: put in place of the definition, it makes TLC report the property the index pairs it with.

## Runs

Each run answers one question. The four of this table hold; eight more show a place where the code does
not do what a comment or document of the repository says (see below).

| Run | Question | Properties |
|---|---|---|
| `closure` | In every order of expansion, does the walk end with exactly the affected objects, and never lose or split what it recorded? | `TypeOK` `MembersResolve` `BindingsRecorded` `EmptyIffUntracked` `EachObjectOnce` `DirectHarmReported` `RebindingReported` `ReselectionReported` `StaysInNamespace` `OnlyGrows` `Terminates` `ComputesAffectedObjects` |
| `verdict` | Are verdict and exit code right for scopes of every dimension, both modes, declared and derived? | `VTypeOK` `VerdictMatchesScope` `ExitMatchesScope` `EvidenceKept` `DerivedScopeFlagsCollateral` `WiderScopeNeverStricter` `Answers` |
| `live` | What survives a read that others write beside, with any call failing? | `LTypeOK` `SteadyCollateralReported` `QuietVerdictIsRight` `NoVerdictOnPartialRead` |
| `command` | Over whole runs, from arguments and files to report and exit code: is what is written what is decided on, and does every run end? | `CTypeOK` `CallsMeetAssumption` `ScopeAsWritten` `FailsClosedOnScope` `SameAsLive` `NothingIgnored` `FindingsShown` `CommandAnswers` |

What they show, beyond what unit tests of the code reach:

* `ComputesAffectedObjects` compares the walk, step by step and in every order, with a
  definition that knows neither refs nor keys. `DirectHarmReported`, `RebindingReported` and
  `ReselectionReported` do not go through `classify`, so a class that is missing there shows.
* `VerdictMatchesScope` and `ExitMatchesScope` recompute the verdict from the objects of the
  cluster. `DerivedScopeFlagsCollateral` ties the two meanings of *owned* together: the cascade of
  the walk and the subtree of the ownership clause.
* `SteadyCollateralReported` is what a read of many lists can promise: along objects that
  are there unchanged throughout the read, nothing is lost. `QuietVerdictIsRight` compares the
  outcome of an undisturbed read with the live cluster itself. The targets of the live command line
  carry neither uid nor group, so every relation has to be resolved through `lookup` there.
* `ScopeAsWritten` goes from the entries of a file to the exit code: an object is granted only if
  it has everything some entry writes. It does not use the clauses the loader makes, so a field
  that is lost on the way shows. `SameAsLive` reads the same manifests as an API server would hold
  them, with uids, owners and namespaces of its own, through `BuildObjects`, and compares the
  closures: the parity that `parity_test.go` samples.
* `CallsMeetAssumption` ties the two halves of the project together: what the proofs assume of a
  call, `CallsAssumption` and `VerdictCallsAssumption`, holds for every call a run makes, on both
  paths, if no object is in the state once for each of two versions of its kind (`oneVersionEach`).
  The reader does put it there twice: `docs/plans/v0.5-admission-webhook.md` says so of
  HorizontalPodAutoscaler (S3), and the run lists one in two versions and writes to it between the two
  lists. For such a call the property says how much is left: the two have one name and
  one uid, and a lookup finds one of them.
* `NothingIgnored` and `FindingsShown` are about information that is lost without an error: an
  argument that is not looked at, a finding that no case of the report prints.

To repeat a run: `tlc -config MCClosure.cfg MCClosure`. `CHECK_DEADLOCK FALSE` stands in every
configuration because the program is meant to stop: it returns, or exits.

## Bounds and why they are enough

* **Clusters of the walk** (`KrsmWorlds`): ten objects, in which every relation occurs and meets
  another: an ownership chain of three with a pod at its end, which may own the top of the chain
  (a cycle through the target); a second pod bound by selector without being owned, so disruption
  and cascade differ; a binder (Service or PodDisruptionBudget) that owns a slice, so that
  recording a binding without expanding it can be told from expanding it; a mounted ConfigMap, owned or not; an
  autoscaler; a pod of the same name in another namespace. Selectors range over nil, empty, a
  label, and a `NotIn` expression.
  A few smaller clusters hold two Namespaces of which one may own the other.
* **Actions**: every verb, every kind of target with a relation of its own, a target that does not
  exist, cascading and not, mutations of labels and selectors with one or both payloads.
* **Scopes**: each dimension, the empty scope, the unknown dimension, the empty selector, clauses
  that overlap, derived scopes with and without uid; finalizers removed, kept and added.
* **`MaxWrites` = 2**: a single write leaves a mixture of two moments; two are the least that make
  a mixture which resembles neither (`live_torn`). Writes create, delete, relabel and replace
  under a new uid. The API has up to twelve resources, among them a subresource, a kind in two
  versions, a resource that cannot be listed, one without verbs, a built-in kind that is not
  followed and a custom one.
* **Command lines**: both forms of a flag, flags before and after the positionals, a flag that
  swallows the next word, one given twice, values that are refused, too few and too many words.
* **Directories**: two clusters. One has every relation, two namespaces, a cluster-scoped kind,
  defaulted and written namespaces and a document without a kind, and only kinds that the live reader
  lists, so that the comparison with it is a fair one; the other a chain of owners listed
  from the bottom up, a policy that binds everything and a mounted claim. Requests of every verb, with
  and without payloads and the group of the target; scopes of every dimension, valid and refused
  for each reason `Validate` and the parser have; contracts likewise; each file absent, unreadable
  and malformed, where that decides anything. The live starts of `command` are few, because `live` has them; their
  API serves autoscalers in two versions, and one is live.

## Fairness

`Spec` and `VSpec` assume `WF(Next)`: the code is a loop on one goroutine with nothing to wait
for, so while it can take a step it takes one. `LSpec` assumes `WF(Step)` of the check's own
steps, not of the environment: every API call is answered or fails. The code does not bound a
call (`context.Background()`, `main.go:260`), so this is an assumption about the server, and a
server that stays silent keeps the check waiting. `WF(Step)` does not ask for success: a call may
fail each time. `CSpec` assumes the same of `Run`, any step of the program; reading a local file
always comes to an answer. Other clients' writes are never assumed to happen. The files of a
directory do not change while they are read: the code opens each once, in order, and nothing in it
speaks of another writer.

## Where the code and what is said of it disagree

Each row is a run in which TLC finds the stated property violated; `PROJECT.json` quotes both sides.

| Run | Property | What happens |
|---|---|---|
| `closure_blank` | `RebindingReported` | `{tier: ""}` → `{app: ""}` counts as no change of labels, so what the change makes bind the pod is not reported. What bound it before is: that is recorded with every pod. |
| `closure_owned_config` | `DeletedConfigBreaksConsumers` | A ConfigMap deleted with its owner does not bring in the pods that mount it. |
| `live_torn` | `AllowedAtSomeMoment` | Two writes between the lists: an action is allowed that escaped its scope at every moment. |
| `live_group` | `TargetIsOfResolvedResource` | A resource of another group with the same kind, namespace and name answers for the target. |
| `live_space` | `NamespaceFullyReported` | Deleting a Namespace does not report its Ingresses and Roles, which are never listed. |
| `command_dropped` | `ScopeAsWritten` | Selector fields on a namespace or resource entry are dropped, and the entry grants more than it writes. |
| `command_owner` | `SameAsLive` | A cluster-scoped owner is looked for in the namespace of what it owns: a pod that a Namespace owns from outside is not in the closure of that Namespace's deletion, though a check of the cluster reports it. |
| `command_verb` | `OnlyKnownVerbsAllowed` | A verb in `request.yaml` that no effect class knows is allowed, with the target as its closure. |

They follow from few choices: a missing map key reads as `""` and a nil map as an empty one; an
identity without uid leaves out the group, and differs from the identity with it; classes are taken
from the target alone; each resource is listed at its own moment, and not every resource is; and the
loader makes uids up and keeps of an entry what its dimension reads.

More were met while reading, and have no run of their own.

* A target without uid is filed by name, and by uid when a relation leads back to it, so the
  closure lists it twice, against "expands each resource at most once" (`closure.go:14`); the
  property test draws targets with uids only. `EachObjectOnce` is checked and proved for those.
* An absent selector and `{}` count as equal (`selector.go:33`), so a PodDisruptionBudget that goes
  from one to the other is no selector mutation, though `{}` binds every pod of its namespace.
* `LabelSelector.Matches` (`selector.go:101`) reads a missing label as `""` too, so a scope clause
  with `{app: ""}` covers objects without the label.
* Containment is licensed by the kind of the popped ref, so a Namespace that the target Namespace
  owns is expanded like the target, against the comment at `closure.go:43-44`; `AffectedSet` follows
  the code in this.
* The demonstration of `README.md:56-67` runs in the default audit mode (`main.go:159`), which
  warns where the README shows a block.
* A namespace entry without a namespace is not refused (`model.go:192`): the loader has made it
  `default` by then (`scenario.go:598`). A contract entry with the kind at its top level, where
  `scope.yaml` has it, loses the kind and is accepted without the gate; a `root` there is dropped.
* `-n` is accepted and ignored on the offline path (`main.go:162`), and `-n Kind/name` is refused
  after the verb (`main.go:311-316`) but not before it; the target is then unknown, and denied.
* A `Block` prints its escapes and not the external effects found with them (`main.go:445-447`).
* A namespace clause with a group and no kind is printed without the group (`main.go:520-522`).
* A request whose target is written with another group than its object has is held against a clause
  by the group as written (`safe.go:213`): a clause of that group covers it, whatever its real one.
* A namespace after the target that is empty (`-n=`) does not take back one from before it
  (`main.go:245-247`), and a flag without its value takes the next argument for it, another flag too,
  as Go's `flag` package has it (`main.go:155-169`).
* The memo of ownership subtrees is filed under the uid of a root when it has one
  (`safe.go:111`), but a uid that no object has is looked up by name (`state.go:61-69`), so two roots
  with such a uid would share an entry. No run notices (`RememberedSubtreesAreRight`).
* A manifest without a kind is skipped (`scenario.go:438`), and two kinds of one name in different
  groups get one uid (`scenario.go:275`).

## Proofs

Each theorem holds for every value of the constants that meets the assumption it names, and so for
every cluster, scope, command line, directory and order of expansion, and any number of writes.

| Theorem | Module | Says | Assumes |
|---|---|---|---|
| `WalkInvariant` | `ClosureProofs` | `IInv` is an invariant of `Spec` | `CallsAssumption`, and so to the end of this block |
| `TypesHold`, `MembersAlwaysResolve` | | what the walk holds is typed and can be looked up again | |
| `WalkComputesAffectedObjects` | | `Closure` implements `AbstractClosure`: its answer is the least closed set with its bindings | |
| `EmptyExactlyWhenUntracked` | | the answer is empty exactly for an unknown target | |
| `BindingsAlwaysRecorded` | | at every step, a pod in the closure has its bindings there | |
| `WalkOnlyGrows` | | no step takes back what was reported; at most one key is expanded a step | |
| `KeyedTargetsReportOnce` | | no object is reported twice | targets have the uid of their object |
| `DirectHarmIsReported` | | what breaks at once is reported, whichever verb breaks it | |
| `RebindingIsReported`, `ReselectionIsReported` | | what a relabelled pod, or a changed selector, binds before or after is reported | `ChangesShow` |
| `OtherVerbsStayInNamespace` | | only a deletion leaves the namespace of its target | `ReferencesStayHome` |
| `CheckInvariant`, `VerdictTypesHold` | `VerdictProofs` | what each step after the walk leaves behind | `VerdictCallsAssumption`, and so to the end of this block |
| `VerdictIsRight`, `ExitIsRight` | | verdict and exit code are those the objects of the cluster and the clauses demand | |
| `DerivedScopeIsOwnership` | | under the derived scope, what escapes a cascading deletion is what the target does not own | |
| `WiderScopeIsKinder`, `ModeKeepsEvidence` | | clauses are alternatives; a mode hides nothing | |
| `LiveInvariant`, `LiveTypesHold` | `LiveProofs` | what each phase of a live check leaves behind, and types | |
| `NoVerdictAfterFailure` | | a failed discovery or list leaves exit code 1 and no verdict | |
| `SteadyIsCovered` | `SnapshotProofs` | collateral that is there unchanged throughout a read is reported | `Sane`, `OneGroup` |
| `QuietVerdictHolds` | | a read that nobody writes beside reports what the action affects in the live cluster, with the right exit code | `Sane`, `OneGroup` |
| `TornVerdictHolds` | `TornProofs` | beside any writes, verdict and exit code are right for the state that was read, under the scope derived from it, if it has no object in two versions | `Sane`, `Orderly` |
| `ScopeFailsClosed` | `CommandProofs` | a scope file that is there decides, or the run ends with exit code 1 | |
| `CommandTypesHold` | | types, over whole runs | |
| `CallsAlwaysMeetAssumption` | | in every call a run makes objects are found under uids of their own, up to versions of one; without two versions of one object it meets what the theorems above assume of calls | `StartsSane` |
| `RunsDecideRight` | | over whole runs, verdict and exit code are the right ones, under every scope a run can have | `StartsSane`, `PlainCall` |
| `FindingsAlwaysShown` | | who lets an action through has been shown what is wrong with it | `StartsSane`, `PlainCall` |
| `LiveRunsReport` | | the three properties of a live check, for a run from its command line on | `StartsSane`, `OneGroup` |
| `ScopesDecideAsWritten` | `ScenarioProofs` | enforced, a scope file lets through what its entries, as written, grant, and nothing else | `StartsSane`, `NoStray`, `groupGiven` |
| `ScenariosAnswerAsClusters` | | a scenario reports, name by name, what a check of the cluster its manifests describe would | `StartsSane`, `Deployable` |
| `RememberedSubtreesAreRight` | | ownership clauses whose roots have one key name one subtree, so the memo of `Safe` changes nothing | `StartsSane` |
| `ArgumentsAlwaysCount` | `LineProofs` | a verdict is given under the last mode, the last namespace and a target that is written | `Legible` |

**Assumptions.** TLC evaluates those about constants on the constants of a run, so there are values
that meet them; `oneVersionEach`, `groupGiven` and `PlainCall` speak of a state.

* `CallsAssumption`: in every call the state's maps index its objects, which have distinct
  identities (`WellFormed`), and the target's uid, when it has one, belongs to the object its other
  fields name (`Consistent`). That is what `NewScanState` makes of objects with a uid each, its own. It
  leaves out an object that is listed in two versions of its kind.
* `VerdictCallsAssumption`: the mode is one of the two, there is at most one payload before and
  one after, and the target is written like the object it names in what a clause reads
  (`WrittenAsListed`): the group, if a clause asks for one, and the key, if an ownership clause has
  another root. A derived scope always satisfies it.
* Neither is assumed of a live check or of a run. `ChecksAssumption` only says that a check has
  one of the two modes; its calls and those of a run are shown to meet the rest.
* `ChangesShow` (TLC: `MutationsShow`): label values are not empty, a selector that is absent has no
  entries, and the change is not one between an absent selector and `{}`. What is left out is what
  `closure_blank` shows, and its like in `selector.go:33`.
* `ReferencesStayHome` (`ReferencesHome`): references are to objects of the referrer's namespace,
  which is all that `crossref.go` and `scenario.go` ever make.
* `Sane` (`ServerSane`): the API server keeps to its rules. A version of a kind is namespaced or
  not, objects have uids and identities of their own, with a namespace if their resource has
  one.
* `OneGroup` (`ServerSane`): a kind that is listed is of one group. That is not a rule of servers, and
  `live_group` shows what comes of two. Two versions of one group it allows.
* `Orderly` (`ServerOrderly`): a version of a kind is one resource, and a uid is never given to an
  object of another identity, over time too. Servers keep to both.
* `oneVersionEach`, of the state that was read: it has no object once for each of two versions of its
  kind. Clusters serve HorizontalPodAutoscaler in two versions, so where one is live the state has it
  twice; if it was written to between the two lists, once as it was and once as it
  is, and what the walk reports of it depends on the order of the lists. Every scenario meets
  this. `SteadyIsCovered`, `QuietVerdictHolds` and `LiveRunsReport` do without it.
* `PlainCall`: `oneVersionEach`, and for a scenario `groupGiven`, see below.
* `StartsSane` (`StartsAreSane`): a live start is from a server that is `Sane` and `Orderly`, and a
  scenario from a directory that is `DirSane`: at most one manifest of a kind, namespace and name,
  one payload before and one after, and uids, which the loader makes by joining those three with
  slashes, tell names apart. Names in Kubernetes have no slash, so they do; but strings are opaque to
  the provers, and this is assumed. Nothing is assumed of command lines, of scope and contract
  files, or of which files are there.
* `Deployable` (`ClustersAreDeployable`), of one directory: an API server could hold its manifests as
  they are written, and the reader would list them. Each has a name and is of a kind that
  `selectTargets` picks, so neither a Node nor an Ingress; of those the loader makes objects that a
  live check never sees. Every name in them, those of owners and references included, stays apart from the others
  when it is joined, the uids the server would give do too, a manifest has one selector at most,
  and an object in a namespace has no cluster-scoped owner. The last is what `command_owner` shows.
* `Legible` (`LinesAreLegible`), of one command line: a flag that takes a value is followed by a word
  and not by another flag, and no namespace is empty. Both are needed: in `--context --mode=enforce`
  the context is `--mode=enforce` and the mode stays audit, and `-n=` at the end leaves the
  namespace that was given before.
* `NoStray` (`EntriesAreRead`), of one directory: no entry of a scope or contract file has a field
  that its file or its dimension does not read, kind and group in the place of the other file, or
  selector fields in a namespace or resource entry. What is left out is lost in the code, and that is what
  `command_dropped` shows.

`RunsDecideRight`, `FindingsAlwaysShown` and `ScopesDecideAsWritten` are about live checks and about
scenarios whose request gives its target the group and version the object has (`groupGiven`). With another group, a clause that asks
for a group is held against the group as written, and the object's own is not looked at
(`safe.go:213`); the verdict may then be kinder than the scope.

**Argument, the walk.** The properties are not inductive: that the answer is complete says nothing of a walk
under way. `IInv` strengthens them in two directions, read through `lookup` as sets of objects:

* `NothingLost`: what an expanded object affects is expanded or pending, and what binds it is
  recorded. So when the queue is empty, the expanded objects are a closed set that holds the
  target, and therefore contain the least one.
* `NothingInvented`: what is expanded or pending is in the least closed set. So the two are equal.

`TypeOK` and `MembersResolve` are needed because both speak of `lookup` of a ref. The proof has
three layers: each method of `State`, applied to a ref, is the relation of its object
(`OwnedChildrenAre` … `SuccessorsAre`; this is where uid and name identity meet, `SameKeySameObject`);
`Reached` is the least closed set (`ReachedIsLeast`); and each action keeps `IInv`
(`InitEstablishes`, `SkipKeeps`, `ExpandKeeps`, `ReturnKeeps`). `BindingsRecorded` needs
that two refs of one pod are in one namespace (`SameObjectSameBindings`), because the code looks
the labels up but takes the namespace from the ref.

**Argument, the verdict.** `VInv` adds to the walk's invariant that decision, report and exit
code are what `Safe`, `Mode.Apply` and `main` make of the answer; once the walk has returned nothing
changes it. The rest is about one state. A clause covers a ref of the closure exactly when it
authorises the object the ref names (`CoversIsAuthorised`). For the ownership dimension this takes
three steps: `OwnedTree` is the least set of objects that holds the root and is closed under
ownership (`OwnedTreeIsLeast`), the refs the code reaches by `OwnedChildren` are those of its
members (`OwnedRefsAre`), and comparing by key, with the root's own key added, neither loses nor
adds an object (`SubtreeCovers`; the target without a uid is the case that needs the added key).
With `RecordedIsAffected` the escapes are the affected objects that nobody authorised
(`EscapesAreUnauthorised`).

**Argument, a live check.** `LiveInv` needs nothing of the server: before `"checked"` nothing is walked or decided, an
error is final (`ReadBeforeVerdict`), and from then on the walk is typed, every ref of it is filed
under its own key, its keys are closed under expansion (`KeysClosed`), and decision, report and exit
code are what `Safe`, `Mode.Apply` and `main` make of it (`Judged`). Objects cannot be spoken of as
in `IInv`, because a torn read may hold two under one uid; keys can.

`ReadInv` adds what was read: every item was live at some moment of the read, and each resource
that is done was listed whole at one moment (`Collected`). From it follows how the objects of the
state stand for live ones: each for one that was read (`ObjectsStand`), and a *firm* object, one that
is there unchanged at every moment, is the only one ever read under its uid and its name
(`FirmIsUnique`). So references to it resolve to it, and its relations in the state are
those in the cluster (`ReferencesStand`, `RelationsStand`).

* `SteadyIsCovered`: the firm objects that were met, by key, are closed under what the action affects
  among firm objects (`MetIsClosed`). The least closed set is in every closed one, so all of it
  was met and reported. `QuietVerdictHolds` has the same for the moment of a quiet read, when all is
  firm.
* The other half of `QuietVerdictHolds`, that nothing else is reported, is inductive itself
  (`QuietSound`): what is queued stands for an object that is reached, what is recorded for one
  that is affected. Escapes are then objects outside the ownership tree of the live
  target, because the subtree the clause computes by key is that tree (`SubtreeIsTree`), and what it
  owns is affected (`DerivedScopeCovers`).
* `TornVerdictHolds`: two items of one uid and one version are one item (`ListedOnce`), since all
  objects of a version of a kind come from one list, taken at one moment. So a state that has no
  object in two versions has distinct identities after all (`OneVersionIsWellFormed`,
  `TornCallIsGood`), and from the start of the walk the invariant of `Verdict` holds (`BegunIsSound`).

**Argument, a run.** `UndecidedUntilScoped` says why `FailsClosedOnScope` holds: a check begins only
with a scope that is accounted for by the file it came from or the absence of both. `RunInv` adds
types and `Judged`, `LoadInv` that state and action are what the loader makes of the files (so
`ScenarioCallIsGood`), and `ClusterInv` that a live path keeps `ReadInv` and `ListedOnce`, because
while it reads it takes the steps of `LiveCheck` and no others (`LiveStepsAre`). Together they make
every call good that has no object in two versions (`CallIsGood`); hence `CallsAlwaysMeetAssumption`, and from where a check begins the
invariant of `Verdict` once more (`JudgeSound`), with what that implies. `FindingsAlwaysShown` adds that
what was printed is the report that was decided on (`ReportPrinted`), whose escapes are the affected
objects without authority and whose externals are the finalizers that go (`ExternalNamesRemoved`).

For `LiveRunsReport` the run takes over `QuietSound` as well: it holds when the command line is
parsed and `LiveStepsAre` carries it along (`QuietRunKept`), so what was shown of a live check in
`SteadyInAnswer` and `QuietOutcome` holds of the run. `ScopesDecideAsWritten` leaves the walk alone. A
clause made from an entry authorises exactly the objects the entry grants (`ClauseGrantsEntry`): the
two parsers are different code, so this is shown for each (`ScopeEntryGrants` for `scope.yaml`,
`ContractEntryGrants` for a contract). Together the clauses authorise what the entries of the file
grant (`ScopeGrantsEntries`), the scope of a call is made of that file and of no other (`ScopeRead`),
and `JudgeSound` says the rest.

**Argument, a scenario and its cluster.** `ScenariosAnswerAsClusters` compares two states, the
loader's and the one `BuildObjects` makes of the same manifests, whose objects have other uids. They
hold the same objects by place: a manifest looks alike in both (`ManifestLooksAlike`), owners and
references meet at the same places (`LoadedOwns`, `BuiltOwns`, `LoadedRefers`, `BuiltRefers`), and
so the two are `StatesAlike`. What an action affects depends on no more: a state carries its closed
sets over to a state like it (`Carries`, `CarriesAffected`), in both directions, so the least ones
have the same names (`AnswersAlike`), and the walk reports the least one.
`RememberedSubtreesAreRight` rests on the loader's uids as well: a root whose name stands for an
object has that object's uid (`RootIsFiled`), so roots of one key are looked up alike
(`OneSubtreeOfKey`). A derived scope has one root, and a contract none.

**Argument, the command line.** `ArgumentsAlwaysCount` is about lines of any length, so it is an
induction over the number of arguments read. The recursive functions `parsed` and `extracted` are
shown to exist up to every length by a least counterexample (`ParsedStepByStep`,
`ExtractedStepByStep`), and in the same way the invariants of the two parsers hold at every place
(`ParseHolds`, `ExtractHolds`): what a parser holds is what the arguments up to there give, the last
one of each flag. The line is then the flags and what follows the first word
(`HeardBefore`, `HeardLater`), what the program acts on is the last that was given
(`ActedOnIsLast`), and `LineInv` carries it through the phases of a run to the verdict.

**Only model-checked.** Liveness (`Terminates`, `Answers`, `CommandAnswers`): fairness and `ENABLED`
are beyond the prover. Every safety invariant and action property of the passing runs is
stated by a theorem.

## Not modelled

* **Import guard, end-to-end suite**: tests; they state what other components should do.
* **Reader role** (`deploy/rbac`): a manifest without behaviour. That the role allows too little
  shows as `ApiFails`.
* **Admission webhook**: documents for a later version of the program, no code.
* **In modelled parts**: where in a pod spec a reference is found; malformed fields the builder
  skips; the YAML decoder, whose refusal of a file is one of the outcomes of reading it; the memo
  of ownership subtrees; the sort order of answers; how a kubeconfig is resolved, which may fail;
  the texts of report and errors.

## Plan

Done: the walk first, because everything else is a statement about its answer; then the verdict,
which reads it, and the live read, which feeds it; then the scenario loader, the contract, the
command line and the report, and their composition in `Command`; the proofs about the walk and the
verdict, about the read beside others' writes, and over whole runs, that calls are good,
decisions right and findings shown, that scope files decide as they are written, that a scenario
answers as its cluster does, that no argument is passed over, and that the memo of subtrees changes
nothing.

To come, as the program grows:

1. The admission webhook, once there is code: requests that are decided at once, beside a state
   that watches keep.
2. `newDiscoveryScope` and the layout of pod specs, if the check comes to depend on them.
