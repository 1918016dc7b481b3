------------------------------ MODULE TornProofs ------------------------------
(***************************************************************************)
(* Proofs about every check on a live cluster, also one that others write  *)
(* beside, for a server that keeps to Sane and to Orderly.  No object is   *)
(* met twice in its read under one version, so the State tells objects of  *)
(* different names apart, whatever mixture of moments was read.  Where it  *)
(* holds none in two versions it is well formed, and the call is one that  *)
(* the theorems about Closure and Verdict speak of: closure, verdict and   *)
(* exit code are right for it.                                             *)
(***************************************************************************)
EXTENDS SnapshotProofs

-----------------------------------------------------------------------------
(* One object, one item.                                                   *)

(* Two items of one object, under one version of its kind.                 *)
Alike(x, y) == x.uid = y.uid /\ x.apiVersion = y.apiVersion

(* An item is from the list of a resource.                                 *)
FromPlace(item, res) == item.kind = res.kind /\ item.apiVersion = apiVersion(res)

(* No object is met twice under one version, if all that was ever live is  *)
(* in objs.                                                                *)
ListedOnce(objs) ==
  /\ \A m \in moments \cup {cluster} : m \subseteq objs
  /\ phase \in {"list", "checked"} =>
       /\ \A k \in DOMAIN got : \E i \in selectTargets(served) \ todo : FromPlace(got[k], served[i])
       /\ \A j, k \in DOMAIN got : Alike(got[j], got[k]) => got[j] = got[k]

(* A List adds items of one resource and one moment (reader.go:64-86).     *)
LEMMA ListedOnceByList ==
  ASSUME Ruled, World, Collected, NEW CONSTANT objs,
         Orderly(Discoveries, objs), ListedOnce(objs), List
  PROVE  ListedOnce(objs)'
<1>1. PICK i \in todo : /\ got' = got \o Sx!SetToSeq(items(served[i]))
                        /\ todo' = todo \ {i}
  BY DEF List
<1>2. /\ phase = "list" /\ phase' = "list" /\ served' = served /\ moments' = moments
      /\ cluster' = cluster
  BY DEF List
<1> DEFINE more == Sx!SetToSeq(items(served[i]))
<1>3. /\ more \in Seq(items(served[i]))
      /\ \A k \in DOMAIN more : \E o \in cluster : isOf(o, served[i]) /\ more[k] = listedAs(o, served[i])
  BY ListingIs DEF World, SaneObjects
<1> HIDE DEF more
<1>4. PICK S : got \in Seq(S)
  BY <1>2 DEF Collected
<1>5. \A k \in DOMAIN got' :
        (\E j \in DOMAIN got : got'[k] = got[j]) \/ (\E j \in DOMAIN more : got'[k] = more[j])
  BY <1>1, <1>2, <1>3, <1>4, ListingGrows DEF more
<1>6. i \in selectTargets(served) /\ i \notin selectTargets(served) \ todo
  BY <1>2 DEF Collected
<1>7. \A k \in DOMAIN more : FromPlace(more[k], served[i])
  BY <1>3 DEF isOf, listedAs, FromPlace
<1>8. \A k \in DOMAIN got' : \E j \in selectTargets(served) \ todo' : FromPlace(got'[k], served[j])
  BY <1>1, <1>2, <1>5, <1>6, <1>7 DEF ListedOnce
(* Two items of this list. *)
<1>9. ASSUME NEW j \in DOMAIN more, NEW k \in DOMAIN more, Alike(more[j], more[k])
      PROVE  more[j] = more[k]
  <2>1. PICK o \in cluster : isOf(o, served[i]) /\ more[j] = listedAs(o, served[i])
    BY <1>3
  <2>2. PICK x \in cluster : isOf(x, served[i]) /\ more[k] = listedAs(x, served[i])
    BY <1>3
  <2>3. o.uid = x.uid
    BY <1>9, <2>1, <2>2 DEF Alike, listedAs
  <2>4. o = x
    BY <2>3 DEF World, SaneObjects
  <2> QED
    BY <2>1, <2>2, <2>4
(* One of an earlier list and one of this. *)
<1>10. ASSUME NEW j \in DOMAIN got, NEW k \in DOMAIN more PROVE ~Alike(got[j], more[k])
  <2> SUFFICES ASSUME Alike(got[j], more[k]) PROVE FALSE
    OBVIOUS
  <2>1. PICK l \in selectTargets(served) \ todo : FromPlace(got[j], served[l])
    BY <1>2 DEF ListedOnce
  <2>2. PICK x \in cluster : more[k].uid = x.uid /\ more[k].kind = x.kind
    BY <1>3 DEF listedAs
  <2>3. PICK m \in moments : \E o \in m : got[j].uid = o.uid /\ got[j].kind = o.kind
    BY <1>2 DEF Collected, Listed, listedAs
  <2>4. PICK o \in m : got[j].uid = o.uid /\ got[j].kind = o.kind
    BY <2>3
  <2>5. o \in objs /\ x \in objs
    BY <2>2, <2>4 DEF ListedOnce
  <2>6. identity(o) = identity(x)
    BY <2>2, <2>4, <2>5 DEF Orderly, Alike
  <2>7. served[l].kind = served[i].kind /\ apiVersion(served[l]) = apiVersion(served[i])
    BY <1>7, <2>1, <2>2, <2>4, <2>6 DEF FromPlace, Alike, identity
  <2>8. l = i
    BY <1>6, <2>1, <2>7 DEF Orderly, World
  <2> QED
    BY <1>6, <2>1, <2>8
<1>11. ASSUME NEW j \in DOMAIN got', NEW k \in DOMAIN got', Alike(got'[j], got'[k])
       PROVE  got'[j] = got'[k]
  <2>1. \A x, y : Alike(x, y) => Alike(y, x)
    BY DEF Alike
  <2>2. CASE (\E l \in DOMAIN got : got'[j] = got[l]) /\ (\E l \in DOMAIN got : got'[k] = got[l])
    BY <1>2, <1>11, <2>2 DEF ListedOnce
  <2>3. CASE (\E l \in DOMAIN more : got'[j] = more[l]) /\ (\E l \in DOMAIN more : got'[k] = more[l])
    BY <1>9, <1>11, <2>3
  <2>4. CASE (\E l \in DOMAIN got : got'[j] = got[l]) /\ (\E l \in DOMAIN more : got'[k] = more[l])
    BY <1>10, <1>11, <2>4
  <2>5. CASE (\E l \in DOMAIN more : got'[j] = more[l]) /\ (\E l \in DOMAIN got : got'[k] = got[l])
    BY <1>10, <1>11, <2>1, <2>5
  <2> QED
    BY <1>5, <2>2, <2>3, <2>4, <2>5
<1> QED
  BY <1>2, <1>8, <1>11 DEF ListedOnce, Alike

(* The other steps list nothing.                                           *)
LEMMA ListedOnceKept ==
  ASSUME ReadInv, NEW CONSTANT objs, ListedOnce(objs), \A w \in Writes : w.put \subseteq objs,
         [LNext]_lvars, ~List
  PROVE  ListedOnce(objs)'
<1> USE DEF ListedOnce, Alike
<1>1. CASE Resolve \/ ResolveFails \/ ApiFails \/ BuildFails
  BY <1>1 DEF Resolve, ResolveFails, ApiFails, BuildFails, exitWithError
<1>2. CASE Discover
  <2>1. got' = <<>> /\ moments' = {cluster} /\ cluster' = cluster
    BY <1>2 DEF Discover, ReadInv, Collected
  <2> QED
    BY <2>1
<1>3. CASE Build
  BY <1>3 DEF Build
<1>4. CASE Verify
  BY <1>4, NothingVerifiedBefore DEF Verify, liveVars
<1>5. CASE ChangeApi
  BY <1>5 DEF ChangeApi
<1>6. ASSUME NEW w \in Writes, Write(w) PROVE ListedOnce(objs)'
  <2>1. /\ UNCHANGED <<served, phase, todo, got>>
        /\ moments' \subseteq moments \cup {cluster'}
        /\ cluster' \subseteq cluster \cup w.put
    BY <1>6 DEF Write
  <2> QED
    BY <2>1
<1>7. CASE UNCHANGED lvars
  BY <1>7 DEF lvars, liveVars
<1> QED
  BY <1>1, <1>2, <1>3, <1>4, <1>5, <1>6, <1>7 DEF LNext, Step

(* So no step of the check or of other clients makes the read meet an      *)
(* object twice.                                                           *)
LEMMA ReadOnceKept ==
  ASSUME Ruled, NEW CONSTANT objs, Orderly(Discoveries, objs), \A w \in Writes : w.put \subseteq objs,
         ReadInv, ListedOnce(objs), [LNext]_lvars
  PROVE  ReadInv' /\ ListedOnce(objs)'
<1>1. CASE List
  <2>1. World /\ Collected
    BY DEF ReadInv
  <2> QED
    BY <1>1, <2>1, ReadNextKeeps, ListedOnceByList
<1>2. CASE ~List
  BY <1>2, ReadNextKeeps, ListedOnceKept
<1> QED
  BY <1>1, <1>2

(* A read that has met nothing has met nothing twice.                      *)
LEMMA FreshIsReadOnce ==
  ASSUME NEW CONSTANT objs, phase = "resolve", Fresh, World, cluster \subseteq objs
  PROVE  ReadInv /\ ListedOnce(objs)
<1>1. moments = {}
  BY DEF Fresh
<1> QED
  BY <1>1, FreshIsRead DEF ListedOnce

(* Whatever the server lists and others write, no object is met twice      *)
(* under one version.                                                      *)
LEMMA ListedOnceAlways ==
  Sane(Discoveries, Clusters, Writes) /\ Orderly(Discoveries, everLive(Clusters))
    => (LSpec => [](ReadInv /\ ListedOnce(everLive(Clusters))))
<1> SUFFICES ASSUME Sane(Discoveries, Clusters, Writes), Ruled,
                    Orderly(Discoveries, everLive(Clusters))
             PROVE  LSpec => [](ReadInv /\ ListedOnce(everLive(Clusters)))
  BY DEF Ruled, Sane
<1> DEFINE objs == everLive(Clusters)
<1>1. LInit => ReadInv /\ ListedOnce(objs)
  <2> SUFFICES ASSUME LInit PROVE ReadInv /\ ListedOnce(objs)
    OBVIOUS
  <2>1. cluster \subseteq objs
    BY DEF LInit, everLive
  <2>2. phase = "resolve" /\ Fresh /\ World
    BY ReadInitEstablishes DEF LInit, ReadInv
  <2> HIDE DEF objs
  <2> QED
    BY <2>1, <2>2, FreshIsReadOnce
<1>2. \A w \in Writes : w.put \subseteq objs
  BY DEF everLive
<1>3. ReadInv /\ ListedOnce(objs) /\ [LNext]_lvars => ReadInv' /\ ListedOnce(objs)'
  <2>1. Orderly(Discoveries, objs)
    OBVIOUS
  <2> HIDE DEF objs
  <2> QED
    BY <1>2, <2>1, ReadOnceKept
<1> QED
  BY <1>1, <1>3, PTL DEF LSpec

-----------------------------------------------------------------------------
(* The call of a torn read.                                                *)

(* Every object has a uid, is found under it as itself or as its other     *)
(* version, and shares it with no object of another name.                  *)
Distinct(s) ==
  /\ \A o \in s.objs :
       o.ref.uid # "" /\ tracked(s, o.ref) /\ lookup(s, o.ref).ref.uid = o.ref.uid
  /\ \A o, x \in s.objs : o.ref.uid = x.ref.uid =>
       human(o.ref) = human(x.ref) /\ (o.ref.group = x.ref.group => o = x)

(* The index finds an object by its uid.                                   *)
LEMMA FoundByUID ==
  ASSUME NEW s, Indexed(s), NEW o \in s.objs, o.ref.uid # ""
  PROVE  /\ tracked(s, o.ref) /\ lookup(s, o.ref) \in s.objs
         /\ lookup(s, o.ref).ref.uid = o.ref.uid
  BY DEF Indexed, tracked, knownUID, lookup

(* Where no object is there in two versions, it is found as itself.        *)
LEMMA OneVersionIsWellFormed ==
  ASSUME Indexed(call.s), Distinct(call.s), oneVersionEach
  PROVE  WellFormed(call.s)
<1>1. ASSUME NEW o \in call.s.objs PROVE tracked(call.s, o.ref) /\ lookup(call.s, o.ref) = o
  BY FoundByUID DEF Distinct, oneVersionEach
<1> QED
  BY <1>1 DEF WellFormed, Indexed

(* Each object of the State is built of an item, and has its uid, version  *)
(* and name (build.go:74-95, 122-147).                                     *)
LEMMA BuiltOfItems ==
  ASSUME AfterRead
  PROVE  /\ Indexed(call.s)
         /\ call.s.objs = {buildOne(got[k], kindScope, newNameUIDIndex(got, kindScope)) : k \in DOMAIN got}
<1> DEFINE seq == BuildObjects(got, kindScope)
           n   == Len(got)
<1>1. call.s = NewScanState(seq)
  BY DEF AfterRead, ReadInv, Asked
<1>2. /\ DOMAIN seq = DOMAIN got
      /\ \A k \in DOMAIN got : seq[k] = buildOne(got[k], kindScope, newNameUIDIndex(got, kindScope))
  BY DEF BuildObjects
<1>3. n \in Nat /\ DOMAIN seq \subseteq 1..n
  BY <1>2, GotIsSequence
<1> HIDE DEF seq, n
<1>4. call.s.objs = {seq[k] : k \in DOMAIN seq} /\ Indexed(call.s)
  BY <1>1, <1>3, ScanStateIs
<1> QED
  BY <1>2, <1>4

(* The State tells its objects apart.                                      *)
LEMMA TornStateIs ==
  ASSUME AfterRead, NEW CONSTANT objs, Orderly(Discoveries, objs), ListedOnce(objs)
  PROVE  Distinct(call.s)
<1> DEFINE built(k) == buildOne(got[k], kindScope, newNameUIDIndex(got, kindScope))
<1>1. call.s.objs = {built(k) : k \in DOMAIN got} /\ Indexed(call.s)
  BY BuiltOfItems
<1>2. ASSUME NEW k \in DOMAIN got
      PROVE  /\ built(k).ref.uid = got[k].uid /\ built(k).ref.group = got[k].apiVersion
             /\ \E o \in objs : /\ o.uid = got[k].uid /\ o.uid # ""
                                /\ human(built(k).ref) = <<o.kind, o.ns, o.name>>
  <2>1. PICK o : /\ WasRead(o) /\ o.uid # "" /\ resolveNamespace(got[k], kindScope) = o.ns
                 /\ CarriesOf(got[k], o)
    BY ItemsAreRead
  <2>2. o \in objs
    BY <2>1 DEF WasRead, ListedOnce
  <2> QED
    BY <2>1, <2>2 DEF CarriesOf, buildOne, human
<1>3. \A j, k \in DOMAIN got : Alike(got[j], got[k]) => built(j) = built(k)
  BY DEF ListedOnce, AfterRead
<1> HIDE DEF built
<1>4. ASSUME NEW b \in call.s.objs, NEW c \in call.s.objs, b.ref.uid = c.ref.uid
      PROVE  human(b.ref) = human(c.ref) /\ (b.ref.group = c.ref.group => b = c)
  <2>1. PICK j \in DOMAIN got : b = built(j)
    BY <1>1
  <2>2. PICK k \in DOMAIN got : c = built(k)
    BY <1>1
  <2>3. PICK o \in objs : o.uid = got[j].uid /\ human(b.ref) = <<o.kind, o.ns, o.name>>
    BY <1>2, <2>1
  <2>4. PICK x \in objs : x.uid = got[k].uid /\ human(c.ref) = <<x.kind, x.ns, x.name>>
    BY <1>2, <2>2
  <2>5. o.uid = x.uid
    BY <1>2, <1>4, <2>1, <2>2, <2>3, <2>4
  <2>6. identity(o) = identity(x)
    BY <2>5 DEF Orderly
  <2>7. b.ref.group = c.ref.group => Alike(got[j], got[k])
    BY <1>2, <1>4, <2>1, <2>2 DEF Alike
  <2> QED
    BY <1>3, <2>1, <2>2, <2>3, <2>4, <2>6, <2>7 DEF identity
<1>5. ASSUME NEW b \in call.s.objs PROVE b.ref.uid # ""
  BY <1>1, <1>2
<1> QED
  BY <1>1, <1>4, <1>5, FoundByUID DEF Distinct

(* The target and the scope are those of a call the theorems about Closure *)
(* and Verdict speak of, and so is the State if it has one version of each.*)
LEMMA TornCallIsGood ==
  ASSUME AfterRead, NEW CONSTANT objs, Orderly(Discoveries, objs), ListedOnce(objs)
  PROVE  /\ Consistent(call.s, call.a.target) /\ GoodCheck
         /\ oneVersionEach => GoodCall
<1>1. Consistent(call.s, call.a.target)
  BY LiveActionIs, StateLooksUp DEF Consistent
<1>2. ModeKnown(call) /\ OnePayload(call)
  BY LiveActionIs DEF OnePayload
<1>3. WrittenAsListed(call)
  <2>1. call.scope = {OwnershipClause(call.a.target)}
    BY DEF AfterRead, ReadInv, Asked, Derive
  <2>2. /\ OwnershipClause(call.a.target).dim = "ownership"
        /\ OwnershipClause(call.a.target).root = call.a.target
    BY DEF OwnershipClause, clauseOf
  <2> QED
    BY <2>1, <2>2 DEF WrittenAsListed
<1>4. oneVersionEach => WellFormed(call.s)
  BY TornStateIs, BuiltOfItems, OneVersionIsWellFormed
<1> QED
  BY <1>1, <1>2, <1>3, <1>4 DEF GoodCall, GoodCheck

-----------------------------------------------------------------------------
(* What a check then decides.                                              *)

(* A check of one version of each object that is under way has done        *)
(* nothing yet or is in the invariant of Verdict.                          *)
CheckSound == phase = "checked" /\ oneVersionEach => Begun \/ VInv

(* Every step keeps it, if the call is a good one.                         *)
LEMMA CheckSoundKept ==
  ASSUME LiveInv, CheckSound, [LNext]_lvars,
         phase = "checked" /\ oneVersionEach => GoodCall /\ GoodCheck
  PROVE  CheckSound'
<1>1. CASE phase = "checked"
  <2>1. [VNext]_allVars
    BY <1>1 DEF LNext, Step, Resolve, ResolveFails, Discover, List, ApiFails, BuildFails, Build,
                ChangeApi, Write, reading, Verify, lvars
  <2>2. UNCHANGED call
    BY <2>1, CheckStepsWalk
  <2> SUFFICES ASSUME oneVersionEach PROVE VInv'
    BY <2>2 DEF CheckSound, oneVersionEach
  <2>3. VInv
    BY <1>1, BegunIsSound DEF CheckSound
  <2> QED
    BY <2>1, <2>3, CheckNextKeeps
<1>2. CASE phase # "checked" /\ Build
  BY <1>2, BuildBegins DEF CheckSound
<1>3. CASE phase # "checked" /\ ~Build
  <2>1. phase' # "checked"
    BY <1>3, NothingVerifiedBefore
       DEF LNext, Step, Resolve, ResolveFails, Discover, List, ApiFails, BuildFails, exitWithError,
           ChangeApi, Write, reading, lvars, liveVars, LiveInv
  <2> QED
    BY <2>1 DEF CheckSound
<1> QED
  BY <1>1, <1>2, <1>3

(* Whatever mixture of moments a check has read, closure, verdict and exit *)
(* code are right for the State it made of them, and under the scope it    *)
(* derives what escapes is what the target does not own in that State      *)
(* (main.go:288-295, safe.go:8-62): others' writes make a verdict old, and *)
(* never wrong for what was read.  The State is to hold one version of     *)
(* each object, for of two the walk and Safe look up the last.             *)
THEOREM TornVerdictHolds ==
  Sane(Discoveries, Clusters, Writes) /\ Orderly(Discoveries, everLive(Clusters)) =>
    (LSpec => [](phase = "checked" /\ oneVersionEach =>
                   VerdictMatchesScope /\ ExitMatchesScope /\ DerivedScopeFlagsCollateral))
<1> SUFFICES ASSUME Sane(Discoveries, Clusters, Writes), Ruled,
                    Orderly(Discoveries, everLive(Clusters))
             PROVE  LSpec => [](phase = "checked" /\ oneVersionEach =>
                              VerdictMatchesScope /\ ExitMatchesScope /\ DerivedScopeFlagsCollateral)
  BY DEF Ruled, Sane
<1> DEFINE Read == ReadInv /\ ListedOnce(everLive(Clusters))
           Good == phase = "checked" /\ oneVersionEach => GoodCall /\ GoodCheck
           Right == phase = "checked" /\ oneVersionEach =>
                      VerdictMatchesScope /\ ExitMatchesScope /\ DerivedScopeFlagsCollateral
<1>1. LSpec => []Read
  BY ListedOnceAlways
<1>2. Read => Good /\ LiveInv
  <2> SUFFICES ASSUME Read PROVE Good
    BY DEF ReadInv
  <2> DEFINE objs == everLive(Clusters)
  <2>1. Orderly(Discoveries, objs) /\ ListedOnce(objs)
    OBVIOUS
  <2> HIDE DEF objs
  <2>2. phase = "checked" => GoodCheck /\ (oneVersionEach => GoodCall)
    BY <2>1, TornCallIsGood DEF AfterRead
  <2> QED
    BY <2>2
<1>3. LInit => CheckSound
  BY DEF LInit, CheckSound
<1>4. Good /\ LiveInv /\ CheckSound /\ [LNext]_lvars => CheckSound'
  BY CheckSoundKept
<1>5. Good /\ CheckSound => Right
  BY BegunIsSound, SafeIsRight, ModeIsRight, OwnedNeverEscapes DEF CheckSound
<1> HIDE DEF Read, Good, Right
<1>6. LSpec => []Right
  BY <1>1, <1>2, <1>3, <1>4, <1>5, PTL DEF LSpec
<1> QED
  BY <1>6 DEF Right
=============================================================================
