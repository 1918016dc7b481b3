---------------------------- MODULE SnapshotProofs ----------------------------
(***************************************************************************)
(* Proofs about what a check on a live cluster reads and decides, for a    *)
(* server that keeps to Sane and lists no kind in two groups.  Every object *)
(* of the State stands for a live object of some moment of the read, and   *)
(* every object that is there throughout is stood for.  The relations between objects of the State    *)
(* are those between the live objects they stand for, whatever index and   *)
(* scope map they were built with.  So what the walk reports covers what   *)
(* the action does to the steady part of the cluster, and is exactly that  *)
(* when nothing was written.                                               *)
(***************************************************************************)
EXTENDS LiveProofs, WellFoundedInduction, FunctionTheorems

-----------------------------------------------------------------------------
(* A nonempty set of places of a sequence has a first one: the lookups of  *)
(* state.go:61-71 answer with it.                                          *)
LEMMA FirstPlace ==
  ASSUME NEW S, S \subseteq Nat, S # {}
  PROVE  \E i \in S : \A j \in S : i <= j
<1> DEFINE R == {ss \in Nat \X Nat : ss[1] < ss[2]}
<1>1. IsWellFoundedOn(R, Nat)
  BY NatLessThanWellFounded DEF OpToRel
<1>2. \A i, j \in Nat : j < i => <<j, i>> \in R
  OBVIOUS
<1> HIDE DEF R
<1>3. PICK i \in S : \A j \in S : ~(<<j, i>> \in R)
  BY <1>1, WFMin
<1>4. ASSUME NEW j \in S PROVE i <= j
  <2>1. i \in Nat /\ j \in Nat /\ ~(j < i)
    BY <1>2, <1>3
  <2> QED
    BY <2>1
<1> QED
  BY <1>4

(* And a last one: newNameUIDIndex (build.go:44-58) keeps the last uid.    *)
LEMMA LastPlace ==
  ASSUME NEW n \in Nat, NEW S, S \subseteq 1..n, S # {}
  PROVE  \E i \in S : \A j \in S : j <= i
<1> DEFINE D == {n - i : i \in S}
<1>1. \A i \in S : n - i \in Nat
  OBVIOUS
<1>5. D \subseteq Nat /\ D # {}
  BY <1>1
<1>2. PICK d \in D : \A e \in D : d <= e
  <2> HIDE DEF D
  <2> QED
    BY <1>5, FirstPlace
<1>3. PICK i \in S : d = n - i
  BY <1>2
<1>4. \A j \in S : n - i <= n - j
  BY <1>2, <1>3
<1> QED
  BY <1>4

(* The sequence made of a finite set holds its elements and no others.     *)
LEMMA SetToSeqIs ==
  ASSUME NEW S, IsFiniteSet(S)
  PROVE  /\ Sx!SetToSeq(S) \in Seq(S)
         /\ \A x \in S : \E k \in DOMAIN Sx!SetToSeq(S) : Sx!SetToSeq(S)[k] = x
<1> DEFINE n == Cardinality(S)
           f == Sx!SetToSeq(S)
<1>0. Sx!Cardinality(S) = Cardinality(S)
  BY DEF Sx!Cardinality, Cardinality
<1>1. n \in Nat /\ ExistsBijection(1..n, S)
  BY FS_CardinalityType
<1>2. \E g \in [1..n -> S] : Sx!IsInjective(g)
  <2>1. PICK g : g \in Bijection(1..n, S)
    BY <1>1 DEF ExistsBijection
  <2> QED
    BY <2>1 DEF Bijection, Injection, IsInjective, Sx!IsInjective
<1>3. f \in [1..n -> S] /\ Sx!IsInjective(f)
  BY <1>0, <1>2 DEF Sx!SetToSeq
<1>4. f \in Injection(1..n, S)
  BY <1>3 DEF Injection, IsInjective, Sx!IsInjective
<1>5. Cardinality(1..n) = n
  BY <1>1, FS_Interval
<1>6. f \in Surjection(1..n, S)
  BY <1>1, <1>4, <1>5, FS_Injection
<1>7. \A x \in S : \E k \in DOMAIN f : f[k] = x
  BY <1>6 DEF Surjection
<1>8. f \in Seq(S)
  BY <1>1, <1>3
<1> QED
  BY <1>7, <1>8

-----------------------------------------------------------------------------
(* What the read collects.                                                 *)

(* The server keeps to its rules, whatever the check starts from.          *)
Ruled == Sane(Discoveries, {}, Writes)

(* And has kept to them at every moment of the read.                       *)
World ==
  /\ ModeKnown(check) /\ served \in Discoveries
  /\ SaneObjects(cluster, Discoveries)
  /\ \A m \in moments : SaneObjects(m, Discoveries)

(* An item is one of the resources asked for, as it was live then.         *)
Listed(item) ==
  \E i \in selectTargets(served), m \in moments : \E o \in m :
    isOf(o, served[i]) /\ item = listedAs(o, served[i])

(* A resource has been listed whole, at one moment of the read.            *)
ListedWhole(i) ==
  \E m \in moments : \A o \in m :
    isOf(o, served[i]) => \E k \in DOMAIN got : got[k] = listedAs(o, served[i])

(* What is in got so far: live items only, and each resource that is done  *)
(* at one moment of the read.                                              *)
Collected ==
  /\ phase \in {"resolve", "discover"} => got = <<>>
  /\ phase = "checked" => todo = {}
  /\ phase \in {"list", "checked"} =>
       /\ kindScope = scopeFromLists(served) /\ todo \subseteq selectTargets(served)
       /\ cluster \in moments
       /\ \E S : got \in Seq(S)
       /\ \A k \in DOMAIN got : Listed(got[k])
       /\ \A i \in selectTargets(served) \ todo : ListedWhole(i)

(* The call the check makes of its command line and of what it read.       *)
Asked ==
  /\ phase \in {"discover", "list", "checked"} =>
       /\ check.verb \in liveVerbs /\ call.mode = check.mode
       /\ call.a = parseAction(check.verb, call.a.target.kind, check.ns, check.name)
  /\ phase = "checked" =>
       call.s = NewScanState(BuildObjects(got, kindScope)) /\ call.scope = Derive(call.a.target)

(* The inductive invariant of the read.                                    *)
ReadInv == LiveInv /\ World /\ Collected /\ Asked

(* A check that has read nothing is in the invariant.                      *)
LEMMA FreshIsRead ==
  ASSUME phase = "resolve", Fresh, World
  PROVE  ReadInv
<1>1. Collected /\ Asked
  BY DEF Fresh, Collected, Asked
<1> QED
  BY <1>1, FreshIsLive DEF ReadInv

(* And so starts every check of this specification.                        *)
LEMMA ReadInitEstablishes ==
  ASSUME Sane(Discoveries, Clusters, Writes), LInit
  PROVE  ReadInv
<1>1. World
  BY ChecksAssumption DEF Sane, LInit, Fresh, World
<1> QED
  BY <1>1, FreshIsRead DEF LInit

(* Another client's writes leave a cluster the server allows.              *)
LEMMA WriteKeepsSane ==
  ASSUME World, NEW w, SaneObjects(w.put, Discoveries), Write(w)
  PROVE  SaneObjects(cluster', Discoveries)
<1> DEFINE left == {o \in cluster : o.uid \notin w.gone}
<1>1. cluster' = left \cup w.put /\ left \subseteq cluster
  BY DEF Write
<1>2. IsFiniteSet(cluster')
  <2>1. IsFiniteSet(left)
    BY <1>1, FS_Subset DEF World, SaneObjects
  <2> QED
    BY <1>1, <2>1, FS_Union DEF SaneObjects
<1>3. ASSUME NEW o \in w.put, NEW x \in left, o.uid = x.uid \/ identity(o) = identity(x)
      PROVE  FALSE
  BY <1>3 DEF Write
<1>4. ASSUME NEW o \in cluster', NEW x \in cluster', o.uid = x.uid \/ identity(o) = identity(x)
      PROVE  o = x
  <2>1. CASE o \in left /\ x \in left
    BY <1>1, <1>4, <2>1 DEF World, SaneObjects
  <2>2. CASE o \in w.put /\ x \in w.put
    BY <1>4, <2>2 DEF SaneObjects
  <2>3. CASE o \in w.put /\ x \in left
    BY <1>3, <1>4, <2>3
  <2>4. CASE o \in left /\ x \in w.put
    <3>1. x.uid = o.uid \/ identity(x) = identity(o)
      BY <1>4
    <3> QED
      BY <1>3, <2>4, <3>1
  <2> QED
    BY <1>1, <2>1, <2>2, <2>3, <2>4
<1> HIDE DEF left
<1> QED
  BY <1>1, <1>2, <1>4 DEF World, SaneObjects

(* What is listed stays listed as the read goes on.                        *)
LEMMA ListingGrows ==
  ASSUME NEW S, got \in Seq(S), NEW T, NEW more \in Seq(T),
         got' = got \o more, moments \subseteq moments', served' = served
  PROVE  /\ \E U : got' \in Seq(U)
         /\ \A k \in DOMAIN got' :
              (\E j \in DOMAIN got : got'[k] = got[j]) \/ (\E j \in DOMAIN more : got'[k] = more[j])
         /\ \A k \in DOMAIN got : \E j \in DOMAIN got' : got'[j] = got[k]
         /\ \A k \in DOMAIN more : \E j \in DOMAIN got' : got'[j] = more[k]
<1>1. got \in Seq(S \cup T) /\ more \in Seq(S \cup T)
  OBVIOUS
<1>2. got' \in Seq(S \cup T) /\ Len(got') = Len(got) + Len(more)
  BY <1>1
<1>3. /\ DOMAIN got = 1..Len(got) /\ DOMAIN more = 1..Len(more) /\ DOMAIN got' = 1..Len(got')
      /\ Len(got) \in Nat /\ Len(more) \in Nat
  BY <1>1, <1>2
<1>4. \A k \in 1..Len(got) : k \in DOMAIN got' /\ got'[k] = got[k]
  BY <1>1, <1>2, <1>3
<1>5. \A k \in 1..Len(more) : Len(got) + k \in DOMAIN got' /\ got'[Len(got) + k] = more[k]
  BY <1>1, <1>2, <1>3
<1>6. \A k \in DOMAIN got' : k \in 1..Len(got) \/ k - Len(got) \in 1..Len(more)
  BY <1>2, <1>3
<1>7. \A k \in DOMAIN got' : k - Len(got) \in 1..Len(more) => got'[k] = more[k - Len(got)]
  BY <1>2, <1>3, <1>5
<1> QED
  BY <1>2, <1>3, <1>4, <1>5, <1>6, <1>7

(* What the server lists of a resource is finite, as the cluster is.       *)
LEMMA ListingIs ==
  ASSUME IsFiniteSet(cluster), NEW res
  PROVE  LET seq == Sx!SetToSeq(items(res))
         IN  /\ seq \in Seq(items(res))
             /\ \A k \in DOMAIN seq : \E o \in cluster : isOf(o, res) /\ seq[k] = listedAs(o, res)
             /\ \A o \in cluster : isOf(o, res) => \E k \in DOMAIN seq : seq[k] = listedAs(o, res)
<1> DEFINE own == {x \in cluster : isOf(x, res)}
           f   == [o \in own |-> listedAs(o, res)]
           seq == Sx!SetToSeq(items(res))
<1>1. IsFiniteSet(own)
  BY FS_Subset
<1>2. f \in Surjection(own, items(res))
  BY DEF items, Surjection
<1>3. IsFiniteSet(items(res))
  BY <1>1, <1>2, FS_Surjection
<1>4. seq \in Seq(items(res)) /\ \A x \in items(res) : \E k \in DOMAIN seq : seq[k] = x
  BY <1>3, SetToSeqIs
<1> HIDE DEF seq
<1>5. \A k \in DOMAIN seq : seq[k] \in items(res)
  BY <1>4
<1> QED
  BY <1>4, <1>5 DEF items, seq

(* A List adds the objects that are live then (reader.go:64-86).           *)
LEMMA ListCollects ==
  ASSUME World, Collected, List
  PROVE  Collected'
<1>1. PICK i \in todo : /\ got' = got \o Sx!SetToSeq(items(served[i]))
                        /\ todo' = todo \ {i}
  BY DEF List
<1>2. /\ phase = "list" /\ phase' = "list" /\ served' = served /\ moments' = moments
      /\ kindScope' = kindScope /\ cluster' = cluster
  BY DEF List
<1> DEFINE more == Sx!SetToSeq(items(served[i]))
<1>3. /\ more \in Seq(items(served[i]))
      /\ \A k \in DOMAIN more : \E o \in cluster : isOf(o, served[i]) /\ more[k] = listedAs(o, served[i])
      /\ \A o \in cluster : isOf(o, served[i]) => \E k \in DOMAIN more : more[k] = listedAs(o, served[i])
  BY ListingIs DEF World, SaneObjects
<1> HIDE DEF more
<1>4. PICK S : got \in Seq(S)
  BY <1>2 DEF Collected
<1>5. /\ \E U : got' \in Seq(U)
      /\ \A k \in DOMAIN got' :
           (\E j \in DOMAIN got : got'[k] = got[j]) \/ (\E j \in DOMAIN more : got'[k] = more[j])
      /\ \A k \in DOMAIN got : \E j \in DOMAIN got' : got'[j] = got[k]
      /\ \A k \in DOMAIN more : \E j \in DOMAIN got' : got'[j] = more[k]
  BY <1>1, <1>2, <1>3, <1>4, ListingGrows DEF more
<1>6. i \in selectTargets(served) /\ cluster \in moments
  BY <1>2 DEF Collected
<1>7. \A k \in DOMAIN more : Listed(more[k])
  BY <1>3, <1>6 DEF Listed
<1>8. \A k \in DOMAIN got' : Listed(got'[k])
  BY <1>2, <1>5, <1>7 DEF Collected
<1>9. (\A k \in DOMAIN got : Listed(got[k]))'
  BY <1>2, <1>8 DEF Listed
<1>10. ASSUME NEW j \in selectTargets(served) \ todo' PROVE ListedWhole(j)'
  <2>1. CASE j = i
    <3>1. \A o \in cluster : isOf(o, served[j]) => \E k \in DOMAIN got' : got'[k] = listedAs(o, served[j])
      BY <1>3, <1>5, <2>1
    <3> QED
      BY <1>2, <1>6, <3>1 DEF ListedWhole
  <2>2. CASE j # i
    <3>1. PICK m \in moments : \A o \in m :
            isOf(o, served[j]) => \E k \in DOMAIN got : got[k] = listedAs(o, served[j])
      BY <1>1, <1>2, <2>2 DEF Collected, ListedWhole
    <3>2. \A o \in m : isOf(o, served[j]) => \E k \in DOMAIN got' : got'[k] = listedAs(o, served[j])
      BY <1>5, <3>1
    <3> QED
      BY <1>2, <3>2 DEF ListedWhole
  <2> QED
    BY <2>1, <2>2
<1> QED
  BY <1>1, <1>2, <1>5, <1>6, <1>9, <1>10 DEF Collected

(* The other steps list nothing.                                           *)
LEMMA OthersKeepCollected ==
  ASSUME LiveInv, World, Collected, [LNext]_lvars, ~List
  PROVE  Collected'
<1> USE DEF Collected, Listed, ListedWhole, LiveInv
<1>1. CASE Resolve \/ ResolveFails \/ ApiFails \/ BuildFails
  BY <1>1 DEF Resolve, ResolveFails, ApiFails, BuildFails, exitWithError
<1>2. CASE Discover
  <2>1. got' = <<>> /\ todo' = selectTargets(served') /\ moments' = {cluster'} /\ phase' = "list"
    BY <1>2 DEF Discover
  <2>2. \E S : got' \in Seq(S)
    BY <2>1
  <2> QED
    BY <1>2, <2>1, <2>2 DEF Discover
<1>3. CASE Build
  BY <1>3 DEF Build
<1>4. CASE Verify
  BY <1>4, NothingVerifiedBefore DEF Verify, liveVars
<1>5. CASE ChangeApi
  BY <1>5 DEF ChangeApi
<1>6. ASSUME NEW w \in Writes, Write(w) PROVE Collected'
  <2>1. /\ UNCHANGED <<served, phase, todo, kindScope, got>>
        /\ moments \subseteq moments'
        /\ phase = "list" => cluster' \in moments'
    BY <1>6 DEF Write
  <2>2. phase # "checked"
    BY <1>6 DEF Write, reading
  <2>3. ASSUME NEW k \in DOMAIN got, Listed(got[k]) PROVE Listed(got[k])'
    <3>1. PICK i \in selectTargets(served), m \in moments :
            \E o \in m : isOf(o, served[i]) /\ got[k] = listedAs(o, served[i])
      BY <2>3
    <3>2. m \in moments' /\ i \in selectTargets(served')
      BY <2>1
    <3> QED
      BY <2>1, <3>1, <3>2
  <2>4. ASSUME NEW i, ListedWhole(i) PROVE ListedWhole(i)'
    <3>1. PICK m \in moments : \A o \in m :
            isOf(o, served[i]) => \E k \in DOMAIN got : got[k] = listedAs(o, served[i])
      BY <2>4
    <3> QED
      BY <2>1, <3>1
  <2> HIDE DEF Listed, ListedWhole
  <2> QED
    BY <2>1, <2>2, <2>3, <2>4
<1>7. CASE UNCHANGED lvars
  <2>1. UNCHANGED <<served, phase, todo, kindScope, got, moments, cluster>>
    BY <1>7 DEF lvars, liveVars
  <2> QED
    BY <2>1 DEF isOf, listedAs
<1> QED
  BY <1>1, <1>2, <1>3, <1>4, <1>5, <1>6, <1>7 DEF LNext, Step

(* The server keeps to its rules, whatever it serves and others write.     *)
LEMMA WorldKept ==
  ASSUME Ruled, LiveInv, World, [LNext]_lvars
  PROVE  World'
<1> USE DEF World
<1>1. CASE Resolve \/ ResolveFails \/ ApiFails \/ BuildFails
  BY <1>1 DEF Resolve, ResolveFails, ApiFails, BuildFails, exitWithError
<1>2. CASE Discover
  BY <1>2 DEF Discover
<1>3. CASE List \/ Build
  BY <1>3 DEF List, Build
<1>4. CASE Verify
  BY <1>4 DEF Verify, liveVars
<1>5. CASE ChangeApi
  BY <1>5 DEF ChangeApi
<1>6. ASSUME NEW w \in Writes, Write(w) PROVE World'
  <2>1. SaneObjects(w.put, Discoveries)
    BY <1>6 DEF Ruled, Sane
  <2>2. SaneObjects(cluster', Discoveries)
    BY <1>6, <2>1, WriteKeepsSane
  <2>3. check' = check /\ served' = served /\ moments' \subseteq moments \cup {cluster'}
    BY <1>6 DEF Write
  <2> QED
    BY <2>2, <2>3
<1>7. CASE UNCHANGED lvars
  <2>1. UNCHANGED <<check, served, cluster, moments>>
    BY <1>7 DEF lvars, liveVars
  <2> QED
    BY <2>1
<1> QED
  BY <1>1, <1>2, <1>3, <1>4, <1>5, <1>6, <1>7 DEF LNext, Step

(* The call is made of the command line, and then of what was listed       *)
(* (main.go:256-258, 288-291).                                             *)
LEMMA AskedKept ==
  ASSUME LiveInv, Asked, [LNext]_lvars
  PROVE  Asked'
<1> USE DEF Asked
<1>1. CASE Resolve
  <2>1. /\ call' = [noCall EXCEPT !.mode = check.mode,
                                  !.a = parseAction(check.verb, ResolveKind(served, check.token),
                                                    check.ns, check.name)]
        /\ check' = check /\ phase' = "discover" /\ check.verb \in liveVerbs
    BY <1>1 DEF Resolve
  <2>2. /\ call'.mode = check.mode
        /\ call'.a = parseAction(check.verb, ResolveKind(served, check.token), check.ns, check.name)
    BY <2>1 DEF noCall
  <2>3. \A v, k, n, m : parseAction(v, k, n, m).target.kind = k
    BY DEF parseAction
  <2>4. call'.a.target.kind = ResolveKind(served, check.token)
    BY <2>2, <2>3
  <2> QED
    BY <2>1, <2>2, <2>4
<1>2. CASE ResolveFails \/ ApiFails \/ BuildFails
  BY <1>2 DEF ResolveFails, ApiFails, BuildFails, exitWithError
<1>3. CASE Discover \/ List \/ ChangeApi
  BY <1>3 DEF Discover, List, ChangeApi, allVars
<1>4. CASE Build
  <2>1. /\ call' = [call EXCEPT !.s = NewScanState(BuildObjects(got, kindScope)),
                                !.scope = Derive(call.a.target)]
        /\ UNCHANGED <<check, got, kindScope>> /\ phase = "list" /\ phase' = "checked"
    BY <1>4 DEF Build
  <2>2. /\ call'.a = call.a /\ call'.mode = call.mode
        /\ call'.s = NewScanState(BuildObjects(got, kindScope))
        /\ call'.scope = Derive(call.a.target)
    BY <2>1 DEF LiveInv, CallIsRecord
  <2> QED
    BY <2>1, <2>2
<1>5. CASE Verify
  <2>1. UNCHANGED call /\ UNCHANGED <<check, phase, got, kindScope>>
    BY <1>5, CheckStepsWalk DEF Verify, liveVars
  <2> QED
    BY <2>1
<1>6. ASSUME NEW w \in Writes, Write(w) PROVE Asked'
  <2>1. UNCHANGED <<call, check, phase, got, kindScope>>
    BY <1>6 DEF Write, allVars
  <2> QED
    BY <2>1
<1>7. CASE UNCHANGED lvars
  <2>1. UNCHANGED <<call, check, phase, got, kindScope>>
    BY <1>7 DEF lvars, allVars, liveVars
  <2> QED
    BY <2>1
<1> QED
  BY <1>1, <1>2, <1>3, <1>4, <1>5, <1>6, <1>7 DEF LNext, Step

(* And every step of the check and of other clients keeps it.              *)
LEMMA ReadNextKeeps ==
  ASSUME Ruled, ReadInv, [LNext]_lvars
  PROVE  ReadInv'
  BY LiveNextKeeps, WorldKept, ListCollects, OthersKeepCollected, AskedKept DEF ReadInv

(* The read of the cluster collects what it should, throughout a check.    *)
LEMMA ReadInvariant == Sane(Discoveries, Clusters, Writes) => (LSpec => []ReadInv)
<1> SUFFICES ASSUME Sane(Discoveries, Clusters, Writes), Ruled PROVE LSpec => []ReadInv
  BY DEF Ruled, Sane
<1>1. LInit => ReadInv
  BY ReadInitEstablishes
<1>2. ReadInv /\ [LNext]_lvars => ReadInv'
  BY ReadNextKeeps
<1> QED
  BY <1>1, <1>2, PTL DEF LSpec

-----------------------------------------------------------------------------
(* The State that is built.                                                *)

(* Both maps lead to tracked objects, by their uid and by their name, and   *)
(* every object has its entries.                                           *)
Indexed(s) ==
  /\ \A u \in DOMAIN s.byUID : u # "" /\ s.byUID[u] \in s.objs /\ s.byUID[u].ref.uid = u
  /\ \A h \in DOMAIN s.byHuman : s.byHuman[h] \in s.objs /\ human(s.byHuman[h].ref) = h
  /\ \A o \in s.objs :
       /\ o.ref.uid # "" => o.ref.uid \in DOMAIN s.byUID
       /\ human(o.ref) \in DOMAIN s.byHuman

(* NewScanState indexes every object by uid and by name (state.go:29-58).  *)
LEMMA ScanStateIs ==
  ASSUME NEW n \in Nat, NEW seq, DOMAIN seq \subseteq 1..n
  PROVE  /\ NewScanState(seq).objs = {seq[i] : i \in DOMAIN seq}
         /\ Indexed(NewScanState(seq))
<1> DEFINE s        == NewScanState(seq)
           elements == {seq[i] : i \in DOMAIN seq}
           hasUID(u)   == {i \in DOMAIN seq : seq[i].ref.uid = u}
           hasName(h)  == {i \in DOMAIN seq : human(seq[i].ref) = h}
           lastUID(u)  == CHOOSE i \in DOMAIN seq :
                            seq[i].ref.uid = u /\ \A j \in DOMAIN seq : seq[j].ref.uid = u => j <= i
           lastName(h) == CHOOSE i \in DOMAIN seq :
                            human(seq[i].ref) = h /\ \A j \in DOMAIN seq : human(seq[j].ref) = h => j <= i
<1>1. /\ s.objs = elements
      /\ s.byUID = [u \in {o.ref.uid : o \in elements} \ {""} |-> seq[lastUID(u)]]
      /\ s.byHuman = [h \in {human(o.ref) : o \in elements} |-> seq[lastName(h)]]
  BY DEF NewScanState
<1>2. ASSUME NEW i \in DOMAIN seq
      PROVE  lastUID(seq[i].ref.uid) \in DOMAIN seq
               /\ seq[lastUID(seq[i].ref.uid)].ref.uid = seq[i].ref.uid
  <2> DEFINE u == seq[i].ref.uid
  <2>1. hasUID(u) \subseteq 1..n /\ hasUID(u) # {}
    OBVIOUS
  <2>2. PICK l \in hasUID(u) : \A j \in hasUID(u) : j <= l
    <3> HIDE DEF hasUID
    <3> QED
      BY <2>1, LastPlace
  <2>3. \E l1 \in DOMAIN seq :
          seq[l1].ref.uid = u /\ \A j \in DOMAIN seq : seq[j].ref.uid = u => j <= l1
    BY <2>2
  <2> QED
    BY <2>3
<1>3. ASSUME NEW i \in DOMAIN seq
      PROVE  lastName(human(seq[i].ref)) \in DOMAIN seq
               /\ human(seq[lastName(human(seq[i].ref))].ref) = human(seq[i].ref)
  <2> DEFINE h == human(seq[i].ref)
  <2>1. hasName(h) \subseteq 1..n /\ hasName(h) # {}
    OBVIOUS
  <2>2. PICK l \in hasName(h) : \A j \in hasName(h) : j <= l
    <3> HIDE DEF hasName
    <3> QED
      BY <2>1, LastPlace
  <2>3. \E l1 \in DOMAIN seq :
          human(seq[l1].ref) = h /\ \A j \in DOMAIN seq : human(seq[j].ref) = h => j <= l1
    BY <2>2
  <2> QED
    BY <2>3
<1> HIDE DEF s, lastUID, lastName
<1>4. \A u \in DOMAIN s.byUID : u # "" /\ s.byUID[u] \in s.objs /\ s.byUID[u].ref.uid = u
  <2> SUFFICES ASSUME NEW u \in DOMAIN s.byUID
               PROVE  u # "" /\ s.byUID[u] \in s.objs /\ s.byUID[u].ref.uid = u
    OBVIOUS
  <2>3. u \in {o.ref.uid : o \in elements} \ {""}
    BY <1>1
  <2>4. PICK o \in elements : u = o.ref.uid
    BY <2>3
  <2>1. u # "" /\ s.byUID[u] = seq[lastUID(u)] /\ \E i \in DOMAIN seq : u = seq[i].ref.uid
    BY <1>1, <2>3, <2>4
  <2>2. seq[lastUID(u)] \in s.objs /\ seq[lastUID(u)].ref.uid = u
    BY <1>1, <1>2, <2>1
  <2> QED
    BY <2>1, <2>2
<1>5. \A h \in DOMAIN s.byHuman : s.byHuman[h] \in s.objs /\ human(s.byHuman[h].ref) = h
  <2> SUFFICES ASSUME NEW h \in DOMAIN s.byHuman
               PROVE  s.byHuman[h] \in s.objs /\ human(s.byHuman[h].ref) = h
    OBVIOUS
  <2>3. h \in {human(o.ref) : o \in elements}
    BY <1>1
  <2>4. PICK o \in elements : h = human(o.ref)
    BY <2>3
  <2>1. s.byHuman[h] = seq[lastName(h)] /\ \E i \in DOMAIN seq : h = human(seq[i].ref)
    BY <1>1, <2>3, <2>4
  <2>2. seq[lastName(h)] \in s.objs /\ human(seq[lastName(h)].ref) = h
    BY <1>1, <1>3, <2>1
  <2> QED
    BY <2>1, <2>2
<1>6. \A o \in s.objs :
        /\ o.ref.uid # "" => o.ref.uid \in DOMAIN s.byUID
        /\ human(o.ref) \in DOMAIN s.byHuman
  BY <1>1
<1> QED
  BY <1>1, <1>4, <1>5, <1>6 DEF s, Indexed

(* Each wanted resource is asked for under its first name                  *)
(* (reader.go:175-207).                                                  *)
LEMMA SelectTargetsAre ==
  ASSUME NEW lists, SaneApi(lists)
  PROVE  /\ \A i \in selectTargets(lists) : i \in DOMAIN lists /\ wanted(lists[i])
         /\ \A i \in DOMAIN lists : wanted(lists[i]) =>
              \E j \in selectTargets(lists) :
                lists[j].kind = lists[i].kind /\ lists[j].group = lists[i].group
<1> SUFFICES ASSUME NEW i \in DOMAIN lists, wanted(lists[i])
             PROVE  \E j \in selectTargets(lists) :
                      lists[j].kind = lists[i].kind /\ lists[j].group = lists[i].group
  BY DEF selectTargets
<1> DEFINE same == {j \in DOMAIN lists : wanted(lists[j]) /\ gvr(lists[j]) = gvr(lists[i])}
<1>1. same \subseteq Nat /\ same # {}
  BY DEF SaneApi
<1>2. PICK j \in same : \A k \in same : j <= k
  <2> HIDE DEF same
  <2> QED
    BY <1>1, FirstPlace
<1>3. j \in selectTargets(lists)
  BY <1>2 DEF selectTargets
<1>4. lists[j].group = lists[i].group
  BY DEF gvr
<1>5. lists[j].kind = lists[i].kind
  BY DEF SaneApi
<1> QED
  BY <1>3, <1>4, <1>5

(* A listed object keeps its namespace: its resource is namespaced exactly *)
(* when it has one (build.go:122-137).                                     *)
LEMMA NamespaceRead ==
  ASSUME NEW lists, SaneApi(lists), NEW i \in DOMAIN lists, ~lists[i].subresource,
         NEW o, isOf(o, lists[i]), lists[i].namespaced <=> o.ns # ""
  PROVE  resolveNamespace(listedAs(o, lists[i]), scopeFromLists(lists)) = o.ns
<1> DEFINE kinds  == {j \in DOMAIN lists : ~lists[j].subresource}
           gvk(j) == <<apiVersion(lists[j]), lists[j].kind>>
           scope  == scopeFromLists(lists)
           alike  == {j \in kinds : gvk(j) = gvk(i)}
<1>1. /\ DOMAIN scope = {gvk(j) : j \in kinds}
      /\ \A g \in DOMAIN scope :
           scope[g] = \E j \in kinds : /\ gvk(j) = g /\ lists[j].namespaced
                                       /\ \A k \in kinds : gvk(k) = g => k <= j
  BY DEF scopeFromLists
<1>2. i \in kinds /\ gvk(i) \in DOMAIN scope
  BY <1>1
<1>3. \A j \in alike : lists[j].namespaced = lists[i].namespaced
  BY DEF SaneApi
<1>4. \E j \in alike : \A k \in alike : k <= j
  <2>1. alike \subseteq 1..Len(lists) /\ alike # {} /\ Len(lists) \in Nat
    BY <1>2 DEF SaneApi
  <2> HIDE DEF alike
  <2> QED
    BY <2>1, LastPlace
<1>5. scope[gvk(i)] <=> lists[i].namespaced
  <2>1. scope[gvk(i)] <=> \E j \in kinds : /\ gvk(j) = gvk(i) /\ lists[j].namespaced
                                           /\ \A k \in kinds : gvk(k) = gvk(i) => k <= j
    BY <1>1, <1>2
  <2>2. ASSUME lists[i].namespaced PROVE scope[gvk(i)]
    <3>1. PICK j \in alike : \A k \in alike : k <= j
      BY <1>4
    <3>2. j \in kinds /\ gvk(j) = gvk(i) /\ lists[j].namespaced
      BY <1>3, <2>2
    <3> QED
      BY <2>1, <3>1, <3>2
  <2>3. ASSUME scope[gvk(i)] PROVE lists[i].namespaced
    BY <1>3, <2>1, <2>3
  <2> QED
    BY <2>2, <2>3
<1> DEFINE item == listedAs(o, lists[i])
<1>6. item.ns = o.ns /\ <<item.apiVersion, item.kind>> = gvk(i)
  BY DEF listedAs, isOf
<1> HIDE DEF scope, item, gvk, kinds
<1> QED
  BY <1>2, <1>5, <1>6 DEF resolveNamespace, scope, item

-----------------------------------------------------------------------------
(* The State that was read stands for the cluster.                         *)

(* The read is over.                                                       *)
AfterRead == Ruled /\ ReadInv /\ phase = "checked"

(* And the API served no kind in two groups, of which the index would keep *)
(* one object for both.                                                    *)
Snapshot == AfterRead /\ OneGroup(Discoveries)

(* o was live at some moment of the read, and of a resource that is listed. *)
WasRead(o) == \E i \in selectTargets(served), m \in moments : o \in m /\ isOf(o, served[i])

(* What was there to read from the first list to the last.                 *)
firm == visible(steady)

(* The name an object is filed under when it has no uid.                   *)
named3(o) == <<o.kind, o.ns, o.name>>

(* b, built from an item of o, has o's properties; its references carry    *)
(* the uids of the index.                                                  *)
Stands(b, o) ==
  /\ b.ref.kind = o.kind /\ b.ref.ns = o.ns /\ b.ref.name = o.name /\ b.ref.uid = o.uid
  /\ b.labels = o.labels /\ b.selector = selectorFrom(o) /\ b.owners = o.owners
  /\ b.crossRefs = {crossRef(r, o.ns, newNameUIDIndex(got, kindScope)) : r \in o.refs}

(* An item carries the properties of its object.                           *)
CarriesOf(item, o) ==
  /\ item.kind = o.kind /\ item.ns = o.ns /\ item.name = o.name /\ item.uid = o.uid
  /\ item.labels = o.labels /\ item.selector = o.selector /\ item.owners = o.owners
  /\ item.refs = o.refs

(* The item of an object in a list carries its properties                  *)
(* (reader.go:249-275).                                                    *)
LEMMA ListedCarries ==
  ASSUME NEW o, NEW res
  PROVE  CarriesOf(listedAs(o, res), o)
  BY DEF CarriesOf, listedAs

(* Each firm object is among what was listed.                              *)
LEMMA FirmIsListed ==
  ASSUME Snapshot, NEW o \in firm
  PROVE  /\ WasRead(o) /\ \A m \in moments : o \in m
         /\ \E k \in DOMAIN got : got[k].uid = o.uid
<1>1. (\A m \in moments : o \in m) /\ cluster \in moments /\ todo = {}
  BY DEF Snapshot, AfterRead, ReadInv, Collected, firm, visible, steady
<1>2. PICK j \in DOMAIN served : wanted(served[j]) /\ isOf(o, served[j])
  BY DEF firm, visible, wanted, followed, supportsList, isOf
<1>3. SaneApi(served)
  BY DEF Snapshot, AfterRead, ReadInv, World, Ruled, Sane
<1>4. PICK i \in selectTargets(served) : served[i].kind = served[j].kind /\ served[i].group = served[j].group
  BY <1>2, <1>3, SelectTargetsAre
<1>5. isOf(o, served[i])
  BY <1>2, <1>4 DEF isOf
<1>6. PICK m \in moments : \A x \in m :
        isOf(x, served[i]) => \E k \in DOMAIN got : got[k] = listedAs(x, served[i])
  BY <1>1 DEF Snapshot, AfterRead, ReadInv, Collected, ListedWhole
<1>7. PICK k \in DOMAIN got : got[k] = listedAs(o, served[i])
  BY <1>1, <1>5, <1>6
<1>8. CarriesOf(got[k], o)
  BY <1>7, ListedCarries
<1> QED
  BY <1>1, <1>5, <1>8 DEF WasRead, CarriesOf

(* No other object was ever read under the uid or the name of a firm one.  *)
LEMMA FirmIsUnique ==
  ASSUME Snapshot, NEW o \in firm, NEW x, WasRead(x), x.uid = o.uid \/ named3(x) = named3(o)
  PROVE  x = o
<1>1. PICK i \in selectTargets(served), m \in moments : x \in m /\ isOf(x, served[i])
  BY DEF WasRead
<1>2. o \in m
  BY FirmIsListed
<1>3. PICK j \in selectTargets(served) : isOf(o, served[j])
  BY FirmIsListed DEF WasRead
<1>4. SaneApi(served) /\ SaneObjects(m, Discoveries)
  BY DEF Snapshot, AfterRead, ReadInv, World, Ruled, Sane
<1>5. /\ i \in DOMAIN served /\ wanted(served[i])
      /\ j \in DOMAIN served /\ wanted(served[j])
  BY <1>4, SelectTargetsAre
<1>6. CASE x.uid = o.uid
  BY <1>1, <1>2, <1>4, <1>6 DEF SaneObjects
<1>7. CASE named3(x) = named3(o)
  <2>1. served[i].kind = served[j].kind
    BY <1>1, <1>3, <1>7 DEF named3, isOf
  <2>2. served[i].group = served[j].group
    BY <1>5, <2>1 DEF Snapshot, AfterRead, ReadInv, World, OneGroup
  <2>3. identity(x) = identity(o)
    BY <1>1, <1>3, <1>7, <2>2 DEF named3, isOf, identity
  <2> QED
    BY <1>1, <1>2, <1>4, <2>3 DEF SaneObjects
<1> QED
  BY <1>6, <1>7

(* Every item is of an object that was read, and is filed under its name.  *)
LEMMA ItemsAreRead ==
  ASSUME AfterRead, NEW k \in DOMAIN got
  PROVE  \E o : /\ WasRead(o) /\ o.uid # ""
                /\ filedAs(got[k], kindScope) = named3(o)
                /\ resolveNamespace(got[k], kindScope) = o.ns
                /\ CarriesOf(got[k], o)
<1>1. PICK i \in selectTargets(served), m \in moments : \E o \in m :
        isOf(o, served[i]) /\ got[k] = listedAs(o, served[i])
  BY DEF AfterRead, ReadInv, Collected, Listed
<1>2. PICK o \in m : isOf(o, served[i]) /\ got[k] = listedAs(o, served[i])
  BY <1>1
<1>3. SaneApi(served) /\ SaneObjects(m, Discoveries) /\ served \in Discoveries
  BY DEF AfterRead, ReadInv, World, Ruled, Sane
<1>4. i \in DOMAIN served /\ wanted(served[i])
  BY <1>3, SelectTargetsAre
<1>5. ~served[i].subresource
  BY <1>4 DEF wanted
<1>6. served[i].namespaced <=> o.ns # ""
  BY <1>2, <1>3, <1>4, <1>5 DEF SaneObjects, isOf
<1>7. kindScope = scopeFromLists(served)
  BY DEF AfterRead, ReadInv, Collected
<1>8. resolveNamespace(got[k], kindScope) = o.ns
  BY <1>2, <1>3, <1>4, <1>5, <1>6, <1>7, NamespaceRead
<1>9. filedAs(got[k], kindScope) = named3(o)
  BY <1>2, <1>8 DEF filedAs, named3, listedAs
<1>10. WasRead(o) /\ o.uid # ""
  BY <1>1, <1>2, <1>3 DEF WasRead, SaneObjects
<1>11. CarriesOf(got[k], o)
  BY <1>2, ListedCarries
<1> QED
  BY <1>8, <1>9, <1>10, <1>11

(* The items that were read are a finite sequence.                         *)
LEMMA GotIsSequence ==
  ASSUME AfterRead
  PROVE  Len(got) \in Nat /\ DOMAIN got = 1..Len(got)
<1>1. PICK S : got \in Seq(S)
  BY DEF AfterRead, ReadInv, Collected
<1> QED
  BY <1>1

(* The index gives each name the uid of an object read under that name, and *)
(* knows the name of every firm object (build.go:44-58).                   *)
LEMMA IndexIs ==
  ASSUME Snapshot
  PROVE  LET ix == newNameUIDIndex(got, kindScope)
         IN  /\ \A h \in DOMAIN ix : \E x : WasRead(x) /\ named3(x) = h /\ ix[h] = x.uid /\ x.uid # ""
             /\ \A o \in firm : named3(o) \in DOMAIN ix
<1> DEFINE ix      == newNameUIDIndex(got, kindScope)
           filed   == {j \in DOMAIN got : got[j].uid # ""}
           last(h) == CHOOSE i \in DOMAIN got :
                        /\ got[i].uid # "" /\ filedAs(got[i], kindScope) = h
                        /\ \A j \in DOMAIN got :
                             got[j].uid # "" /\ filedAs(got[j], kindScope) = h => j <= i
           under(h) == {j \in filed : filedAs(got[j], kindScope) = h}
<1>1. /\ DOMAIN ix = {filedAs(got[i], kindScope) : i \in filed}
      /\ \A h \in DOMAIN ix : ix[h] = got[last(h)].uid
  BY DEF newNameUIDIndex
<1>2. \A i \in DOMAIN got : \E o : /\ WasRead(o) /\ o.uid # ""
                                   /\ filedAs(got[i], kindScope) = named3(o) /\ got[i].uid = o.uid
  BY ItemsAreRead DEF CarriesOf, Snapshot
<1>3. ASSUME NEW h \in DOMAIN ix
      PROVE  last(h) \in DOMAIN got /\ filedAs(got[last(h)], kindScope) = h
  <2>1. \E i \in filed : filedAs(got[i], kindScope) = h
    BY <1>1
  <2>2. Len(got) \in Nat /\ under(h) \subseteq 1..Len(got) /\ under(h) # {}
    BY <2>1, GotIsSequence DEF Snapshot
  <2>3. PICK i \in under(h) : \A j \in under(h) : j <= i
    <3> HIDE DEF under
    <3> QED
      BY <2>2, LastPlace
  <2>4. \E i1 \in DOMAIN got :
          /\ got[i1].uid # "" /\ filedAs(got[i1], kindScope) = h
          /\ \A j \in DOMAIN got : got[j].uid # "" /\ filedAs(got[j], kindScope) = h => j <= i1
    BY <2>3
  <2> QED
    BY <2>4
<1> HIDE DEF last
<1>4. ASSUME NEW h \in DOMAIN ix
      PROVE  \E x : WasRead(x) /\ named3(x) = h /\ ix[h] = x.uid /\ x.uid # ""
  <2>1. PICK x : /\ WasRead(x) /\ x.uid # ""
                 /\ filedAs(got[last(h)], kindScope) = named3(x) /\ got[last(h)].uid = x.uid
    BY <1>2, <1>3
  <2> QED
    BY <1>1, <1>3, <2>1
<1>5. ASSUME NEW o \in firm PROVE named3(o) \in DOMAIN ix
  <2>1. PICK k \in DOMAIN got : got[k].uid = o.uid
    BY FirmIsListed
  <2>2. PICK x : /\ WasRead(x) /\ x.uid # ""
                 /\ filedAs(got[k], kindScope) = named3(x) /\ got[k].uid = x.uid
    BY <1>2
  <2>3. x = o
    BY <2>1, <2>2, FirmIsUnique
  <2> QED
    BY <1>1, <2>2, <2>3
<1> QED
  BY <1>4, <1>5

(* Every object of the State stands for one that was read, and every firm  *)
(* object is stood for: BuildObjects (build.go:74-95) drops nothing.       *)
LEMMA ObjectsStand ==
  ASSUME Snapshot
  PROVE  /\ \A b \in call.s.objs : \E o : WasRead(o) /\ o.uid # "" /\ Stands(b, o)
         /\ \A o \in firm : \E b \in call.s.objs : Stands(b, o)
<1> DEFINE ix == newNameUIDIndex(got, kindScope)
           built(k) == buildOne(got[k], kindScope, ix)
<1>1. call.s.objs = {built(k) : k \in DOMAIN got}
  <2>1. call.s = NewScanState(BuildObjects(got, kindScope))
    BY DEF Snapshot, AfterRead, ReadInv, Asked
  <2> DEFINE seq == BuildObjects(got, kindScope)
             n   == Len(got)
  <2>2. DOMAIN seq = DOMAIN got /\ \A k \in DOMAIN got : seq[k] = built(k)
    BY DEF BuildObjects
  <2>3. n \in Nat /\ DOMAIN seq = 1..n
    BY <2>2, GotIsSequence DEF Snapshot
  <2> HIDE DEF built, seq, n
  <2>4. NewScanState(seq).objs = {seq[k] : k \in DOMAIN seq}
    BY <2>3, ScanStateIs
  <2> QED
    BY <2>1, <2>2, <2>4 DEF seq
<1>2. ASSUME NEW k \in DOMAIN got
      PROVE  \E o : WasRead(o) /\ o.uid # "" /\ Stands(built(k), o) /\ got[k].uid = o.uid
  <2>1. PICK o : /\ WasRead(o) /\ o.uid # "" /\ resolveNamespace(got[k], kindScope) = o.ns
                 /\ CarriesOf(got[k], o)
    BY ItemsAreRead DEF Snapshot
  <2>2. /\ got[k].kind = o.kind /\ got[k].name = o.name /\ got[k].uid = o.uid
        /\ got[k].labels = o.labels /\ got[k].selector = o.selector /\ got[k].owners = o.owners
        /\ got[k].refs = o.refs
    BY <2>1 DEF CarriesOf
  <2>3. selectorFrom(got[k]) = selectorFrom(o)
    BY <2>2 DEF selectorFrom
  <2>4. Stands(built(k), o)
    BY <2>1, <2>2, <2>3 DEF Stands, buildOne
  <2> QED
    BY <2>1, <2>2, <2>4
<1> HIDE DEF built
<1>3. ASSUME NEW o \in firm PROVE \E b \in call.s.objs : Stands(b, o)
  <2>1. PICK k \in DOMAIN got : got[k].uid = o.uid
    BY FirmIsListed
  <2>2. PICK x : WasRead(x) /\ Stands(built(k), x) /\ got[k].uid = x.uid
    BY <1>2
  <2>3. x = o
    BY <2>1, <2>2, FirmIsUnique
  <2> QED
    BY <1>1, <2>2, <2>3
<1> QED
  BY <1>1, <1>2, <1>3

(* What the State knows of a ref it is asked for (state.go:61-71).         *)
LEMMA StateLooksUp ==
  ASSUME AfterRead
  PROVE  /\ \A r : tracked(call.s, r) => lookup(call.s, r) \in call.s.objs
         /\ \A r : r.uid # "" /\ knownUID(call.s, r) => lookup(call.s, r).ref.uid = r.uid
         /\ \A r : r.uid = "" /\ tracked(call.s, r) => human(lookup(call.s, r).ref) = human(r)
         /\ \A b \in call.s.objs : \A r :
              /\ r.uid = b.ref.uid /\ r.uid # "" => knownUID(call.s, r) /\ tracked(call.s, r)
              /\ human(r) = human(b.ref) => tracked(call.s, r)
<1>1. call.s = NewScanState(BuildObjects(got, kindScope))
  BY DEF AfterRead, ReadInv, Asked
<1> DEFINE seq == BuildObjects(got, kindScope)
           n   == Len(got)
           s   == call.s
<1>2. n \in Nat /\ DOMAIN seq = 1..n
  BY GotIsSequence DEF BuildObjects
<1> HIDE DEF seq, n
<1>4. s = NewScanState(seq)
  BY <1>1 DEF seq
<1>3. Indexed(s)
  BY <1>2, <1>4, ScanStateIs
<1> QED
  BY <1>3 DEF Indexed, tracked, lookup, knownUID

-----------------------------------------------------------------------------
(* The relations of the State are those of the live objects.               *)

(* A reference of the State matches a firm object exactly when it names    *)
(* it: if the index knows the name, it gives it that object's uid, and the *)
(* uid of a firm object is under no other name (crossref.go:62-83).        *)
LEMMA ReferencesMatch ==
  ASSUME Snapshot, NEW o \in firm, NEW b, Stands(b, o), NEW r, NEW ns
  PROVE  crossRefMatches(crossRef(r, ns, newNameUIDIndex(got, kindScope)).ref, b.ref)
           <=> <<r.to, ns, r.name>> = named3(o)
<1> DEFINE ix == newNameUIDIndex(got, kindScope)
           h  == <<r.to, ns, r.name>>
           cr == crossRef(r, ns, ix)
<1>1. human(cr.ref) = h /\ cr.ref.uid = uidFor(ix, h)
  BY DEF crossRef, human
<1>2. human(b.ref) = named3(o) /\ b.ref.uid = o.uid
  BY DEF Stands, human, named3
<1>3. o.uid # ""
  <2>1. PICK m \in moments : o \in m
    BY FirmIsListed DEF WasRead
  <2> QED
    BY <2>1 DEF Snapshot, AfterRead, ReadInv, World, SaneObjects
<1>4. /\ \A n \in DOMAIN ix : \E x : WasRead(x) /\ named3(x) = n /\ ix[n] = x.uid /\ x.uid # ""
      /\ named3(o) \in DOMAIN ix
  BY IndexIs
<1> HIDE DEF cr, h, ix
<1>5. ASSUME NEW x, WasRead(x), x.uid = o.uid \/ named3(x) = named3(o) PROVE x = o
  BY <1>5, FirmIsUnique
<1>6. CASE h \in DOMAIN ix
  <2>1. PICK x : WasRead(x) /\ named3(x) = h /\ ix[h] = x.uid /\ x.uid # ""
    BY <1>4, <1>6
  <2>2. cr.ref.uid = x.uid
    BY <1>1, <1>6, <2>1 DEF uidFor
  <2>3. crossRefMatches(cr.ref, b.ref) <=> x.uid = o.uid
    BY <1>2, <1>3, <2>1, <2>2 DEF crossRefMatches
  <2> QED
    BY <1>5, <2>1, <2>3 DEF cr, h, ix
<1>7. CASE h \notin DOMAIN ix
  <2>1. cr.ref.uid = ""
    BY <1>1, <1>7 DEF uidFor
  <2>2. crossRefMatches(cr.ref, b.ref) <=> h = named3(o)
    BY <1>1, <1>2, <2>1 DEF crossRefMatches
  <2> QED
    BY <2>2 DEF cr, h, ix
<1> QED
  BY <1>6, <1>7

(* References between a firm object and one that stands in the State are   *)
(* those between the live objects (crossref.go).                           *)
LEMMA ReferencesStand ==
  ASSUME Snapshot, NEW o \in firm, NEW b, Stands(b, o), NEW y, NEW c, Stands(c, y),
         NEW scaling
  PROVE  RefersTo(c, b, scaling) <=> RefersTo(view(y), view(o), scaling)
<1> DEFINE ix     == newNameUIDIndex(got, kindScope)
           cr(r)  == crossRef(r, y.ns, ix)
           cv(r)  == [kind |-> r.kind,
                      ref |-> [kind |-> r.to, group |-> noGroup, ns |-> y.ns, name |-> r.name, uid |-> ""]]
           hits(r) == /\ (r.kind = "RefScaleTarget") = scaling
                      /\ <<r.to, y.ns, r.name>> = named3(o)
<1>1. c.crossRefs = {cr(r) : r \in y.refs} /\ view(y).crossRefs = {cv(r) : r \in y.refs}
  BY DEF Stands, view
<1>2. ASSUME NEW r
      PROVE  ((cr(r).kind = "RefScaleTarget") = scaling /\ crossRefMatches(cr(r).ref, b.ref))
               <=> hits(r)
  <2>1. cr(r).kind = r.kind
    BY DEF crossRef
  <2>2. crossRefMatches(cr(r).ref, b.ref) <=> <<r.to, y.ns, r.name>> = named3(o)
    BY ReferencesMatch
  <2> HIDE DEF cr
  <2> QED
    BY <2>1, <2>2
<1>3. ASSUME NEW r
      PROVE  ((cv(r).kind = "RefScaleTarget") = scaling /\ crossRefMatches(cv(r).ref, view(o).ref))
               <=> hits(r)
  <2>1. cv(r).kind = r.kind /\ cv(r).ref.uid = "" /\ human(cv(r).ref) = <<r.to, y.ns, r.name>>
    BY DEF human
  <2>2. human(view(o).ref) = named3(o)
    BY DEF view, human, named3
  <2> HIDE DEF cv
  <2> QED
    BY <2>1, <2>2 DEF crossRefMatches
<1> HIDE DEF cr, cv, hits
<1>4. RefersTo(c, b, scaling) <=> \E r \in y.refs : hits(r)
  BY <1>1, <1>2 DEF RefersTo
<1>5. RefersTo(view(y), view(o), scaling) <=> \E r \in y.refs : hits(r)
  BY <1>1, <1>3 DEF RefersTo
<1> QED
  BY <1>4, <1>5

(* The ideal object of a live one has its properties.                      *)
LEMMA ViewIs ==
  ASSUME NEW o
  PROVE  LET v == view(o)
         IN  /\ v.ref.kind = o.kind /\ v.ref.ns = o.ns /\ v.ref.name = o.name /\ v.ref.uid = o.uid
             /\ v.labels = o.labels /\ v.selector = selectorFrom(o) /\ v.owners = o.owners
             /\ human(v.ref) = named3(o)
  BY DEF view, human, named3

(* What a firm object affects, by any class of action, and what binds it.  *)
LEMMA RelationsStand ==
  ASSUME Snapshot, NEW o \in firm, NEW b, Stands(b, o), NEW y, NEW c, Stands(c, y),
         NEW classes
  PROVE  /\ Affects(classes, b, c) <=> Affects(classes, view(o), view(y))
         /\ BindsPod(c, b) <=> BindsPod(view(y), view(o))
         /\ Owns(b, c) <=> Owns(view(o), view(y))
<1> DEFINE v == view(o)
           w == view(y)
<1>1. /\ b.ref.kind = v.ref.kind /\ b.ref.ns = v.ref.ns /\ b.ref.name = v.ref.name
      /\ b.ref.uid = v.ref.uid /\ b.labels = v.labels /\ b.selector = v.selector
      /\ b.owners = v.owners
  BY DEF Stands, view
<1>2. /\ c.ref.kind = w.ref.kind /\ c.ref.ns = w.ref.ns /\ c.ref.name = w.ref.name
      /\ c.ref.uid = w.ref.uid /\ c.labels = w.labels /\ c.selector = w.selector
      /\ c.owners = w.owners
  BY DEF Stands, view
<1>3. \A scaling : RefersTo(c, b, scaling) <=> RefersTo(w, v, scaling)
  BY ReferencesStand
<1> HIDE DEF v, w
<1>4. Owns(b, c) <=> Owns(v, w)
  BY <1>1, <1>2 DEF Owns
<1>5. Contains(b, c) <=> Contains(v, w)
  BY <1>1, <1>2 DEF Contains
<1>6. SelectsPod(b.ref.ns, b.ref.kind, b.selector, c) <=> SelectsPod(v.ref.ns, v.ref.kind, v.selector, w)
  BY <1>1, <1>2 DEF SelectsPod
<1>7. BindsPod(c, b) <=> BindsPod(w, v)
  BY <1>1, <1>2 DEF BindsPod, BindsLabels
<1>8. Affects(classes, b, c) <=> Affects(classes, v, w)
  BY <1>1, <1>3, <1>4, <1>5, <1>6 DEF Affects
<1> QED
  BY <1>4, <1>7, <1>8 DEF v, w

-----------------------------------------------------------------------------
(* The least closed set of the live objects.                               *)

(* The least closed set lies in every closed set, touchable or not.        *)
LEMMA LeastInAnyClosed ==
  ASSUME NEW s, NEW a, Seeds(s, a) \subseteq s.objs, NEW Y, Closed(s, a, Y)
  PROVE  Reached(s, a) \subseteq Y
<1> DEFINE X == Y \cap Touchable(s, a)
<1>1. Closed(s, a, X)
  BY TouchableIs DEF Closed
<1> HIDE DEF X
<1>2. X \subseteq Touchable(s, a) /\ X \subseteq Y
  BY DEF X
<1> QED
  BY <1>1, <1>2, LeastClosedSet

(* What parseAction leaves out: a uid, a group and the two payloads.       *)
PlainAction(a, v) ==
  /\ a.target.uid = "" /\ a.target.group = noGroup
  /\ a.old = {} /\ a.new = {}
  /\ a.verb = v

(* Every action parseAction returns is plain (main.go:380-398).            *)
LEMMA ParsedIsPlain == \A v, k, n, m : PlainAction(parseAction(v, k, n, m), v)
<1>1. ASSUME NEW v, NEW k, NEW n, NEW m
      PROVE  PlainAction(parseAction(v, k, n, m), v)
  BY DEF PlainAction, parseAction
<1> QED
  BY <1>1

(* The action of a live check: on a target without a uid, without payloads *)
(* (main.go:256-258, 380-398).                                             *)
LEMMA LiveActionIs ==
  ASSUME AfterRead
  PROVE  /\ call.a.target.uid = "" /\ call.a.target.group = noGroup
         /\ call.a.old = {} /\ call.a.new = {}
         /\ call.a.verb \in liveVerbs
         /\ call.mode = check.mode /\ ModeKnown(call)
<1>2. /\ check.verb \in liveVerbs /\ call.mode = check.mode /\ ModeKnown(check)
      /\ call.a = parseAction(check.verb, call.a.target.kind, check.ns, check.name)
  BY DEF AfterRead, ReadInv, World, Asked
<1>3. PICK k : call.a = parseAction(check.verb, k, check.ns, check.name)
  BY <1>2
<1>4. PlainAction(call.a, check.verb)
  BY <1>3, ParsedIsPlain
<1>5. ModeKnown(call)
  BY <1>2 DEF ModeKnown
<1> QED
  BY <1>2, <1>4, <1>5 DEF PlainAction

(* A set of live objects as a State, asked for a ref without a uid.        *)
LEMMA IdealIs ==
  ASSUME NEW objs
  PROVE  /\ ideal(objs).objs = {view(o) : o \in objs}
         /\ \A r : r.uid = "" =>
              /\ tracked(ideal(objs), r) <=> \E o \in objs : named3(o) = human(r)
              /\ tracked(ideal(objs), r) =>
                   /\ lookup(ideal(objs), r) \in ideal(objs).objs
                   /\ human(lookup(ideal(objs), r).ref) = human(r)
<1> DEFINE s   == ideal(objs)
           all == {view(o) : o \in objs}
<1>1. s.objs = all /\ s.byHuman = [h \in {human(o.ref) : o \in all} |-> CHOOSE o \in all : human(o.ref) = h]
  BY DEF ideal
<1>2. \A h : h \in DOMAIN s.byHuman <=> \E o \in objs : named3(o) = h
  <2>1. \A h : h \in DOMAIN s.byHuman <=> \E v \in all : human(v.ref) = h
    BY <1>1
  <2> QED
    BY <2>1, ViewIs
<1>3. ASSUME NEW h \in DOMAIN s.byHuman
      PROVE  s.byHuman[h] \in all /\ human(s.byHuman[h].ref) = h
  <2>1. \E v \in all : human(v.ref) = h
    BY <1>1
  <2>2. s.byHuman[h] = CHOOSE o \in all : human(o.ref) = h
    BY <1>1
  <2> HIDE DEF s, all
  <2> QED
    BY <2>1, <2>2
<1> HIDE DEF s
<1>4. ASSUME NEW r, r.uid = ""
      PROVE  /\ tracked(s, r) <=> human(r) \in DOMAIN s.byHuman
             /\ tracked(s, r) => lookup(s, r) = s.byHuman[human(r)]
  BY <1>4 DEF tracked, lookup, knownUID
<1>5. ASSUME NEW r, r.uid = ""
      PROVE  /\ tracked(s, r) <=> \E o \in objs : named3(o) = human(r)
             /\ tracked(s, r) => lookup(s, r) \in all /\ human(lookup(s, r).ref) = human(r)
  <2>1. human(r) \in DOMAIN s.byHuman <=> \E o \in objs : named3(o) = human(r)
    BY <1>2
  <2> HIDE DEF all
  <2> QED
    BY <1>3, <1>4, <1>5, <2>1
<1> QED
  BY <1>1, <1>5 DEF s

(* A live check starts from its target alone.                              *)
LEMMA LiveSeedsAre ==
  ASSUME Snapshot, NEW objs
  PROVE  LET s == ideal(objs)
         IN  /\ Seeds(s, call.a) = IF tracked(s, call.a.target) THEN {lookup(s, call.a.target)} ELSE {}
             /\ Seeds(s, call.a) \subseteq s.objs
<1>1. \A p : ~AffectedByMutation(call.a, p)
  BY LiveActionIs DEF AffectedByMutation, Snapshot
<1>2. call.a.target.uid = ""
  BY LiveActionIs DEF Snapshot
<1>3. tracked(ideal(objs), call.a.target) => lookup(ideal(objs), call.a.target) \in ideal(objs).objs
  BY <1>2, IdealIs
<1> QED
  BY <1>1, <1>3 DEF Seeds

-----------------------------------------------------------------------------
(* Steady collateral.                                                      *)

(* The refs of the walk that are under the uid of a firm object, or under  *)
(* its name when the target is written so, lead to it.                     *)
LEMMA RefStands ==
  ASSUME Snapshot, NEW r \in trackedRefs \cup {call.a.target}, NEW o \in firm,
         \/ key(r) = <<"uid", o.uid>>
         \/ key(r) = key(call.a.target) /\ named3(o) = human(call.a.target)
  PROVE  tracked(call.s, r) /\ Stands(obj(r), o) /\ human(obj(r).ref) = human(r)
<1>1. o.uid # ""
  <2>1. PICK m \in moments : o \in m
    BY FirmIsListed DEF WasRead
  <2> QED
    BY <2>1 DEF Snapshot, AfterRead, ReadInv, World, SaneObjects
<1>2. call.a.target.uid = ""
  BY LiveActionIs DEF Snapshot
<1>3. ASSUME NEW b \in call.s.objs, b.ref.uid = o.uid \/ human(b.ref) = named3(o)
      PROVE  Stands(b, o) /\ human(b.ref) = named3(o)
  <2>1. PICK x : WasRead(x) /\ Stands(b, x)
    BY ObjectsStand
  <2>2. x = o
    BY <1>3, <2>1, FirmIsUnique DEF Stands, human, named3
  <2> QED
    BY <2>1, <2>2 DEF Stands, human, named3
<1>4. CASE key(r) = <<"uid", o.uid>>
  <2>1. r.uid = o.uid
    BY <1>1, <1>4 DEF key, human
  <2>2. PICK b \in call.s.objs : r = b.ref
    BY <1>1, <1>2, <2>1 DEF trackedRefs
  <2>3. human(r) = named3(o)
    BY <1>3, <2>1, <2>2
  <2>4. knownUID(call.s, r) /\ tracked(call.s, r)
    BY <1>1, <2>1, <2>2, StateLooksUp DEF Snapshot
  <2>5. obj(r) \in call.s.objs /\ obj(r).ref.uid = o.uid
    BY <1>1, <2>1, <2>4, StateLooksUp DEF obj, Snapshot
  <2> QED
    BY <1>3, <2>3, <2>4, <2>5
<1>5. CASE key(r) = key(call.a.target) /\ named3(o) = human(call.a.target)
  <2>1. r.uid = "" /\ human(r) = named3(o)
    BY <1>2, <1>5, KeyCases
  <2>2. PICK b \in call.s.objs : Stands(b, o)
    BY ObjectsStand
  <2>3. human(b.ref) = human(r)
    BY <2>1, <2>2 DEF Stands, human, named3
  <2>4. tracked(call.s, r)
    BY <2>3, StateLooksUp DEF Snapshot
  <2>5. obj(r) \in call.s.objs /\ human(obj(r).ref) = human(r)
    BY <2>1, <2>4, StateLooksUp DEF obj, Snapshot
  <2> QED
    BY <1>3, <2>1, <2>4, <2>5
<1> QED
  BY <1>4, <1>5

(* A firm object of the target or under a uid that was expanded.           *)
Met(o) ==
  \/ <<"uid", o.uid>> \in visited
  \/ key(call.a.target) \in visited /\ named3(o) = human(call.a.target)

(* What was met was followed: a ref for it, its successors and its bindings. *)
LEMMA MetIsFollowed ==
  ASSUME Snapshot, pc = "returned", NEW o \in firm, Met(o)
  PROVE  \E r \in trackedRefs \cup {call.a.target} :
           /\ tracked(call.s, r) /\ Stands(obj(r), o) /\ human(obj(r).ref) = human(r)
           /\ keysOf(successors(call.s, call.a, r)) \subseteq visited
           /\ keysOf(bindings(call.s, r)) \subseteq DOMAIN affected
<1>1. KeysClosed /\ queue = {}
  BY DEF Snapshot, AfterRead, ReadInv, LiveInv, KeysClosed
<1>2. PICK k \in visited : \/ k = <<"uid", o.uid>>
                           \/ k = key(call.a.target) /\ named3(o) = human(call.a.target)
  BY DEF Met
<1>3. PICK r \in trackedRefs \cup {call.a.target} :
        /\ key(r) = k
        /\ keysOf(successors(call.s, call.a, r)) \subseteq visited \cup keysOf(queue)
        /\ keysOf(bindings(call.s, r)) \subseteq DOMAIN affected
  BY <1>1 DEF KeysClosed
<1>4. keysOf(queue) = {}
  BY <1>1 DEF keysOf
<1>5. tracked(call.s, r) /\ Stands(obj(r), o) /\ human(obj(r).ref) = human(r)
  BY <1>2, <1>3, RefStands
<1> QED
  BY <1>3, <1>4, <1>5

(* A firm object has a ref of its own in the State, under its uid.         *)
LEMMA FirmHasRef ==
  ASSUME Snapshot, NEW o \in firm
  PROVE  \E c \in call.s.objs : Stands(c, o) /\ key(c.ref) = <<"uid", o.uid>>
<1>1. PICK c \in call.s.objs : Stands(c, o)
  BY ObjectsStand
<1>2. PICK m \in moments : o \in m
  BY FirmIsListed DEF WasRead
<1>3. o.uid # ""
  BY <1>2 DEF Snapshot, AfterRead, ReadInv, World, SaneObjects
<1> QED
  BY <1>1, <1>3 DEF Stands, key

(* What the map holds under the uid of a firm object is reported as it.    *)
LEMMA HeldIsReported ==
  ASSUME Snapshot, NEW k \in DOMAIN affected, NEW o \in firm,
         \/ k = <<"uid", o.uid>>
         \/ k = key(call.a.target) /\ named3(o) = human(call.a.target)
  PROVE  o.uid \in reportedUIDs
<1>1. affected[k] \in trackedRefs \cup {call.a.target} /\ key(affected[k]) = k
  BY DEF Snapshot, AfterRead, ReadInv, LiveInv, LTypeOK, TypeOK
<1>2. Stands(obj(affected[k]), o)
  BY <1>1, RefStands
<1>3. lookup(call.s, affected[k]).ref.uid = o.uid
  BY <1>2 DEF Stands, obj
<1> QED
  BY <1>3 DEF reportedUIDs, uidsOf, members

(* The firm objects that were met hold the target and are closed under     *)
(* what the action affects among firm objects.                             *)
LEMMA MetIsClosed ==
  ASSUME Snapshot, pc = "returned"
  PROVE  Closed(ideal(firm), call.a, {view(o) : o \in {x \in firm : Met(x)}})
<1> DEFINE s == ideal(firm)
           Y == {view(o) : o \in {x \in firm : Met(x)}}
           target == call.a.target
<1>1. s.objs = {view(o) : o \in firm}
  BY IdealIs
<1>2. KeysClosed /\ queue = {}
  BY DEF Snapshot, AfterRead, ReadInv, LiveInv, KeysClosed
<1>3. target.uid = ""
  BY LiveActionIs DEF Snapshot
<1>4. ASSUME NEW v \in Seeds(s, call.a) PROVE v \in Y
  <2>1. tracked(s, target) /\ v = lookup(s, target)
    <3>1. Seeds(s, call.a) = IF tracked(s, target) THEN {lookup(s, target)} ELSE {}
      BY LiveSeedsAre
    <3> HIDE DEF s, target
    <3> QED
      BY <1>4, <3>1
  <2>2. v \in s.objs /\ human(v.ref) = human(target)
    BY <1>3, <2>1, IdealIs
  <2>3. PICK o \in firm : v = view(o)
    BY <1>1, <2>2
  <2>4. named3(o) = human(target)
    BY <2>2, <2>3, ViewIs
  <2>5. PICK b \in call.s.objs : Stands(b, o)
    BY ObjectsStand
  <2>6. human(target) = human(b.ref)
    BY <2>4, <2>5 DEF Stands, human, named3
  <2>7. tracked(call.s, target)
    BY <2>6, StateLooksUp DEF Snapshot
  <2>8. key(target) \in visited
    BY <1>2, <2>7 DEF KeysClosed
  <2>9. Met(o)
    BY <2>4, <2>8 DEF Met
  <2> QED
    BY <2>3, <2>9
<1>5. ASSUME NEW v \in Y, NEW p \in s.objs, Affects(classify(call.a), v, p)
      PROVE  p \in Y
  <2>1. PICK o \in firm : Met(o) /\ v = view(o)
    OBVIOUS
  <2>2. PICK y \in firm : p = view(y)
    BY <1>1
  <2>3. PICK r \in trackedRefs \cup {target} :
          /\ tracked(call.s, r) /\ Stands(obj(r), o) /\ human(obj(r).ref) = human(r)
          /\ keysOf(successors(call.s, call.a, r)) \subseteq visited
    BY <2>1, MetIsFollowed
  <2>4. PICK c \in call.s.objs : Stands(c, y) /\ key(c.ref) = <<"uid", y.uid>>
    BY FirmHasRef
  <2>5. Affects(classify(call.a), obj(r), c)
    BY <1>5, <2>1, <2>2, <2>3, <2>4, RelationsStand
  <2>6. c.ref \in successors(call.s, call.a, r)
    BY <2>3, <2>4, <2>5, SuccessorsAre
  <2>7. key(c.ref) \in visited
    BY <2>3, <2>6 DEF keysOf
  <2>8. Met(y)
    BY <2>4, <2>7 DEF Met
  <2> QED
    BY <2>2, <2>8
<1> HIDE DEF Y, s
<1>6. Closed(s, call.a, Y)
  BY <1>4, <1>5 DEF Closed
<1> QED
  BY <1>6 DEF Y, s

(* What is met is reported, and so is what binds a pod that is met.        *)
LEMMA SteadyIsReported ==
  ASSUME Snapshot, pc = "returned"
  PROVE  affectedAmong(steady) \subseteq reportedUIDs
<1> DEFINE s == ideal(firm)
           Y == {view(o) : o \in {x \in firm : Met(x)}}
<1>1. s.objs = {view(o) : o \in firm}
  BY IdealIs
<1>2. Reached(s, call.a) \subseteq Y
  <2>1. Closed(s, call.a, Y) /\ Seeds(s, call.a) \subseteq s.objs
    BY MetIsClosed, LiveSeedsAre
  <2> HIDE DEF Y, s
  <2> QED
    BY <2>1, LeastInAnyClosed
<1>3. visited \subseteq DOMAIN affected
  BY DEF Snapshot, AfterRead, ReadInv, LiveInv, KeysClosed
<1>4. ASSUME NEW v \in Reached(s, call.a) PROVE v.ref.uid \in reportedUIDs
  <2>1. PICK o \in firm : Met(o) /\ v = view(o)
    BY <1>2
  <2>2. o.uid \in reportedUIDs
    BY <1>3, <2>1, HeldIsReported DEF Met
  <2> QED
    BY <2>1, <2>2, ViewIs
<1>5. ASSUME NEW v \in Bindings(s, Reached(s, call.a)) PROVE v.ref.uid \in reportedUIDs
  <2>1. PICK p \in Reached(s, call.a) : v \in s.objs /\ BindsPod(v, p)
    BY DEF Bindings
  <2>2. PICK o \in firm : Met(o) /\ p = view(o)
    BY <1>2
  <2>3. PICK y \in firm : v = view(y)
    BY <1>1, <2>1
  <2>4. PICK r \in trackedRefs \cup {call.a.target} :
          /\ tracked(call.s, r) /\ Stands(obj(r), o) /\ human(obj(r).ref) = human(r)
          /\ keysOf(bindings(call.s, r)) \subseteq DOMAIN affected
    BY <2>2, MetIsFollowed
  <2>5. PICK c \in call.s.objs : Stands(c, y) /\ key(c.ref) = <<"uid", y.uid>>
    BY FirmHasRef
  <2>6. BindsPod(c, obj(r))
    BY <2>1, <2>2, <2>3, <2>4, <2>5, RelationsStand
  <2>7. c.ref \in bindings(call.s, r)
    BY <2>4, <2>5, <2>6, BindingsAre
  <2>8. <<"uid", y.uid>> \in DOMAIN affected
    BY <2>4, <2>5, <2>7 DEF keysOf
  <2>9. y.uid \in reportedUIDs
    BY <2>8, HeldIsReported
  <2> QED
    BY <2>3, <2>9, ViewIs
<1>6. affectedAmong(steady) = uidsOf(Reached(s, call.a) \cup Bindings(s, Reached(s, call.a)))
  BY DEF affectedAmong, AffectedObjects, firm
<1> HIDE DEF s
<1> QED
  BY <1>4, <1>5, <1>6 DEF uidsOf

(* So a check that has its answer reports all that is steady.              *)
LEMMA SteadyInAnswer ==
  ASSUME Ruled, OneGroup(Discoveries), ReadInv
  PROVE  SteadyCollateralReported
<1> SUFFICES ASSUME pc = "returned", decision = none
             PROVE  affectedAmong(steady) \subseteq reportedUIDs
  BY DEF SteadyCollateralReported
<1>1. phase = "checked"
  BY DEF ReadInv, LiveInv, LTypeOK
<1>2. Snapshot
  BY <1>1 DEF Snapshot, AfterRead
<1> QED
  BY <1>2, SteadyIsReported

(* SteadyCollateralReported for every server that keeps to its rules and   *)
(* lists no kind in two groups, with any number of writes by others and of *)
(* changes to its discovery.                                               *)
THEOREM SteadyIsCovered ==
  Sane(Discoveries, Clusters, Writes) /\ OneGroup(Discoveries) =>
    (LSpec => []SteadyCollateralReported)
<1> SUFFICES ASSUME Sane(Discoveries, Clusters, Writes), Ruled, OneGroup(Discoveries)
             PROVE  LSpec => []SteadyCollateralReported
  BY DEF Ruled, Sane
<1>1. LSpec => []ReadInv
  BY ReadInvariant
<1>2. ReadInv => SteadyCollateralReported
  BY SteadyInAnswer
<1> QED
  BY <1>1, <1>2, PTL

-----------------------------------------------------------------------------
(* Quiet clusters: nothing was written from the first list to the last.    *)

(* The read is over, and saw one moment.                                   *)
Quiet == Snapshot /\ moments = {cluster}

(* Then all that is visible is firm, and all that was read.                *)
LEMMA QuietIsFirm ==
  ASSUME Quiet
  PROVE  /\ firm = visible(cluster) /\ steady = cluster
         /\ \A x : WasRead(x) => x \in firm
         /\ \A o \in firm : o.uid # ""
         /\ \A b \in call.s.objs : \E o \in firm : Stands(b, o)
<1>1. steady = cluster
  BY DEF Quiet, steady
<1>2. SaneApi(served) /\ SaneObjects(cluster, Discoveries)
  BY DEF Quiet, Snapshot, AfterRead, ReadInv, World, Ruled, Sane
<1>3. ASSUME NEW x, WasRead(x) PROVE x \in firm
  <2>1. PICK i \in selectTargets(served) : x \in cluster /\ isOf(x, served[i])
    BY <1>3 DEF WasRead, Quiet
  <2>2. i \in DOMAIN served /\ wanted(served[i])
    BY <1>2, <2>1, SelectTargetsAre
  <2>3. /\ x.kind \in readTargets \/ x.group \notin builtInGroups
        /\ ~served[i].subresource
        /\ served[i].verbs = {} \/ "list" \in served[i].verbs
    BY <2>1, <2>2 DEF wanted, followed, supportsList, isOf
  <2> QED
    BY <1>1, <2>1, <2>2, <2>3 DEF firm, visible
<1>4. firm \subseteq cluster
  BY <1>1 DEF firm, visible
<1>5. \A o \in firm : o.uid # ""
  BY <1>2, <1>4 DEF SaneObjects
<1>6. \A b \in call.s.objs : \E o \in firm : Stands(b, o)
  BY <1>3, ObjectsStand DEF Quiet
<1> QED
  BY <1>1, <1>3, <1>5, <1>6 DEF firm

(* Every ref of the walk that is tracked leads to a firm object.           *)
LEMMA QuietNode ==
  ASSUME Quiet, NEW r \in trackedRefs \cup {call.a.target}, tracked(call.s, r)
  PROVE  \E o \in firm :
           /\ Stands(obj(r), o) /\ human(obj(r).ref) = human(r)
           /\ \/ r # call.a.target /\ r.uid = o.uid /\ r.uid # ""
              \/ r = call.a.target /\ named3(o) = human(r)
<1>1. Snapshot
  BY DEF Quiet
<1>2. CASE r = call.a.target
  <2>1. obj(r) \in call.s.objs /\ human(obj(r).ref) = human(r)
    BY <1>1, <1>2, LiveActionIs, StateLooksUp DEF obj, Snapshot
  <2>2. PICK o \in firm : Stands(obj(r), o)
    BY <2>1, QuietIsFirm
  <2>3. named3(o) = human(r)
    BY <2>1, <2>2 DEF Stands, human, named3
  <2> QED
    BY <1>2, <2>1, <2>2, <2>3
<1>3. CASE r # call.a.target
  <2>1. PICK b \in call.s.objs : r = b.ref
    BY <1>3 DEF trackedRefs
  <2>2. PICK o \in firm : Stands(b, o)
    BY QuietIsFirm
  <2>3. r.uid = o.uid /\ r.uid # ""
    BY <2>1, <2>2, QuietIsFirm DEF Stands
  <2>4. key(r) = <<"uid", o.uid>>
    BY <2>3 DEF key
  <2>5. Stands(obj(r), o) /\ human(obj(r).ref) = human(r)
    BY <1>1, <2>4, RefStands
  <2> QED
    BY <1>3, <2>3, <2>5
<1> QED
  BY <1>2, <1>3

(* The ref of a tracked object leads to the firm object it stands for.     *)
LEMMA QuietRef ==
  ASSUME Quiet, NEW q \in call.s.objs, NEW y \in firm, Stands(q, y)
  PROVE  tracked(call.s, q.ref) /\ Stands(obj(q.ref), y)
<1>1. y.uid # "" /\ q.ref.uid = y.uid
  BY QuietIsFirm DEF Stands
<1>2. key(q.ref) = <<"uid", y.uid>>
  BY <1>1 DEF key
<1>3. q.ref \in trackedRefs
  BY DEF trackedRefs
<1> QED
  BY <1>2, <1>3, RefStands DEF Quiet

(* What is queued, and what the map holds, on a quiet cluster.             *)
Due(r) ==
  /\ tracked(call.s, r)
  /\ r = call.a.target \/ \E o \in firm : Stands(obj(r), o) /\ view(o) \in Reached(ideal(firm), call.a)

(* A ref that the map may hold.                                            *)
Justified(r) ==
  /\ tracked(call.s, r)
  /\ \E o \in firm : Stands(obj(r), o) /\ view(o) \in AffectedObjects(ideal(firm), call.a)

(* No ref is queued or held without cause: the inductive invariant of a    *)
(* check on a quiet cluster.                                               *)
QuietSound ==
  (phase = "checked" /\ moments = {cluster}) =>
    (\A r \in queue : Due(r)) /\ \A k \in DOMAIN affected : Justified(affected[k])

(* On a quiet cluster the target, if tracked, seeds the ideal closure too. *)
LEMMA TargetIsSeed ==
  ASSUME Quiet, tracked(call.s, call.a.target)
  PROVE  \E o \in firm :
           /\ Stands(obj(call.a.target), o)
           /\ tracked(ideal(firm), call.a.target)
           /\ lookup(ideal(firm), call.a.target) = view(o)
           /\ view(o) \in Seeds(ideal(firm), call.a)
<1> DEFINE target == call.a.target
           s == ideal(firm)
<1>1. Snapshot /\ target.uid = ""
  BY LiveActionIs DEF Quiet, Snapshot
<1>2. PICK o \in firm : Stands(obj(target), o) /\ named3(o) = human(target)
  BY QuietNode
<1>3. s.objs = {view(x) : x \in firm} /\ tracked(s, target)
  BY <1>1, <1>2, IdealIs
<1>4. lookup(s, target) \in s.objs /\ human(lookup(s, target).ref) = human(target)
  BY <1>1, <1>3, IdealIs
<1>5. PICK x \in firm : lookup(s, target) = view(x)
  BY <1>3, <1>4
<1>6. named3(x) = human(target)
  BY <1>4, <1>5, ViewIs
<1>7. x = o
  BY <1>1, <1>2, <1>6, FirmIsListed, FirmIsUnique
<1>8. Seeds(s, call.a) = IF tracked(s, target) THEN {lookup(s, target)} ELSE {}
  BY <1>1, LiveSeedsAre
<1> HIDE DEF s, target
<1>9. lookup(s, target) = view(o) /\ view(o) \in Seeds(s, call.a)
  BY <1>3, <1>5, <1>7, <1>8
<1> QED
  BY <1>2, <1>3, <1>9 DEF s, target

(* The least closed set of the ideal state, by its defining property.      *)
LEMMA IdealReached ==
  ASSUME Snapshot
  PROVE  LET s == ideal(firm)
         IN  /\ Reached(s, call.a) \subseteq s.objs
             /\ Closed(s, call.a, Reached(s, call.a))
<1>1. Seeds(ideal(firm), call.a) \subseteq ideal(firm).objs
  BY LiveSeedsAre
<1> QED
  BY <1>1, LeastClosedSet

(* What is due leads to an object that is reached.                         *)
LEMMA DueIsReached ==
  ASSUME Quiet, NEW r \in trackedRefs \cup {call.a.target}, Due(r)
  PROVE  /\ human(obj(r).ref) = human(r)
         /\ \E o \in firm : Stands(obj(r), o) /\ view(o) \in Reached(ideal(firm), call.a)
<1>1. tracked(call.s, r)
  BY DEF Due
<1>2. human(obj(r).ref) = human(r)
  BY <1>1, QuietNode
<1>3. CASE r = call.a.target
  <2>1. PICK o \in firm : Stands(obj(r), o) /\ view(o) \in Seeds(ideal(firm), call.a)
    BY <1>1, <1>3, TargetIsSeed
  <2>2. Seeds(ideal(firm), call.a) \subseteq Reached(ideal(firm), call.a)
    BY IdealReached DEF Quiet, Closed
  <2> QED
    BY <1>2, <2>1, <2>2
<1>4. CASE r # call.a.target
  BY <1>2, <1>4 DEF Due
<1> QED
  BY <1>3, <1>4

(* An expansion queues only what is due and records only what is justified. *)
LEMMA ExpandIsJustified ==
  ASSUME Quiet, NEW r \in trackedRefs \cup {call.a.target}, Due(r)
  PROVE  /\ \A x \in successors(call.s, call.a, r) : Due(x)
         /\ \A x \in bindings(call.s, r) \cup {r} : Justified(x)
<1> DEFINE s == ideal(firm)
           R == Reached(s, call.a)
<1>1. tracked(call.s, r) /\ human(obj(r).ref) = human(r) /\ Snapshot
  BY DueIsReached DEF Due, Quiet
<1>2. PICK o \in firm : Stands(obj(r), o) /\ view(o) \in R
  BY DueIsReached
<1>3. s.objs = {view(x) : x \in firm}
  BY IdealIs
<1>4. ASSUME NEW x \in successors(call.s, call.a, r) PROVE Due(x)
  <2>1. PICK q \in call.s.objs :
          /\ x = q.ref
          /\ \/ Affects(classify(call.a), obj(r), q)
             \/ key(r) = key(call.a.target) /\ AffectedByMutation(call.a, q)
    BY <1>1, SuccessorsAre
  <2>2. ~AffectedByMutation(call.a, q)
    BY <1>1, LiveActionIs DEF AffectedByMutation, Snapshot
  <2>3. PICK y \in firm : Stands(q, y)
    BY QuietIsFirm
  <2>4. Affects(classify(call.a), view(o), view(y))
    BY <1>1, <1>2, <2>1, <2>2, <2>3, RelationsStand
  <2>5. view(y) \in R
    BY <1>1, <1>2, <1>3, <2>4, IdealReached DEF Closed
  <2>6. tracked(call.s, x) /\ Stands(obj(x), y)
    BY <2>1, <2>3, QuietRef
  <2> QED
    BY <2>5, <2>6 DEF Due
<1>5. ASSUME NEW x \in bindings(call.s, r) PROVE Justified(x)
  <2>1. PICK q \in call.s.objs : x = q.ref /\ BindsPod(q, obj(r))
    BY <1>1, BindingsAre
  <2>2. PICK y \in firm : Stands(q, y)
    BY QuietIsFirm
  <2>3. BindsPod(view(y), view(o))
    BY <1>1, <1>2, <2>1, <2>2, RelationsStand
  <2>4. view(y) \in AffectedObjects(s, call.a)
    BY <1>2, <1>3, <2>3 DEF AffectedObjects, Bindings
  <2>5. tracked(call.s, x) /\ Stands(obj(x), y)
    BY <2>1, <2>2, QuietRef
  <2> QED
    BY <2>4, <2>5 DEF Justified
<1>6. Justified(r)
  BY <1>1, <1>2 DEF Justified, AffectedObjects
<1> QED
  BY <1>4, <1>5, <1>6

(* While a check verifies, what is due and what is justified stays so: the *)
(* snapshot is fixed.                                                      *)
LEMMA VerdictsReadNothing ==
  ASSUME UNCHANGED <<call, liveVars>>, NEW r
  PROVE  /\ Due(r) => Due(r)'
         /\ Justified(r) => Justified(r)'
<1>1. UNCHANGED <<call, cluster, served, moments, got, kindScope>>
  BY DEF liveVars
<1>2. firm' = firm
  BY <1>1 DEF firm, visible, steady, isOf
<1>3. ASSUME NEW b, NEW o PROVE Stands(b, o) => Stands(b, o)'
  BY <1>1 DEF Stands
<1>4. obj(r)' = obj(r)
  BY <1>1 DEF obj
<1>5. ASSUME Due(r) PROVE Due(r)'
  <2>1. tracked(call.s, r)'
    BY <1>1, <1>5 DEF Due
  <2>2. CASE r = call.a.target
    BY <1>1, <2>1, <2>2 DEF Due
  <2>3. CASE r # call.a.target
    <3>1. PICK o \in firm : Stands(obj(r), o) /\ view(o) \in Reached(ideal(firm), call.a)
      BY <1>5, <2>3 DEF Due
    <3>2. Stands(obj(r), o)'
      BY <1>1, <1>4, <3>1 DEF Stands
    <3>3. (view(o) \in Reached(ideal(firm), call.a))'
      BY <1>1, <1>2, <3>1
    <3> QED
      BY <1>2, <2>1, <3>2, <3>3 DEF Due
  <2> QED
    BY <2>2, <2>3
<1>6. ASSUME Justified(r) PROVE Justified(r)'
  <2>1. tracked(call.s, r)'
    BY <1>1, <1>6 DEF Justified
  <2>2. PICK o \in firm : Stands(obj(r), o) /\ view(o) \in AffectedObjects(ideal(firm), call.a)
    BY <1>6 DEF Justified
  <2>3. Stands(obj(r), o)'
    BY <1>1, <1>4, <2>2 DEF Stands
  <2>4. (view(o) \in AffectedObjects(ideal(firm), call.a))'
    BY <1>1, <1>2, <2>2
  <2> QED
    BY <1>2, <2>1, <2>3, <2>4 DEF Justified
<1> QED
  BY <1>5, <1>6

(* A step of the walk keeps to what is due and justified.                  *)
LEMMA WalkKeepsJustified ==
  ASSUME Quiet, QuietSound, [Next]_vars
  PROVE  (\A r \in queue' : Due(r)) /\ \A k \in DOMAIN affected' : Justified(affected'[k])
<1>1. phase = "checked" /\ moments = {cluster} /\ TypeOK
  BY DEF Quiet, Snapshot, AfterRead, ReadInv, LiveInv, LTypeOK
<1>2. (\A r \in queue : Due(r)) /\ \A k \in DOMAIN affected : Justified(affected[k])
  BY <1>1 DEF QuietSound
<1>3. CASE Return \/ UNCHANGED vars
  BY <1>2, <1>3 DEF Return, vars
<1>4. ASSUME NEW cur \in queue, Skip(cur)
      PROVE  (\A r \in queue' : Due(r)) /\ \A k \in DOMAIN affected' : Justified(affected'[k])
  BY <1>2, <1>4 DEF Skip
<1>5. ASSUME NEW cur \in queue, Expand(cur)
      PROVE  (\A r \in queue' : Due(r)) /\ \A k \in DOMAIN affected' : Justified(affected'[k])
  <2>1. /\ \A x \in successors(call.s, call.a, cur) : Due(x)
        /\ \A x \in bindings(call.s, cur) \cup {cur} : Justified(x)
    BY <1>1, <1>2, ExpandIsJustified DEF TypeOK
  <2>2. queue' = (queue \ {cur}) \cup successors(call.s, call.a, cur)
    BY <1>5 DEF Expand
  <2>3. \A k \in DOMAIN affected' : \/ affected'[k] \in bindings(call.s, cur) \cup {cur}
                                    \/ k \in DOMAIN affected /\ affected'[k] = affected[k]
    BY <1>1, <1>5, ExpandFiles
  <2>4. ASSUME NEW k \in DOMAIN affected' PROVE Justified(affected'[k])
    <3>1. CASE affected'[k] \in bindings(call.s, cur) \cup {cur}
      BY <2>1, <3>1
    <3>2. CASE k \in DOMAIN affected /\ affected'[k] = affected[k]
      BY <1>2, <3>2
    <3> QED
      BY <2>3, <3>1, <3>2
  <2> QED
    BY <1>2, <2>1, <2>2, <2>4
<1> QED
  BY <1>3, <1>4, <1>5 DEF Next

(* The whole check keeps QuietSound.                                       *)
LEMMA QuietSoundKept ==
  ASSUME Ruled, OneGroup(Discoveries), ReadInv, QuietSound, [LNext]_lvars
  PROVE  QuietSound'
<1>1. LiveInv /\ ReadBeforeVerdict
  BY DEF ReadInv, LiveInv
<1>2. CASE Resolve \/ ResolveFails \/ ApiFails \/ BuildFails \/ Discover \/ List \/ ChangeApi
  <2>1. phase' # "checked"
    BY <1>2 DEF Resolve, ResolveFails, ApiFails, BuildFails, exitWithError, Discover, List, ChangeApi
  <2> QED
    BY <2>1 DEF QuietSound
<1>3. ASSUME NEW w \in Writes, Write(w) PROVE QuietSound'
  <2>1. phase' # "checked"
    BY <1>3 DEF Write, reading
  <2> QED
    BY <2>1 DEF QuietSound
<1>4. CASE Build
  <2>1. PICK s : /\ call' = [call EXCEPT !.s = s, !.scope = Derive(call.a.target)]
                 /\ queue' = IF tracked(s, call.a.target) THEN {call.a.target} ELSE {}
                 /\ affected' = affected /\ phase = "list"
    BY <1>4 DEF Build
  <2>2. call'.s = s /\ call'.a = call.a
    BY <1>1, <2>1 DEF LiveInv, CallIsRecord
  <2>3. DOMAIN affected' = {}
    BY <1>1, <2>1 DEF LiveInv, emptyMap
  <2>4. \A r \in queue' : r = call'.a.target /\ tracked(call'.s, r)
    BY <2>1, <2>2
  <2>5. (\A r \in queue : Due(r))'
    BY <2>4 DEF Due
  <2> QED
    BY <2>3, <2>5 DEF QuietSound
<1>5. CASE Verify
  <2>1. phase = "checked" /\ UNCHANGED liveVars /\ [Next]_vars /\ UNCHANGED call
    BY <1>1, <1>5, NothingVerifiedBefore, CheckStepsWalk DEF Verify
  <2>2. phase' = phase /\ moments' = moments /\ cluster' = cluster
    BY <2>1 DEF liveVars
  <2>3. CASE moments = {cluster}
    <3>1. Quiet
      BY <2>1, <2>3 DEF Quiet, Snapshot, AfterRead
    <3>2. (\A r \in queue' : Due(r)) /\ \A k \in DOMAIN affected' : Justified(affected'[k])
      BY <2>1, <3>1, WalkKeepsJustified
    <3>3. \A r : (Due(r) => Due(r)') /\ (Justified(r) => Justified(r)')
      BY <2>1, VerdictsReadNothing
    <3>4. (\A r \in queue : Due(r))'
      BY <3>2, <3>3 DEF Due
    <3>5. (\A k \in DOMAIN affected : Justified(affected[k]))'
      BY <3>2, <3>3 DEF Justified
    <3> QED
      BY <3>4, <3>5 DEF QuietSound
  <2>4. CASE moments # {cluster}
    BY <2>2, <2>4 DEF QuietSound
  <2> QED
    BY <2>3, <2>4
<1>6. CASE UNCHANGED lvars
  <2>1. UNCHANGED <<call, liveVars, phase, queue, affected, cluster, moments>>
    BY <1>6 DEF lvars, allVars, liveVars
  <2>2. \A r : (Due(r) => Due(r)') /\ (Justified(r) => Justified(r)')
    BY <2>1, VerdictsReadNothing
  <2>3. CASE phase = "checked" /\ moments = {cluster}
    <3>1. (\A r \in queue' : Due(r)) /\ \A k \in DOMAIN affected' : Justified(affected'[k])
      BY <2>1, <2>3 DEF QuietSound
    <3>2. (\A r \in queue : Due(r))'
      BY <2>2, <3>1 DEF Due
    <3>3. (\A k \in DOMAIN affected : Justified(affected[k]))'
      BY <2>2, <3>1 DEF Justified
    <3> QED
      BY <3>2, <3>3 DEF QuietSound
  <2>4. CASE ~(phase = "checked" /\ moments = {cluster})
    BY <2>1, <2>4 DEF QuietSound
  <2> QED
    BY <2>3, <2>4
<1> QED
  BY <1>2, <1>3, <1>4, <1>5, <1>6 DEF LNext, Step

(* It holds throughout, with the invariant of the read.                    *)
LEMMA QuietSoundAlways ==
  Sane(Discoveries, Clusters, Writes) /\ OneGroup(Discoveries) =>
    (LSpec => [](ReadInv /\ QuietSound))
<1> SUFFICES ASSUME Sane(Discoveries, Clusters, Writes), Ruled, OneGroup(Discoveries)
             PROVE  LSpec => [](ReadInv /\ QuietSound)
  BY DEF Ruled, Sane
<1>1. LSpec => []ReadInv
  BY ReadInvariant
<1>2. LInit => QuietSound
  BY DEF LInit, QuietSound
<1>3. ReadInv /\ QuietSound /\ [LNext]_lvars => QuietSound'
  BY QuietSoundKept
<1> QED
  BY <1>1, <1>2, <1>3, PTL DEF LSpec

-----------------------------------------------------------------------------
(* The derived scope of a live check.                                      *)

(* The refs below a ref by OwnedChildren are the least set that holds it   *)
(* and the children of its members (safe.go:215-237), whatever the State.  *)
LEMMA OwnedRefsAreLeast ==
  ASSUME NEW s, NEW start
  PROVE  LET O   == ownedRefs(s, start)
             low == {start} \cup {o.ref : o \in {x \in s.objs : x.owners # {}}}
         IN  /\ O \subseteq low /\ start \in O
             /\ \A r \in O : OwnedChildren(s, r) \subseteq O
             /\ \A X : (/\ X \subseteq low /\ start \in X
                        /\ \A r \in X : OwnedChildren(s, r) \subseteq X) => O \subseteq X
<1> DEFINE O      == ownedRefs(s, start)
           low    == {start} \cup {o.ref : o \in {x \in s.objs : x.owners # {}}}
           edges  == UNION {{<<r, c>> : c \in OwnedChildren(s, r)} : r \in low}
           closed == {X \in SUBSET low : start \in X /\ \A e \in edges : e[1] \in X => e[2] \in X}
<1>1. O = {r \in low : \A X \in closed : r \in X}
  BY DEF ownedRefs
<1>2. ASSUME NEW r PROVE OwnedChildren(s, r) \subseteq low
  <2>1. ASSUME NEW c \in OwnedChildren(s, r) PROVE c \in low
    <3>1. PICK o \in s.objs : c = o.ref /\ lookup(s, r).ref.uid \in o.owners
      BY <2>1 DEF OwnedChildren, refsWhere
    <3> QED
      BY <3>1
  <2> QED
    BY <2>1
<1>3. \A e : e \in edges <=> \E r \in low : \E c \in OwnedChildren(s, r) : e = <<r, c>>
  OBVIOUS
<1>4. \A X : X \in closed <=>
        X \subseteq low /\ start \in X /\ \A r \in X : OwnedChildren(s, r) \subseteq X
  <2> HIDE DEF edges
  <2>1. ASSUME NEW X \in SUBSET low
        PROVE  (\A e \in edges : e[1] \in X => e[2] \in X)
                 <=> \A r \in X : OwnedChildren(s, r) \subseteq X
    <3>1. ASSUME \A e \in edges : e[1] \in X => e[2] \in X, NEW r \in X, NEW c \in OwnedChildren(s, r)
          PROVE  c \in X
      <4>1. <<r, c>> \in edges
        BY <1>3
      <4> QED
        BY <3>1, <4>1
    <3>2. ASSUME \A r \in X : OwnedChildren(s, r) \subseteq X, NEW e \in edges, e[1] \in X
          PROVE  e[2] \in X
      <4>1. PICK r \in low : \E c \in OwnedChildren(s, r) : e = <<r, c>>
        BY <1>3
      <4> QED
        BY <3>2, <4>1
    <3> QED
      BY <3>1, <3>2
  <2> QED
    BY <2>1
<1> HIDE DEF O, low, closed
<1>5. O \subseteq low /\ start \in O
  <2>1. start \in low
    BY DEF low
  <2> QED
    BY <1>1, <1>4, <2>1
<1>6. ASSUME NEW r \in O, NEW c \in OwnedChildren(s, r) PROVE c \in O
  <2>1. ASSUME NEW X \in closed PROVE c \in X
    <3>1. r \in X
      BY <1>1
    <3> QED
      BY <1>4, <3>1
  <2> QED
    BY <1>1, <1>2, <2>1
<1>7. \A X \in closed : O \subseteq X
  BY <1>1
<1> QED
  BY <1>4, <1>5, <1>6, <1>7 DEF O, low

(* The children of a tracked ref that has its uid are those that name it.  *)
LEMMA QuietChildren ==
  ASSUME Quiet, NEW b \in call.s.objs
  PROVE  OwnedChildren(call.s, b.ref) = {q.ref : q \in {x \in call.s.objs : b.ref.uid \in x.owners}}
<1>1. PICK o \in firm : Stands(b, o)
  BY QuietIsFirm
<1>2. tracked(call.s, b.ref) /\ Stands(obj(b.ref), o)
  BY <1>1, QuietRef
<1>3. lookup(call.s, b.ref).ref.uid = b.ref.uid /\ b.ref.uid # ""
  BY <1>1, <1>2, QuietIsFirm DEF Stands, obj
<1> QED
  BY <1>2, <1>3 DEF OwnedChildren, refsWhere

(* The uids below the target in the State are those of its owned tree in   *)
(* the cluster.                                                            *)
LEMMA SubtreeIsTree ==
  ASSUME Quiet, tracked(call.s, call.a.target)
  PROVE  LET O == ownedRefs(call.s, lookup(call.s, call.a.target).ref)
         IN  /\ \A r \in O : \E b \in call.s.objs : r = b.ref
             /\ {r.uid : r \in O} = ownedAmong(cluster)
<1> DEFINE s      == call.s
           I      == ideal(firm)
           target == call.a.target
           start  == lookup(s, target).ref
           O      == ownedRefs(s, start)
           T      == OwnedTree(I, target)
           low    == {start} \cup {o.ref : o \in {x \in s.objs : x.owners # {}}}
<1>1. PICK t \in firm : /\ Stands(obj(target), t)
                        /\ tracked(I, target) /\ lookup(I, target) = view(t)
  BY TargetIsSeed
<1>2. I.objs = {view(o) : o \in firm}
  BY IdealIs
<1>3. lookup(s, target) \in s.objs /\ start.uid = t.uid
  <2>1. lookup(s, target) \in s.objs
    BY StateLooksUp DEF Quiet, Snapshot
  <2> QED
    BY <1>1, <2>1 DEF Stands, obj
<1>4. /\ Tree(I, T, view(t))
      /\ \A X : Tree(I, X, view(t)) => T \subseteq X
  <2>1. view(t) \in I.objs
    BY <1>2
  <2> HIDE DEF I, T
  <2> QED
    BY <1>1, <2>1, OwnedTreeIsLeast DEF T
<1>5. /\ O \subseteq low /\ start \in O
      /\ \A r \in O : OwnedChildren(s, r) \subseteq O
      /\ \A X : (/\ X \subseteq low /\ start \in X
                 /\ \A r \in X : OwnedChildren(s, r) \subseteq X) => O \subseteq X
  BY OwnedRefsAreLeast
<1>6. \A r \in low : \E b \in s.objs : r = b.ref
  BY <1>3
<1>7. ASSUME NEW b \in s.objs PROVE \E o \in firm : Stands(b, o) /\ b.ref.uid = o.uid
  BY QuietIsFirm DEF Stands
<1>8. \A o \in firm : o.uid # "" /\ view(o).ref.uid = o.uid /\ view(o).owners = o.owners
  BY QuietIsFirm, ViewIs
<1>9. T \subseteq I.objs
  <2>1. view(t) \in I.objs
    BY <1>2
  <2> QED
    BY <1>4, <2>1 DEF Tree, below
<1> HIDE DEF O, T, I, start
<1>10. ASSUME NEW r \in O PROVE \E v \in T : v.ref.uid = r.uid
  <2> DEFINE X == {x \in low : \E v \in T : v.ref.uid = x.uid}
  <2>1. start \in X
    BY <1>3, <1>4, <1>8 DEF Tree
  <2>2. ASSUME NEW x \in X, NEW c \in OwnedChildren(s, x) PROVE c \in X
    <3>1. PICK b \in s.objs : x = b.ref
      BY <1>6
    <3>2. PICK q \in s.objs : c = q.ref /\ b.ref.uid \in q.owners
      BY <2>2, <3>1, QuietChildren
    <3>3. PICK v \in T : v.ref.uid = b.ref.uid
      BY <3>1
    <3>4. PICK y \in firm : Stands(q, y) /\ q.ref.uid = y.uid
      BY <1>7
    <3>5. PICK o \in firm : v = view(o)
      BY <1>2, <1>9
    <3>6. Owns(v, view(y))
      BY <1>8, <3>2, <3>3, <3>4, <3>5 DEF Owns, Stands
    <3>7. view(y) \in T
      BY <1>2, <1>4, <3>6 DEF Tree
    <3>8. c \in low
      BY <3>2
    <3> QED
      BY <1>8, <3>2, <3>4, <3>7, <3>8
  <2> HIDE DEF X
  <2>3. X \subseteq low
    BY DEF X
  <2>4. O \subseteq X
    BY <1>5, <2>1, <2>2, <2>3
  <2> QED
    BY <2>4 DEF X
<1>11. ASSUME NEW v \in T PROVE \E r \in O : r.uid = v.ref.uid
  <2> DEFINE X == {x \in below(I, view(t)) : \E r \in O : r.uid = x.ref.uid}
  <2>1. view(t) \in X
    BY <1>3, <1>5, <1>8 DEF below
  <2>2. ASSUME NEW x \in X, NEW p \in I.objs, Owns(x, p) PROVE p \in X
    <3>1. PICK r \in O : r.uid = x.ref.uid
      OBVIOUS
    <3>2. PICK b \in s.objs : r = b.ref
      BY <1>5, <1>6
    <3>3. PICK y \in firm : p = view(y)
      BY <1>2
    <3>4. PICK q \in s.objs : Stands(q, y)
      BY ObjectsStand DEF Quiet
    <3>5. b.ref.uid \in q.owners /\ y.owners # {} /\ q.ref.uid = y.uid
      BY <1>8, <2>2, <3>1, <3>2, <3>3, <3>4 DEF Owns, Stands
    <3>6. q.ref \in OwnedChildren(s, r)
      BY <3>2, <3>5, QuietChildren
    <3>7. q.ref \in O
      BY <1>5, <3>6
    <3>8. p \in below(I, view(t))
      BY <1>8, <3>3, <3>5 DEF below
    <3> QED
      BY <1>8, <3>3, <3>5, <3>7, <3>8
  <2> HIDE DEF X
  <2>3. X \subseteq below(I, view(t))
    BY DEF X
  <2>4. Tree(I, X, view(t))
    BY <2>1, <2>2, <2>3 DEF Tree
  <2>5. T \subseteq X
    BY <1>4, <2>4
  <2> QED
    BY <2>5 DEF X
<1>12. ownedAmong(cluster) = {v.ref.uid : v \in T}
  BY QuietIsFirm DEF ownedAmong, uidsOf, T, I
<1>13. {r.uid : r \in O} = ownedAmong(cluster)
  BY <1>10, <1>11, <1>12
<1> QED
  BY <1>5, <1>6, <1>13 DEF O, start

(* A member escapes its own derived scope exactly when it leads to an      *)
(* object the target does not own.                                         *)
LEMMA DerivedScopeCovers ==
  ASSUME Quiet, tracked(call.s, call.a.target), NEW r \in trackedRefs \cup {call.a.target},
         tracked(call.s, r)
  PROVE  key(r) \in ownedSubtree(call.s, call.a.target) <=> obj(r).ref.uid \in ownedAmong(cluster)
<1> DEFINE target == call.a.target
           O      == ownedRefs(call.s, lookup(call.s, target).ref)
<1>1. ownedSubtree(call.s, target) = keysOf(O) \cup {key(target)}
  BY DEF ownedSubtree
<1>2. /\ \A x \in O : \E b \in call.s.objs : x = b.ref
      /\ {x.uid : x \in O} = ownedAmong(cluster)
      /\ lookup(call.s, target).ref \in O
  BY SubtreeIsTree, OwnedRefsAreLeast
<1>3. target.uid = "" /\ Snapshot
  BY LiveActionIs DEF Quiet, Snapshot
<1> HIDE DEF O
<1>4. ASSUME NEW x \in O PROVE x.uid # ""
  <2>1. PICK b \in call.s.objs : x = b.ref
    BY <1>2
  <2>2. PICK o \in firm : Stands(b, o) /\ o.uid # ""
    BY QuietIsFirm
  <2> QED
    BY <2>1, <2>2 DEF Stands
<1>5. CASE r = target
  BY <1>1, <1>2, <1>5 DEF obj
<1>6. CASE r # target
  <2>1. PICK o \in firm : Stands(obj(r), o) /\ r.uid = o.uid /\ r.uid # ""
    BY <1>6, QuietNode
  <2>2. key(r) # key(target)
    BY <1>3, <2>1, KeyCases
  <2>3. obj(r).ref.uid = r.uid /\ key(r) = <<"uid", r.uid>>
    BY <2>1 DEF Stands, key
  <2>4. \A x \in O : key(x) = <<"uid", x.uid>>
    BY <1>4 DEF key
  <2>5. key(r) \in keysOf(O) <=> r.uid \in {x.uid : x \in O}
    BY <2>3, <2>4 DEF keysOf
  <2> QED
    BY <1>1, <1>2, <2>2, <2>3, <2>5
<1> QED
  BY <1>5, <1>6

-----------------------------------------------------------------------------
(* The verdict on a quiet cluster.                                         *)

(* What the check reports is what the action affects.                      *)
LEMMA QuietReportIsRight ==
  ASSUME Quiet, QuietSound, pc = "returned"
  PROVE  reportedUIDs = affectedAmong(cluster)
<1>1. affectedAmong(cluster) \subseteq reportedUIDs
  BY SteadyIsReported, QuietIsFirm DEF Quiet
<1>2. ASSUME NEW k \in DOMAIN affected
      PROVE  lookup(call.s, affected[k]).ref.uid \in affectedAmong(cluster)
  <2>1. Justified(affected[k])
    BY DEF Quiet, Snapshot, AfterRead, QuietSound
  <2>2. PICK o \in firm : /\ Stands(obj(affected[k]), o)
                          /\ view(o) \in AffectedObjects(ideal(firm), call.a)
    BY <2>1 DEF Justified
  <2>3. lookup(call.s, affected[k]).ref.uid = view(o).ref.uid
    BY <2>2, ViewIs DEF Stands, obj
  <2>4. affectedAmong(cluster) = uidsOf(AffectedObjects(ideal(firm), call.a))
    BY QuietIsFirm DEF affectedAmong
  <2> QED
    BY <2>2, <2>3, <2>4 DEF uidsOf
<1> QED
  BY <1>1, <1>2 DEF reportedUIDs, uidsOf, members

(* Something is affected only if the target is there.                      *)
LEMMA QuietTargetIsThere ==
  ASSUME Quiet, affectedAmong(cluster) # {}
  PROVE  tracked(call.s, call.a.target)
<1> DEFINE s == ideal(firm)
           target == call.a.target
<1>1. Snapshot /\ target.uid = ""
  BY LiveActionIs DEF Quiet, Snapshot
<1>2. affectedAmong(cluster) = uidsOf(AffectedObjects(s, call.a))
  BY QuietIsFirm DEF affectedAmong
<1>3. Seeds(s, call.a) # {}
  <2> SUFFICES ASSUME Seeds(s, call.a) = {} PROVE FALSE
    OBVIOUS
  <2>1. Closed(s, call.a, {})
    BY DEF Closed
  <2>2. Reached(s, call.a) = {}
    BY <2>1, LeastInAnyClosed
  <2>3. AffectedObjects(s, call.a) = {}
    BY <2>2 DEF AffectedObjects, Bindings
  <2> QED
    BY <1>2, <2>3 DEF uidsOf
<1>4. tracked(s, target)
  <2>1. Seeds(s, call.a) = IF tracked(s, target) THEN {lookup(s, target)} ELSE {}
    BY <1>1, LiveSeedsAre
  <2> HIDE DEF s, target
  <2> QED
    BY <1>3, <2>1
<1>5. PICK o \in firm : named3(o) = human(target)
  BY <1>1, <1>4, IdealIs
<1>6. PICK b \in call.s.objs : Stands(b, o)
  BY <1>1, ObjectsStand
<1>7. human(target) = human(b.ref)
  BY <1>5, <1>6 DEF Stands, human, named3
<1> QED
  BY <1>1, <1>7, StateLooksUp DEF Snapshot

(* A member escapes exactly when something is affected that the target does *)
(* not own.                                                                *)
LEMMA QuietEscapesAre ==
  ASSUME Quiet, QuietSound, pc = "returned", members # {}
  PROVE  escapes(call.s, call.scope, members) # {}
           <=> ~(affectedAmong(cluster) \subseteq ownedAmong(cluster))
<1> DEFINE target == call.a.target
           hit    == affectedAmong(cluster)
<1>1. reportedUIDs = hit
  BY QuietReportIsRight
<1>2. hit = {obj(r).ref.uid : r \in members}
  BY <1>1 DEF reportedUIDs, uidsOf, obj
<1>3. tracked(call.s, target)
  BY <1>2, QuietTargetIsThere
<1>4. ASSUME NEW r \in members
      PROVE  r \in trackedRefs \cup {target} /\ tracked(call.s, r)
  <2>1. PICK k \in DOMAIN affected : r = affected[k]
    BY DEF members
  <2>2. Justified(r) /\ TypeOK
    BY <2>1 DEF Quiet, Snapshot, AfterRead, QuietSound, ReadInv, LiveInv, LTypeOK
  <2> QED
    BY <2>1, <2>2 DEF Justified, TypeOK
<1>5. \A r \in members : key(r) \in ownedSubtree(call.s, target) <=> obj(r).ref.uid \in ownedAmong(cluster)
  BY <1>3, <1>4, DerivedScopeCovers
<1>6. escapes(call.s, call.scope, members)
        = {r \in members : key(r) \notin ownedSubtree(call.s, target)}
  <2>1. call.scope = {OwnershipClause(target)}
    BY DEF Quiet, Snapshot, AfterRead, ReadInv, Asked, Derive
  <2>2. OwnershipClause(target).dim = "ownership" /\ OwnershipClause(target).root = target
    BY DEF OwnershipClause, clauseOf
  <2>3. covered(call.s, OwnershipClause(target), members)
          = {r \in members : key(r) \in ownedSubtree(call.s, target)}
    BY <2>2 DEF covered, dimOf
  <2> QED
    BY <2>1, <2>3 DEF escapes
<1> HIDE DEF hit
<1>7. escapes(call.s, call.scope, members) # {} <=> ~(hit \subseteq ownedAmong(cluster))
  BY <1>2, <1>5, <1>6
<1> QED
  BY <1>7 DEF hit

(* A live check removes no finalizer, so nothing is external.              *)
LEMMA NothingExternal ==
  ASSUME Snapshot
  PROVE  ExternalEffects(call.s, call.a) = {}
<1>1. ASSUME NEW p \in bothPayloads(call.a) PROVE FALSE
  <2>1. PICK o \in call.a.old, n \in call.a.new : p = <<o, n>>
    BY DEF bothPayloads
  <2> QED
    BY LiveActionIs DEF Snapshot
<1>2. ~finalizersRemoved(call.a)
  BY <1>1 DEF finalizersRemoved
<1>3. "FinalizerRemoval" \notin classify(call.a)
  BY <1>2 DEF classify
<1> QED
  BY <1>3 DEF ExternalEffects

(* When a live check exits with 2.                                         *)
LEMMA LiveExitIs ==
  ASSUME Snapshot, exit # "running"
  PROVE  /\ pc = "returned"
         /\ exit = "2" <=> \/ members = {}
                           \/ check.mode = "enforce" /\ escapes(call.s, call.scope, members) # {}
<1> DEFINE esc == escapes(call.s, call.scope, members)
           d   == Safe(call.s, call.a, call.scope, members)
           e   == Apply(call.mode, d)
<1>1. /\ pc = "returned" /\ decision = d /\ report = Apply(call.mode, decision)
      /\ exit = IF report.verdict = "Block" THEN "2" ELSE "0"
  BY DEF Snapshot, AfterRead, ReadInv, LiveInv, Judged
<1>2. /\ d.verdict = IF members = {} \/ esc # {} THEN "Block" ELSE "Allow"
      /\ d.escaping = esc
  BY NothingExternal, SafeIs
<1>3. e.verdict = IF call.mode = "audit" /\ d.verdict = "Block" /\ d.escaping # {}
                    THEN "Warn" ELSE d.verdict
  BY ApplyIs
<1>4. call.mode = check.mode /\ check.mode \in {"audit", "enforce"}
  BY LiveActionIs DEF ModeKnown, Snapshot
<1>5. members = {} => esc = {}
  BY DEF escapes
<1>6. exit = IF e.verdict = "Block" THEN "2" ELSE "0"
  BY <1>1
<1> HIDE DEF d, e, esc
<1>7. e.verdict = "Block" <=> members = {} \/ (check.mode = "enforce" /\ esc # {})
  BY <1>2, <1>3, <1>4, <1>5
<1>8. exit = "2" <=> members = {} \/ (check.mode = "enforce" /\ esc # {})
  BY <1>6, <1>7
<1> QED
  BY <1>1, <1>8 DEF esc

(* So an answer about a quiet cluster is the right one.                    *)
LEMMA QuietOutcome ==
  ASSUME Ruled, OneGroup(Discoveries), ReadInv, QuietSound
  PROVE  QuietVerdictIsRight
<1> DEFINE hit == affectedAmong(cluster)
<1> SUFFICES ASSUME exit # "running", phase = "checked", moments = {cluster}
             PROVE  /\ reportedUIDs = hit
                    /\ exit = "2" <=>
                         hit = {} \/ (check.mode = "enforce" /\ ~(hit \subseteq ownedAmong(cluster)))
  BY DEF QuietVerdictIsRight
<1>1. Snapshot /\ Quiet
  BY DEF Snapshot, AfterRead, Quiet
<1>2. /\ pc = "returned"
      /\ exit = "2" <=> \/ members = {}
                        \/ check.mode = "enforce" /\ escapes(call.s, call.scope, members) # {}
  BY <1>1, LiveExitIs
<1>3. reportedUIDs = hit
  BY <1>1, <1>2, QuietReportIsRight
<1>4. members = {} <=> hit = {}
  BY <1>3 DEF reportedUIDs, uidsOf
<1>5. members # {} =>
        (escapes(call.s, call.scope, members) # {} <=> ~(hit \subseteq ownedAmong(cluster)))
  BY <1>1, <1>2, QuietEscapesAre
<1> HIDE DEF hit
<1> QED
  BY <1>2, <1>3, <1>4, <1>5

(* QuietVerdictIsRight for every server that keeps to its rules and lists  *)
(* no kind in two groups, however large the cluster and in however many    *)
(* versions its kinds are listed.                                          *)
THEOREM QuietVerdictHolds ==
  Sane(Discoveries, Clusters, Writes) /\ OneGroup(Discoveries) =>
    (LSpec => []QuietVerdictIsRight)
<1> SUFFICES ASSUME Sane(Discoveries, Clusters, Writes), Ruled, OneGroup(Discoveries)
             PROVE  LSpec => []QuietVerdictIsRight
  BY DEF Ruled, Sane
<1>1. LSpec => [](ReadInv /\ QuietSound)
  BY QuietSoundAlways
<1>2. ReadInv /\ QuietSound => QuietVerdictIsRight
  BY QuietOutcome
<1> QED
  BY <1>1, <1>2, PTL
=============================================================================
