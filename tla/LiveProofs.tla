----------------------------- MODULE LiveProofs -----------------------------
(***************************************************************************)
(* Proofs about the check on a live cluster, LiveCheck: types, and the     *)
(* rule that a failed read leaves no verdict.  Nothing is assumed of the   *)
(* server.  What is read and decided is the subject of SnapshotProofs.     *)
(***************************************************************************)
EXTENDS LiveCheck, VerdictProofs

-----------------------------------------------------------------------------
(* Types, and failed reads.                                                *)

(* Until the read is over nothing is walked or decided, and an error is     *)
(* final: what makes NoVerdictOnPartialRead inductive.                     *)
ReadBeforeVerdict ==
  /\ phase # "checked" => pc = "idle" /\ decision = none /\ report = none
  /\ phase = "error" => exit = "1"
  /\ failed => phase = "error"

(* A call has its four arguments throughout.                               *)
CallIsRecord ==
  call = [s |-> call.s, a |-> call.a, scope |-> call.scope, mode |-> call.mode]

(* With what the walk and the verdict keep once the read is over.          *)
LiveInv ==
  /\ ReadBeforeVerdict /\ LTypeOK /\ CallIsRecord
  /\ phase # "checked" => visited = {} /\ affected = emptyMap
  /\ phase \in {"resolve", "discover", "list"} => exit = "running"
  /\ phase \in {"resolve", "discover"} => todo = {}
  /\ phase = "checked" => KeysClosed /\ Judged

(* A check that has read nothing is in the invariant.                      *)
LEMMA FreshIsLive ==
  ASSUME phase = "resolve", Fresh
  PROVE  LiveInv
<1>1. CallIsRecord
  BY DEF Fresh, CallIsRecord, noCall
<1> QED
  BY <1>1, MaxWritesAssumption DEF Fresh, LiveInv, ReadBeforeVerdict, LTypeOK

(* And so starts every check of this specification.                        *)
LEMMA LiveInitEstablishes == LInit => LiveInv
  BY FreshIsLive DEF LInit

(* Walk, Safe, the mode and the exit take no step before the read is over. *)
LEMMA NothingVerifiedBefore ==
  ASSUME ReadBeforeVerdict, Verify
  PROVE  phase = "checked"
<1> SUFFICES ASSUME pc = "idle", decision = none, report = none, VNext
             PROVE  FALSE
  BY DEF ReadBeforeVerdict, Verify
<1>1. ~Walk
  BY DEF Walk, Next, Return, Skip, Expand
<1>2. ~Decide /\ ~ApplyMode /\ ~Exit
  BY DEF Decide, ApplyMode, Exit
<1> QED
  BY <1>1, <1>2 DEF VNext

(* Every step of runCheckLive (main.go:260-295) and of the API server       *)
(* keeps ReadBeforeVerdict.                                                *)
LEMMA FailureIsFinal ==
  ASSUME ReadBeforeVerdict, [LNext]_lvars
  PROVE  ReadBeforeVerdict'
<1> USE DEF ReadBeforeVerdict, reading
<1>1. CASE Resolve
  BY <1>1 DEF Resolve
<1>2. CASE ResolveFails \/ ApiFails \/ BuildFails
  BY <1>2 DEF ResolveFails, ApiFails, BuildFails, exitWithError
<1>3. CASE Discover \/ List \/ ChangeApi
  BY <1>3 DEF Discover, List, ChangeApi, allVars
<1>4. CASE Build
  BY <1>4 DEF Build
<1>5. CASE Verify
  BY <1>5, NothingVerifiedBefore DEF Verify, liveVars
<1>6. ASSUME NEW w \in Writes, Write(w) PROVE ReadBeforeVerdict'
  BY <1>6 DEF Write, allVars
<1>7. CASE UNCHANGED lvars
  BY <1>7 DEF lvars, allVars, liveVars
<1> QED
  BY <1>1, <1>2, <1>3, <1>4, <1>5, <1>6, <1>7 DEF LNext, Step

(* Before the read is over only its own steps and the server's are taken;  *)
(* none of them touches the walk or the verdict but Build, which starts it. *)
LEMMA ReadStepsKeepTypes ==
  ASSUME LiveInv, [LNext]_lvars, ~Verify, ~Build, phase # "checked"
  PROVE  LiveInv'
<1> SUFFICES /\ LTypeOK' /\ phase' # "checked" /\ CallIsRecord'
             /\ visited' = {} /\ affected' = emptyMap
             /\ phase' \in {"resolve", "discover", "list"} => exit' = "running"
             /\ phase' \in {"resolve", "discover"} => todo' = {}
  BY FailureIsFinal DEF LiveInv
<1> USE DEF LiveInv, LTypeOK, ReadBeforeVerdict, CallIsRecord, reading
<1>1. CASE Resolve
  BY <1>1 DEF Resolve, noCall
<1>2. CASE ResolveFails \/ ApiFails \/ BuildFails
  BY <1>2 DEF ResolveFails, ApiFails, BuildFails, exitWithError
<1>3. CASE Discover
  <2>1. \A i \in selectTargets(served) : ~served[i].subresource /\ served[i].verbs # {"create"}
    BY DEF selectTargets, wanted, supportsList
  <2> QED
    BY <1>3, <2>1 DEF Discover, allVars
<1>4. CASE List
  BY <1>4 DEF List, allVars
<1>5. CASE ChangeApi
  BY <1>5 DEF ChangeApi, allVars
<1>6. ASSUME NEW w \in Writes, Write(w) PROVE writes' \in 0..MaxWrites
  BY <1>6, MaxWritesAssumption DEF Write
<1>7. ASSUME NEW w \in Writes, Write(w)
      PROVE  UNCHANGED <<allVars, phase, todo, served>>
  BY <1>7 DEF Write
<1>8. CASE UNCHANGED lvars
  BY <1>8 DEF lvars, allVars, liveVars
<1> QED
  BY <1>1, <1>2, <1>3, <1>4, <1>5, <1>6, <1>7, <1>8 DEF LNext, Step, allVars

(* Build hands the walk an empty closure and the target as its only work,  *)
(* if the State knows it (main.go:289-291, closure.go:20-27).              *)
LEMMA BuildBegins ==
  ASSUME LiveInv, Build
  PROVE  Begun' /\ phase' = "checked" /\ todo' = {} /\ writes' = writes /\ served' = served
<1>1. /\ phase' = "checked" /\ pc' = "walk" /\ todo' = {} /\ writes' = writes
      /\ visited' = {} /\ affected' = emptyMap /\ decision' = none /\ report' = none
      /\ exit' = "running" /\ served' = served
  BY DEF Build, LiveInv, ReadBeforeVerdict
<1>2. queue' = IF tracked(call.s, call.a.target)' THEN {(call.a.target)'} ELSE {}
  <2>1. PICK objs \in {BuildObjects(got, kindScope)} : \E s \in {NewScanState(objs)} :
          /\ call' = [call EXCEPT !.s = s, !.scope = Derive(call.a.target)]
          /\ queue' = IF tracked(s, call.a.target) THEN {call.a.target} ELSE {}
    BY DEF Build
  <2> QED
    BY <2>1 DEF LiveInv, CallIsRecord
<1> QED
  BY <1>1, <1>2 DEF Begun, AtStart

(* And keeps LiveInv.                                                      *)
LEMMA BuildStartsWalk ==
  ASSUME LiveInv, Build
  PROVE  LiveInv'
<1>1. /\ phase' = "checked" /\ pc' = "walk" /\ todo' = {} /\ writes' = writes
      /\ visited' = {} /\ affected' = emptyMap /\ decision' = none /\ report' = none
      /\ exit' = "running" /\ served' = served
      /\ queue' = IF tracked(call.s, call.a.target)' THEN {(call.a.target)'} ELSE {}
  BY BuildBegins DEF Begun, AtStart
<1>2. TypeOK'
  BY <1>1 DEF TypeOK, emptyMap
<1>3. KeysClosed'
  BY <1>1 DEF KeysClosed
<1>4. Judged'
  BY <1>1 DEF Judged
<1>5. LTypeOK'
  BY <1>1, <1>2, MaxWritesAssumption DEF LTypeOK, LiveInv
<1>6. CallIsRecord'
  BY DEF Build, LiveInv, CallIsRecord
<1> QED
  BY <1>1, <1>3, <1>4, <1>5, <1>6, FailureIsFinal DEF LiveInv, LNext, Step

(* After the read the steps are those of the walk and the verdict.         *)
LEMMA VerifyKeepsTypes ==
  ASSUME LiveInv, Verify
  PROVE  LiveInv'
<1>1. phase = "checked" /\ UNCHANGED liveVars /\ [VNext]_allVars
  BY NothingVerifiedBefore DEF LiveInv, Verify
<1>2. [Next]_vars /\ UNCHANGED call
  BY <1>1, CheckStepsWalk
<1>3. TypeOK' /\ KeysClosed' /\ Judged'
  BY <1>1, <1>2, TypesKept, KeysStayClosed, JudgedKept DEF LiveInv, LTypeOK
<1>4. exit' \in {"running", "0", "1", "2"} /\ pc' # "idle"
  BY <1>3 DEF Judged, TypeOK
<1>5. LTypeOK' /\ CallIsRecord'
  BY <1>1, <1>2, <1>3, <1>4 DEF LTypeOK, CallIsRecord, LiveInv, liveVars
<1> QED
  BY <1>1, <1>3, <1>5, FailureIsFinal DEF LiveInv, LNext, Step, liveVars

(* Every step of the check and of the server keeps LiveInv.                *)
LEMMA LiveNextKeeps == LiveInv /\ [LNext]_lvars => LiveInv'
<1> SUFFICES ASSUME LiveInv, [LNext]_lvars PROVE LiveInv'
  OBVIOUS
<1>1. CASE Verify
  BY <1>1, VerifyKeepsTypes
<1>2. CASE Build
  BY <1>2, BuildStartsWalk
<1>3. CASE ~Verify /\ ~Build /\ phase # "checked"
  BY <1>3, ReadStepsKeepTypes
<1>4. CASE ~Verify /\ ~Build /\ phase = "checked"
  <2>1. UNCHANGED lvars
    BY <1>4 DEF LNext, Step, Resolve, ResolveFails, Discover, List, ApiFails, BuildFails,
                ChangeApi, Write, reading
  <2>2. UNCHANGED vars /\ UNCHANGED liveVars /\ [VNext]_allVars
    BY <2>1 DEF lvars, allVars, vars
  <2>3. TypeOK' /\ KeysClosed' /\ Judged'
    BY <1>4, <2>2, TypesKept, KeysStayClosed, JudgedKept DEF LiveInv, LTypeOK
  <2> QED
    BY <1>4, <2>1, <2>3 DEF LiveInv, LTypeOK, ReadBeforeVerdict, CallIsRecord, lvars, allVars, liveVars
<1> QED
  BY <1>1, <1>2, <1>3, <1>4

(* The invariant holds in every state of a check on a live cluster.        *)
THEOREM LiveInvariant == LSpec => []LiveInv
  BY LiveInitEstablishes, LiveNextKeeps, PTL DEF LSpec

(* What the read lists is listable and no subresource, what the walk holds  *)
(* is of the State that was read, and a check exits with 0, 1 or 2          *)
(* (reader.go:164-202, main.go:116-127), whatever is served and written.   *)
THEOREM LiveTypesHold == LSpec => []LTypeOK
<1>1. LiveInv => LTypeOK
  BY DEF LiveInv
<1> QED
  BY <1>1, LiveInvariant, PTL

(* A discovery or a list that fails leaves no verdict behind, only exit    *)
(* code 1: Reader.State returns its first error and runCheckLive hands it  *)
(* on (reader.go:24-26, main.go:282-287), whatever is served and written.  *)
THEOREM NoVerdictAfterFailure == LSpec => []NoVerdictOnPartialRead
<1>1. LiveInv => NoVerdictOnPartialRead
  BY DEF LiveInv, ReadBeforeVerdict, NoVerdictOnPartialRead
<1> QED
  BY <1>1, LiveInvariant, PTL
=============================================================================
