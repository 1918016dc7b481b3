--------------------------- MODULE AbstractClosure ---------------------------
(***************************************************************************)
(* What Closure promises: one call, one answer, and the answer is the set  *)
(* of objects the action affects.                                          *)
(***************************************************************************)
CONSTANTS
  Calls,              \* the calls [s, a, ...] made: a state and an action
  AffectedBy(_, _)    \* the objects an action affects in a state

VARIABLES
  call,    \* the call under way
  done,    \* whether it has been answered
  answer   \* the affected objects, once it has

Init == call \in Calls /\ ~done /\ answer = {}

Answer ==
  /\ ~done
  /\ done'
  /\ answer' = AffectedBy(call.s, call.a)
  /\ UNCHANGED call

vars == <<call, done, answer>>

Spec == Init /\ [][Answer]_vars
=============================================================================
