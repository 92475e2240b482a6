------------------------------ MODULE TwoKeys ------------------------------
(***************************************************************************)
(* What a run promises, whatever the loop does inside: work happens only   *)
(* against a contract frozen before it and never changed during it; a      *)
(* phase is accepted only on a green ladder over the tree as it is now;    *)
(* the run is accepted only when every phase of the sealed plan is, the    *)
(* cumulative acceptance phase last; an ended run stays ended.             *)
(***************************************************************************)
EXTENDS Integers, FiniteSetsExt

CONSTANT NoContract

VARIABLES
  stage,    (* "drafting", "working", "accepted" or "stopped" *)
  frozen,   (* the contract the work is judged by, NoContract while drafting *)
  green,    (* the frozen ladder passed on the tree as it stands *)
  todo      (* phases not yet accepted; empty until the plan is sealed *)

vars == << stage, frozen, green, todo >>

Init ==
  /\ stage = "drafting" /\ frozen = NoContract /\ green = FALSE
  /\ todo \in { {}, {0} }

(* A plan of n phases is sealed once: phases 0 .. n-1 and the acceptance n. *)
SealPlan ==
  /\ stage = "drafting" /\ todo = {}
  /\ todo' # {} /\ todo' = 0 .. Max(todo')
  /\ UNCHANGED << stage, frozen, green >>

Freeze ==
  /\ stage = "drafting" /\ todo # {}
  /\ stage' = "working" /\ frozen' # NoContract /\ green' = FALSE
  /\ UNCHANGED todo

(* A turn of the worker voids whatever the ladder said. *)
Work ==
  /\ stage = "working"
  /\ green' = FALSE
  /\ UNCHANGED << stage, frozen, todo >>

Pass ==
  /\ stage = "working"
  /\ green' = TRUE
  /\ UNCHANGED << stage, frozen, todo >>

(* The second key: the first phase not yet accepted is, if the ladder is green. *)
Accept ==
  /\ stage = "working" /\ green
  /\ todo' = todo \ {Min(todo)}
  /\ IF todo' = {} THEN stage' = "accepted" /\ UNCHANGED frozen
                   ELSE stage' = "drafting" /\ frozen' = NoContract
  /\ green' = FALSE

(* Child runs turned both keys for some phases; never for the acceptance. *)
Merge ==
  /\ stage = "drafting" /\ todo # {}
  /\ todo' \subseteq todo /\ Max(todo) \in todo'
  /\ UNCHANGED << stage, frozen, green >>

Stop ==
  /\ stage \in {"drafting", "working"}
  /\ stage' = "stopped" /\ green' = FALSE
  /\ UNCHANGED todo

Next == SealPlan \/ Freeze \/ Work \/ Pass \/ Accept \/ Merge \/ Stop

Spec == Init /\ [][Next]_vars
=============================================================================
