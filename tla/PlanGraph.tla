----------------------------- MODULE PlanGraph -----------------------------
(***************************************************************************)
(* The dependency graph of a frozen plan (src/src/domain/plan-graph.ts)    *)
(* and the frontier the phase walk opens (waveIndicesAt in plan.ts).       *)
(*                                                                         *)
(* A plan is a function from 0 .. n-1 (the code's indices) to sub-goals; a *)
(* sub-goal keeps its plan-local id, its declared dependsOn and its group  *)
(* band, each Absent when the plan leaves it out.  Goals, intents and      *)
(* rubrics are left out.                                                   *)
(***************************************************************************)
EXTENDS Integers, FiniteSets, FiniteSetsExt

CONSTANT Absent   (* an optional field the plan does not carry *)

PlanSize(plan) == Cardinality(DOMAIN plan)

PlanIds(plan) == { plan[i].id : i \in DOMAIN plan } \ {Absent}

(* The first index carrying an id wins, as in the byId map. *)
IndexOfId(plan, id) == Min({ i \in DOMAIN plan : plan[i].id = id })

(* The first index of the contiguous group band phase i belongs to. *)
BandStart(plan, i) ==
  IF plan[i].group = Absent THEN i
  ELSE Min({ s \in 0 .. i : \A j \in s .. i : plan[j].group = plan[i].group })

PositionalPrerequisites(plan, i) == 0 .. (BandStart(plan, i) - 1)

(***************************************************************************)
(* The lowered edges of phase i: its declared ids, resolved; an id that    *)
(* does not resolve falls back to the positional prerequisites as well.    *)
(***************************************************************************)
DependenciesOf(plan, i) ==
  IF plan[i].dependsOn = Absent THEN PositionalPrerequisites(plan, i)
  ELSE { IndexOfId(plan, id) : id \in plan[i].dependsOn \cap PlanIds(plan) }
         \cup (IF plan[i].dependsOn \subseteq PlanIds(plan) THEN {}
               ELSE PositionalPrerequisites(plan, i))

PlanDependencies(plan) == [i \in DOMAIN plan |-> DependenciesOf(plan, i)]

(* Some non-empty set of phases each waiting for another of the set. *)
HasCycle(deps) ==
  \E S \in SUBSET DOMAIN deps : S # {} /\ \A i \in S : deps[i] \cap S # {}

(* validatePlanGraph, as the set of violations the parse seam would raise. *)
PlanViolations(plan) ==
  LET deps   == PlanDependencies(plan)
      bad(k) == CASE k = "duplicate-id" ->
                       \E i, j \in DOMAIN plan :
                          i # j /\ plan[i].id # Absent /\ plan[i].id = plan[j].id
                  [] k = "self-dependency" ->
                       \E i \in DOMAIN plan :
                          plan[i].dependsOn # Absent /\ plan[i].id \in plan[i].dependsOn
                  [] k = "unknown-dependency" ->
                       \E i \in DOMAIN plan :
                          plan[i].dependsOn # Absent /\ ~(plan[i].dependsOn \subseteq PlanIds(plan))
                  [] k = "cycle" -> HasCycle(deps)
                  [] k = "forward-dependency" ->
                       \E i \in DOMAIN plan : \E d \in deps[i] : d > i
  IN  { k \in {"duplicate-id", "self-dependency", "unknown-dependency",
               "cycle", "forward-dependency"} : bad(k) }

ValidPlan(plan) == PlanViolations(plan) = {}

(* Phases not yet completed whose every prerequisite is. *)
ReadyFrontier(plan, completed) ==
  { i \in DOMAIN plan \ completed : DependenciesOf(plan, i) \subseteq completed }

(* Entering a legacy group band in its middle never fans out again. *)
MidBand(plan, index) ==
  /\ plan[index].dependsOn = Absent
  /\ plan[index].group # Absent
  /\ index > 0
  /\ plan[index - 1].group = plan[index].group

BrokenWaveIndicesAt(plan, index, completed) ==
  IF index \notin DOMAIN plan \/ MidBand(plan, index) THEN {index}
  ELSE {index} \cup ReadyFrontier(plan, completed \cup 0 .. index)

WaveIndicesAt(plan, index, completed) ==
  LET frontier == ReadyFrontier(plan, completed \cup 0 .. (index - 1))
  IN  IF index \notin DOMAIN plan \/ MidBand(plan, index) \/ frontier = {} THEN {index}
      ELSE frontier
=============================================================================
