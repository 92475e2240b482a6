----------------------------- MODULE MCReducer -----------------------------
(***************************************************************************)
(* Small instances of the reducer.  Each scenario fixes a configuration    *)
(* and the results its commands may have, chosen so that one family of     *)
(* interactions happens in full while the histories stay short.            *)
(***************************************************************************)
EXTENDS Reducer

CONSTANTS h1, h2, f1

Policy ==
  [phased |-> FALSE, parallelPhases |-> FALSE, maxPlanRetries |-> 1, maxPlanRevisions |-> 1,
   maxCompileRetries |-> 1, maxSealRevisions |-> 1, maxIterations |-> 2, candidates |-> 1,
   noDiff |-> TRUE, oscillation |-> TRUE, repeatFailureThreshold |-> 2,
   harnessCrashThreshold |-> 2, unevaluableThreshold |-> 2, timeoutNoDiffThreshold |-> 2,
   autoRemediate |-> FALSE]

Contract(id, setup, files) ==
  [id |-> id, setup |-> setup, generatedFiles |-> files, requiredTools |-> FALSE]

Plain    == Contract("plain", FALSE, {})
Authored == Contract("authored", FALSE, {f1})

Red(text, files, noise) == [signature |-> [text |-> text, names |-> files], noise |-> noise]

World ==
  [plans |-> {}, contracts |-> {Plain}, statuses |-> {"completed"}, hashes |-> {h1, h2},
   drift |-> FALSE, details |-> {Red("r1", {}, 0)}, evaluable |-> {TRUE}, budgets |-> {FALSE}]

(* Crashes between turns, a repeated red naming an authored file, adjudication. *)
Crashing ==
  [config |-> [Policy EXCEPT !.maxIterations = 3],
   world  |-> [World EXCEPT !.contracts = {Authored}, !.statuses = {"completed", "crashed"},
                            !.details = {Red("r1", {f1}, 0), Red("r1", {f1}, 1), Red("r2", {}, 0)}]]

(* Self-recovery of every remediable kind, interleaved. *)
Remediating ==
  [config |-> [Policy EXCEPT !.autoRemediate = TRUE, !.maxIterations = 1],
   world  |-> [World EXCEPT !.statuses = {"completed", "crashed"}]]

(* Self-recovery of a run whose harness never crashes, with a turn to spare. *)
Recovering == [config |-> [Policy EXCEPT !.autoRemediate = TRUE], world |-> World]

(* A verifier that cannot run and a budget that runs out, with self-recovery on. *)
Starved ==
  [config |-> [Policy EXCEPT !.autoRemediate = TRUE, !.maxIterations = 1],
   world  |-> [World EXCEPT !.statuses = {"crashed", "completed"}, !.hashes = {h1},
                            !.evaluable = BOOLEAN, !.budgets = BOOLEAN]]

(* Turns cut short by the wall clock or the turn cap. *)
TimingOut ==
  [config |-> [Policy EXCEPT !.maxIterations = 4, !.repeatFailureThreshold = 5,
                             !.timeoutNoDiffThreshold = 3],
   world  |-> [World EXCEPT !.statuses = {"timeout", "truncated", "completed"}]]

(* Something else writes to the tree between the turns of a tournament run. *)
Drifting ==
  [config |-> [Policy EXCEPT !.candidates = 2, !.maxIterations = 3],
   world  |-> [World EXCEPT !.drift = TRUE, !.statuses = {"timeout", "completed"}]]

(* A worker that undoes and redoes its edits, long enough for a cycle. *)
Cycling ==
  [config |-> [Policy EXCEPT !.maxIterations = 5, !.repeatFailureThreshold = 6],
   world  |-> World]

(***************************************************************************)
(* Phased runs: every valid plan of up to three phases, declared edges and *)
(* group bands mixed, walked alone or in waves, one turn per contract.     *)
(***************************************************************************)
Ids == <<"p0", "p1", "p2">>

(* ValidPlan keeps those whose edges point backwards; the parse refuses the rest. *)
SubGoals(n) ==
  { [i \in 0 .. (n - 1) |-> [id |-> Ids[i + 1], dependsOn |-> deps[i], group |-> group[i]]] :
      deps  \in [0 .. (n - 1) -> {Absent} \cup SUBSET { Ids[i] : i \in 1 .. (n - 1) }],
      group \in [0 .. (n - 1) -> {Absent, "g"}] }

PlansOf(n) == { p \in SubGoals(n) : ValidPlan(p) }

Phased(plan, parallel) ==
  [config |-> [Policy EXCEPT !.phased = TRUE, !.parallelPhases = parallel, !.maxIterations = 1],
   world  |-> [World EXCEPT !.plans = {plan}, !.hashes = {h1}]]

(* Self-recovery in every phase of a run. *)
PhasedRemediating ==
  [config |-> [Policy EXCEPT !.phased = TRUE, !.autoRemediate = TRUE, !.maxIterations = 1],
   world  |-> [World EXCEPT !.plans = PlansOf(1)]]

PhaseScenarios ==
  {PhasedRemediating}
    \cup { Phased(p, parallel) : p \in PlansOf(1) \cup PlansOf(2) \cup PlansOf(3),
                                parallel \in BOOLEAN }

LoopScenarios == {Crashing, Remediating, Recovering, Starved, TimingOut, Drifting,
                  Cycling, PhasedRemediating}

AllScenarios == LoopScenarios \cup PhaseScenarios
=============================================================================
