---------------------------- MODULE MCTournament ----------------------------
(***************************************************************************)
(* Small instances of a tournament of two candidates.                      *)
(***************************************************************************)
EXTENDS Tournament

CONSTANTS t0, t1, t2, n1   (* tracked files' versions, and a file created *)

HeadTree == [tracked |-> t0, created |-> {}]

Policy ==
  [phased |-> FALSE, parallelPhases |-> FALSE, maxPlanRetries |-> 0, maxPlanRevisions |-> 0,
   maxCompileRetries |-> 0, maxSealRevisions |-> 0, maxIterations |-> 1, candidates |-> 2,
   collapse |-> FALSE, noDiff |-> FALSE, oscillation |-> FALSE, repeatFailureThreshold |-> 9,
   harnessCrashThreshold |-> 2, unevaluableThreshold |-> 9, timeoutNoDiffThreshold |-> 9,
   autoRemediate |-> FALSE, tokens |-> 99, deltaVerify |-> FALSE]

Plain == [id |-> "plain", setup |-> FALSE, generatedFiles |-> {}, requiredTools |-> FALSE]

Red ==
  [tag |-> "VERIFIED", pass |-> FALSE, evaluable |-> TRUE, budget |-> FALSE,
   detail |-> [signature |-> [text |-> "r1", names |-> {}], noise |-> 0]]
Green  == [tag |-> "VERIFIED", pass |-> TRUE, budget |-> FALSE]
Signed == [tag |-> "SIGNOFF_DECIDED", approval |-> "approve", budget |-> FALSE]

OnePhase == [i \in {0} |-> [id |-> "p0", dependsOn |-> Absent, group |-> Absent]]

Planned ==
  {[tag |-> "PLAN_COMPILED", plan |-> OnePhase],
   [tag |-> "PLAN_SEAL_DECIDED", decision |-> "approve"], [tag |-> "PHASE_ADVANCED"]}

World ==
  [results |-> {[tag |-> "CONTRACT_COMPILED", contract |-> Plain],
                [tag |-> "SEAL_DECIDED", decision |-> "approve"], Red, Green, Signed},
   edits |-> {[tracked |-> t1, created |-> {n1}]}, statuses |-> {"completed"},
   costs |-> {1}, depths |-> {0, 1}, throws |-> {}, processes |-> 2]

(* One turn, every ranking, killed and resumed anywhere: completed, or collapsed. *)
Ranked ==
  { [config |-> [Policy EXCEPT !.collapse = collapse],
     world  |-> [World EXCEPT !.costs = {1, 2, Unmetered}, !.throws = {"candidate"},
                              !.processes = 3]] : collapse \in BOOLEAN }

(* Two turns, and two contracts, with different edits in each candidate. *)
Repeated ==
  { [config |-> [Policy EXCEPT !.maxIterations = 2, !.collapse = collapse],
     world  |-> [World EXCEPT !.edits = { [tracked |-> t, created |-> {}] : t \in {t1, t2} }]] :
       collapse \in BOOLEAN }

Phased ==
  { [config |-> [Policy EXCEPT !.phased = TRUE],
     world  |-> [World EXCEPT !.results = @ \cup Planned]] }

(* Whatever throws; crashed turns are retried under the same number. *)
Throwing ==
  { [config |-> Policy,
     world  |-> [World EXCEPT !.statuses = {"completed", "crashed"},
                              !.throws = {"snapshot", "candidate", "append", "promote"}]] }

TournamentScenarios == Ranked \cup Repeated \cup Phased \cup Throwing
=============================================================================
