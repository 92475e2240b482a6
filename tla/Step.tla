-------------------------------- MODULE Step --------------------------------
(***************************************************************************)
(* The pure reducer (src/src/orchestrator/step.ts over the states of       *)
(* state.ts): step(state, event) -> state and the one command that state   *)
(* waits for.  Every operator here is a function of the configuration, the *)
(* state and the event; Reducer runs it on the results of the commands,    *)
(* Replay folds it over a run log.                                         *)
(*                                                                         *)
(* A run without phases is a run whose plan is empty: its only contract is *)
(* the acceptance phase.  The configuration a phase derives differs from   *)
(* the run's only in goal, verifier and rubric, so one record serves all.  *)
(***************************************************************************)
EXTENDS Decide, PlanGraph

CONSTANTS
  NoContract     (* contractHash undefined: nothing is frozen yet *)

(* The loop policy of RunConfig and the thresholds its schema lets through. *)
Configs ==
  [phased : BOOLEAN, parallelPhases : BOOLEAN, autoRemediate : BOOLEAN,
   noDiff : BOOLEAN, oscillation : BOOLEAN,
   maxPlanRetries : Nat, maxPlanRevisions : Nat, maxCompileRetries : Nat,
   maxSealRevisions : Nat, maxIterations : Nat \ {0}, candidates : Nat \ {0},
   repeatFailureThreshold : Nat \ {0, 1}, harnessCrashThreshold : Nat \ {0, 1},
   unevaluableThreshold : Nat \ {0, 1}, timeoutNoDiffThreshold : Nat \ {0, 1}]

TerminalTags == {"DONE", "FAILED", "ABORTED"}
LoopTags     == {"RUNNING_AGENT", "VERIFYING", "AWAIT_SIGNOFF", "ADJUDICATING"}

EmptyPlan == << >>
NoPhase   == [plan |-> EmptyPlan, index |-> 0, skip |-> {}, waved |-> {}]

InitialCtx ==
  [iteration |-> 0, diffHashHistory |-> << >>, verifierDetailHistory |-> << >>,
   verifierEvaluableHistory |-> << >>, runStatusHistory |-> << >>,
   lastNoDiff |-> FALSE, lastBudget |-> FALSE, lastVerdict |-> "none",
   feedbackSource |-> "none", remediations |-> NoRemediations, adjudicated |-> FALSE]

(* A state of the given tag waiting for the given command, the rest at rest. *)
State(tag, cmd) ==
  [tag |-> tag, cmd |-> cmd, reviseRound |-> 0, planRound |-> 0, compileRound |-> 0,
   contract |-> NoContract, phase |-> NoPhase, indices |-> {}, ctx |-> InitialCtx,
   iterations |-> 0, reason |-> "none"]

Stopped(tag, reason, contract, iterations) ==
  [State(tag, "none") EXCEPT !.reason = reason, !.contract = contract,
                             !.iterations = iterations]

InitialState(cfg) ==
  IF cfg.phased THEN State("PLANNING", "COMPILE_PLAN")
  ELSE State("COMPILING", "COMPILE_VERIFIER")

-----------------------------------------------------------------------------
(* Phases: plan, plan Seal, the walk over the plan, parallel waves. *)

(* The next phase at or after from that no wave has completed. *)
NextPhaseIndex(phase, from) ==
  Min({ i \in from .. PlanSize(phase.plan) : i \notin phase.skip })

PendingWaveAt(cfg, phase) ==
  LET live == WaveIndicesAt(phase.plan, phase.index, phase.skip)
                \ (phase.skip \cup phase.waved)
  IN  IF \/ ~cfg.parallelPhases
         \/ phase.index >= PlanSize(phase.plan)
         \/ phase.index \in phase.waved
         \/ live = {}
      THEN {phase.index}
      ELSE live

Compiling(cmd, phase, reviseRound, compileRound) ==
  [State("COMPILING", cmd) EXCEPT !.phase = phase, !.reviseRound = reviseRound,
                                  !.compileRound = compileRound]

StartPhaseCompile(cfg, phase) ==
  LET wave == PendingWaveAt(cfg, phase) IN
  IF Cardinality(wave) > 1
  THEN [State("RUNNING_WAVE", "RUN_WAVE") EXCEPT !.phase = phase, !.indices = wave]
  ELSE Compiling("COMPILE_VERIFIER", phase, 0, 0)

Planning(reviseRound, planRound) ==
  [State("PLANNING", "COMPILE_PLAN") EXCEPT !.reviseRound = reviseRound,
                                            !.planRound   = planRound]

BrokenStepPlanning(cfg, s, e) ==
  CASE e.tag = "PLAN_COMPILED" ->
         [State("AWAIT_PLAN_SEAL", "REQUEST_PLAN_SEAL") EXCEPT
            !.reviseRound = s.reviseRound, !.phase = [NoPhase EXCEPT !.plan = e.plan]]
    [] e.tag = "PLAN_FAILED" -> Planning(s.reviseRound, s.planRound + 1)

StepPlanning(cfg, s, e) ==
  CASE e.tag = "PLAN_COMPILED" ->
         [State("AWAIT_PLAN_SEAL", "REQUEST_PLAN_SEAL") EXCEPT
            !.reviseRound = s.reviseRound, !.phase = [NoPhase EXCEPT !.plan = e.plan]]
    [] e.tag = "PLAN_FAILED" /\ s.planRound < cfg.maxPlanRetries ->
         Planning(s.reviseRound, s.planRound + 1)
    [] e.tag = "PLAN_FAILED" /\ s.planRound >= cfg.maxPlanRetries ->
         Stopped("FAILED", "plan-failed", NoContract, 0)

StepAwaitPlanSeal(cfg, s, e) ==
  CASE e.decision = "approve" -> StartPhaseCompile(cfg, s.phase)
    [] e.decision = "reject"  -> Stopped("ABORTED", "plan-rejected", NoContract, 0)
    [] e.decision = "revise" /\ s.reviseRound + 1 > cfg.maxPlanRevisions ->
         Stopped("ABORTED", "plan-revision-cap", NoContract, 0)
    [] e.decision = "revise" /\ s.reviseRound + 1 <= cfg.maxPlanRevisions ->
         Planning(s.reviseRound + 1, 0)
    [] e.decision = "edited"  -> Stopped("ABORTED", "plan-edit", NoContract, 0)

StepAdvancingPhase(cfg, s, e) ==
  StartPhaseCompile(cfg, [s.phase EXCEPT !.index = NextPhaseIndex(s.phase, @ + 1)])

AfterWave(s, done) ==
  [s.phase EXCEPT !.skip = @ \cup done, !.waved = @ \cup s.indices]

(* Merged members are skipped from now on; every member was attempted. *)
StepRunningWave(cfg, s, e) ==
  LET next == AfterWave(s, e.merged \cap s.indices)
  IN  StartPhaseCompile(cfg, [next EXCEPT !.index = NextPhaseIndex(next, Min(s.indices))])

-----------------------------------------------------------------------------
(* One contract: compile, Seal, prepare. *)

StepCompiling(cfg, s, e) ==
  CASE e.tag = "CONTRACT_COMPILED" ->
         [State("AWAIT_SEAL", "REQUEST_SEAL") EXCEPT
            !.contract = e.contract, !.reviseRound = s.reviseRound, !.phase = s.phase]
    [] e.tag = "COMPILE_FAILED" /\ s.compileRound < cfg.maxCompileRetries ->
         Compiling("COMPILE_VERIFIER", s.phase, s.reviseRound, s.compileRound + 1)
    [] e.tag = "COMPILE_FAILED" /\ s.compileRound >= cfg.maxCompileRetries ->
         Stopped("FAILED", "compile-failed", NoContract, 0)

NeedsPreparation(contract) ==
  contract.setup \/ contract.generatedFiles # {} \/ contract.requiredTools

StartIteration(cfg, contract, phase, ctx) ==
  [State("RUNNING_AGENT", IF cfg.candidates > 1 THEN "RUN_AGENT_BEST_OF" ELSE "RUN_AGENT")
     EXCEPT !.contract = contract, !.phase = phase, !.ctx = ctx]

BrokenStepAwaitSeal(cfg, s, e) ==
  CASE e.decision = "approve" /\ NeedsPreparation(s.contract) ->
         [State("PREPARING", "PREPARE_WORKSPACE") EXCEPT
            !.contract = s.contract, !.phase = s.phase]
    [] e.decision = "approve" /\ ~NeedsPreparation(s.contract) ->
         StartIteration(cfg, s.contract, s.phase, InitialCtx)
    [] e.decision = "reject" -> Stopped("ABORTED", "seal-rejected", s.contract, 0)
    [] e.decision = "revise" /\ s.reviseRound + 1 > cfg.maxSealRevisions ->
         Stopped("ABORTED", "seal-revision-cap", s.contract, 0)
    [] e.decision = "revise" /\ s.reviseRound + 1 <= cfg.maxSealRevisions ->
         Compiling("COMPILE_VERIFIER", s.phase, s.reviseRound, 0)
    [] e.decision = "edited" ->
         Compiling("REFREEZE_CONTRACT", s.phase, s.reviseRound, 0)

StepAwaitSeal(cfg, s, e) ==
  CASE e.decision = "approve" /\ NeedsPreparation(s.contract) ->
         [State("PREPARING", "PREPARE_WORKSPACE") EXCEPT
            !.contract = s.contract, !.phase = s.phase]
    [] e.decision = "approve" /\ ~NeedsPreparation(s.contract) ->
         StartIteration(cfg, s.contract, s.phase, InitialCtx)
    [] e.decision = "reject" -> Stopped("ABORTED", "seal-rejected", s.contract, 0)
    [] e.decision = "revise" /\ s.reviseRound + 1 > cfg.maxSealRevisions ->
         Stopped("ABORTED", "seal-revision-cap", s.contract, 0)
    [] e.decision = "revise" /\ s.reviseRound + 1 <= cfg.maxSealRevisions ->
         Compiling("COMPILE_VERIFIER", s.phase, s.reviseRound + 1, 0)
    [] e.decision = "edited" ->
         Compiling("REFREEZE_CONTRACT", s.phase, s.reviseRound, 0)

StepPreparing(cfg, s, e) ==
  IF e.prepared = "proceed" THEN StartIteration(cfg, s.contract, s.phase, InitialCtx)
  ELSE Stopped("FAILED", e.prepared, s.contract, 0)

-----------------------------------------------------------------------------
(* The loop: one agent turn, the frozen ladder, Sign-off, DECIDE. *)

(* A crashed turn completed no work, so it does not count as an iteration. *)
AfterTurn(ctx, e) ==
  [ctx EXCEPT !.iteration        = IF e.status = "crashed" THEN @ ELSE @ + 1,
              !.diffHashHistory  = Append(@, e.hash),
              !.lastNoDiff       = (e.prev = e.hash),
              !.runStatusHistory = Append(@, e.status),
              !.lastBudget       = e.budget]

StepRunningAgent(cfg, s, e) ==
  [s EXCEPT !.tag = "VERIFYING", !.cmd = "RUN_VERIFIER", !.ctx = AfterTurn(@, e)]

BrokenPhaseDone(s, ctx) ==
  IF s.phase.index + 1 < PlanSize(s.phase.plan)
  THEN [State("ADVANCING_PHASE", "CHECKPOINT_AND_ADVANCE") EXCEPT
          !.phase = s.phase, !.iterations = ctx.iteration]
  ELSE Stopped("DONE", "both-keys", s.contract, ctx.iteration)

(* A reached phase hands over to the next one; the acceptance phase ends the run. *)
PhaseDone(s, ctx) ==
  IF s.phase.index < PlanSize(s.phase.plan)
  THEN [State("ADVANCING_PHASE", "CHECKPOINT_AND_ADVANCE") EXCEPT
          !.phase = s.phase, !.iterations = ctx.iteration]
  ELSE Stopped("DONE", "both-keys", s.contract, ctx.iteration)

ApplyDecision(cfg, s, ctx, d) ==
  CASE d.kind = "CONTINUE" ->
         StartIteration(cfg, s.contract, s.phase,
                        [ctx EXCEPT !.feedbackSource = d.source, !.remediations = d.ledger])
    [] d.kind = "DONE" -> PhaseDone(s, ctx)
    [] d.kind = "ADJUDICATE" ->
         [s EXCEPT !.tag = "ADJUDICATING", !.cmd = "ADJUDICATE_CONTRACT",
                   !.ctx = [ctx EXCEPT !.adjudicated = TRUE]]
    [] d.kind \in {"FAILED", "ABORTED"} ->
         Stopped(d.kind, d.reason, s.contract, ctx.iteration)

AfterGreen(ctx, e) ==
  [ctx EXCEPT !.lastVerdict = "pass", !.lastBudget = e.budget,
              !.verifierDetailHistory    = << >>,
              !.verifierEvaluableHistory = Append(@, TRUE)]

AfterRed(ctx, e) ==
  [ctx EXCEPT !.lastVerdict = "fail", !.lastBudget = e.budget,
              !.verifierDetailHistory    = Append(@, NormalizeDetail(e.detail)),
              !.verifierEvaluableHistory = Append(@, e.evaluable)]

StepVerifying(cfg, s, e) ==
  IF e.pass
  THEN [s EXCEPT !.tag = "AWAIT_SIGNOFF", !.cmd = "REQUEST_SIGNOFF",
                 !.ctx = AfterGreen(@, e)]
  ELSE LET ctx == AfterRed(s.ctx, e)
       IN  ApplyDecision(cfg, s, ctx, Decide(cfg, s.contract, ctx, FALSE, "none"))

StepAwaitSignoff(cfg, s, e) ==
  LET ctx == [s.ctx EXCEPT !.lastBudget = e.budget]
  IN  ApplyDecision(cfg, s, ctx,
        Decide(cfg, s.contract, ctx, ctx.lastVerdict = "pass", e.approval))

(* The run was already terminating: the adjudication only names the abort. *)
StepAdjudicating(cfg, s, e) ==
  Stopped("ABORTED", IF e.defective THEN "contract-defective" ELSE "contract-sound",
          s.contract, s.ctx.iteration)

Step(cfg, s, e) ==
  CASE s.tag = "PLANNING"        -> StepPlanning(cfg, s, e)
    [] s.tag = "AWAIT_PLAN_SEAL" -> StepAwaitPlanSeal(cfg, s, e)
    [] s.tag = "ADVANCING_PHASE" -> StepAdvancingPhase(cfg, s, e)
    [] s.tag = "RUNNING_WAVE"    -> StepRunningWave(cfg, s, e)
    [] s.tag = "COMPILING"       -> StepCompiling(cfg, s, e)
    [] s.tag = "AWAIT_SEAL"      -> StepAwaitSeal(cfg, s, e)
    [] s.tag = "PREPARING"       -> StepPreparing(cfg, s, e)
    [] s.tag = "RUNNING_AGENT"   -> StepRunningAgent(cfg, s, e)
    [] s.tag = "VERIFYING"       -> StepVerifying(cfg, s, e)
    [] s.tag = "AWAIT_SIGNOFF"   -> StepAwaitSignoff(cfg, s, e)
    [] s.tag = "ADJUDICATING"    -> StepAdjudicating(cfg, s, e)
=============================================================================
