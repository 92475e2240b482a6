------------------------------ MODULE Reducer ------------------------------
(***************************************************************************)
(* A run as the reducer sees it: the Driver performs the command its state *)
(* waits for and feeds the result back as the next event; here the event   *)
(* is any result the command may have (src/src/driver/perform.ts).         *)
(***************************************************************************)
EXTENDS Step

CONSTANTS
  Scenarios      (* pairs of a run configuration and the world it runs in *)

(* Stand for the tree hashes when a turn's workspace cannot be hashed; no tree has them. *)
SentinelPrevHash == "unhashed-before"
SentinelPostHash == "unhashed-after"

(* Plans are numbered from 0 and never empty; a compiled contract is one. *)
ScenariosAssumption ==
  \A s \in Scenarios :
    /\ s = [config |-> s.config, world |-> s.world]
    /\ s.config \in Configs
    /\ s.world.statuses \subseteq RunStatuses
    /\ s.world.evaluable \subseteq BOOLEAN /\ s.world.budgets \subseteq BOOLEAN
    /\ NoContract \notin s.world.contracts
    /\ SentinelPostHash \notin s.world.hashes
    /\ \A p \in s.world.plans :
         PlanSize(p) \in Nat \ {0} /\ DOMAIN p = 0 .. (PlanSize(p) - 1)

ASSUME WellFormedScenarios == ScenariosAssumption

VARIABLES
  config,        (* the run's RunConfig, written to the header once *)
  world,         (* which results the run's commands may have *)
  st,            (* the reducer's state *)
  hist           (* what happened so far, for the properties only *)

vars == << config, world, st, hist >>

TreeHashes == world.hashes \cup {SentinelPostHash}

-----------------------------------------------------------------------------
(***************************************************************************)
(* History kept for the properties; no code reads it.                      *)
(*   todo        phases neither accepted nor merged yet, once planned      *)
(*   idleVetoes  consecutive completed turns that changed nothing and met  *)
(*               a green ladder and a veto                                 *)
(*   idleTimeouts  consecutive turns of this contract that timed out and   *)
(*               changed nothing                                           *)
(***************************************************************************)
NoHistory == [todo |-> {}, idleVetoes |-> 0, idleTimeouts |-> 0]

IdleTurn(ctx)    == LastRunStatus(ctx) = "completed" /\ ctx.lastNoDiff
IdleTimeout(ctx) == LastRunStatus(ctx) = "timeout" /\ ctx.lastNoDiff

NextTodo(h, s, e) ==
  CASE e.tag = "PLAN_SEAL_DECIDED" /\ e.decision = "approve" -> 0 .. PlanSize(s.phase.plan)
    [] e.tag = "WAVE_RAN" -> h.todo \ e.merged
    [] e.tag = "SIGNOFF_DECIDED" /\ e.approval = "approve" -> h.todo \ {s.phase.index}
    [] OTHER -> h.todo

NextIdleVetoes(h, s, e, t) ==
  CASE e.tag = "SIGNOFF_DECIDED" /\ e.approval = "veto" /\ IdleTurn(s.ctx) -> h.idleVetoes + 1
    [] e.tag = "AGENT_RAN" /\ IdleTurn(t.ctx) -> h.idleVetoes
    [] e.tag = "VERIFIED" /\ e.pass -> h.idleVetoes
    [] OTHER -> 0

NextIdleTimeouts(h, e, t) ==
  IF e.tag = "AGENT_RAN" THEN IF IdleTimeout(t.ctx) THEN h.idleTimeouts + 1 ELSE 0
  ELSE IF t.tag \in LoopTags THEN h.idleTimeouts ELSE 0

NextHist(h, s, e, t) ==
  [todo         |-> NextTodo(h, s, e),
   idleVetoes   |-> NextIdleVetoes(h, s, e, t),
   idleTimeouts |-> NextIdleTimeouts(h, e, t)]

Apply(e) ==
  /\ st'   = Step(config, st, e)
  /\ hist' = NextHist(hist, st, e, st')
  /\ UNCHANGED << config, world >>

-----------------------------------------------------------------------------
(* One action per event: the result of the command the state waits for. *)

PlanCompiled ==
  /\ st.cmd = "COMPILE_PLAN"
  /\ \E p \in world.plans : ValidPlan(p) /\ Apply([tag |-> "PLAN_COMPILED", plan |-> p])

PlanFailed ==
  /\ st.cmd = "COMPILE_PLAN"
  /\ Apply([tag |-> "PLAN_FAILED"])

(* No plan gate answers "edited": manual editing is for contracts only. *)
PlanSealDecided ==
  /\ st.cmd = "REQUEST_PLAN_SEAL"
  /\ \E d \in {"approve", "reject", "revise"} :
       Apply([tag |-> "PLAN_SEAL_DECIDED", decision |-> d])

PhaseAdvanced ==
  /\ st.cmd = "CHECKPOINT_AND_ADVANCE"
  /\ Apply([tag |-> "PHASE_ADVANCED"])

WaveRan ==
  /\ st.cmd = "RUN_WAVE"
  /\ \E m \in SUBSET st.indices : Apply([tag |-> "WAVE_RAN", merged |-> m])

ContractCompiled ==
  /\ st.cmd \in {"COMPILE_VERIFIER", "REFREEZE_CONTRACT"}
  /\ \E c \in world.contracts : Apply([tag |-> "CONTRACT_COMPILED", contract |-> c])

CompileFailed ==
  /\ st.cmd \in {"COMPILE_VERIFIER", "REFREEZE_CONTRACT"}
  /\ Apply([tag |-> "COMPILE_FAILED"])

SealDecided ==
  /\ st.cmd = "REQUEST_SEAL"
  /\ \E d \in {"approve", "reject", "revise", "edited"} :
       Apply([tag |-> "SEAL_DECIDED", decision |-> d])

WorkspacePrepared ==
  /\ st.cmd = "PREPARE_WORKSPACE"
  /\ \E p \in {"proceed", "tools-missing", "setup-failed", "contract-unsound"} :
       Apply([tag |-> "WORKSPACE_PREPARED", prepared |-> p])

(***************************************************************************)
(* A reading may be lower than the one before it: a resumed process starts *)
(* its wall clock afresh and knows only the spend that was logged.         *)
(***************************************************************************)
BudgetReadings == world.budgets

(***************************************************************************)
(* The tree before a turn is the tree the turn before it left, unless      *)
(* something else writes to it in between (a verifier leaving artefacts,   *)
(* an operator): world.drift.  Compiling, preparing and merging write to   *)
(* it, so the tree before a contract's first turn is any; so is the tree   *)
(* a turn whose workspace could not be hashed left behind.                 *)
(***************************************************************************)
PrevHashes ==
  LET hashes == st.ctx.diffHashHistory IN
  IF world.drift \/ hashes = << >> \/ hashes[Len(hashes)] = SentinelPostHash
  THEN world.hashes ELSE {hashes[Len(hashes)]}

AgentRan ==
  /\ st.cmd \in {"RUN_AGENT", "RUN_AGENT_BEST_OF"}
  /\ \E status \in world.statuses, prev \in PrevHashes, hash \in world.hashes,
        b \in BudgetReadings :
       Apply([tag |-> "AGENT_RAN", status |-> status, prev |-> prev, hash |-> hash,
              budget |-> b])

(* A workspace that cannot be hashed, and a tournament that throws, read as a *)
(* crashed turn over sentinel hashes.                                         *)
WorkspaceErrorRan ==
  /\ st.cmd \in {"RUN_AGENT", "RUN_AGENT_BEST_OF"}
  /\ "crashed" \in world.statuses
  /\ \E b \in BudgetReadings :
       Apply([tag |-> "AGENT_RAN", status |-> "crashed", prev |-> SentinelPrevHash,
              hash |-> SentinelPostHash, budget |-> b])

VerifiedGreen ==
  /\ st.cmd = "RUN_VERIFIER"
  /\ \E b \in BudgetReadings : Apply([tag |-> "VERIFIED", pass |-> TRUE, budget |-> b])

VerifiedRed ==
  /\ st.cmd = "RUN_VERIFIER"
  /\ \E d \in world.details, ev \in world.evaluable, b \in BudgetReadings :
       Apply([tag |-> "VERIFIED", pass |-> FALSE, detail |-> d, evaluable |-> ev,
              budget |-> b])

SignoffDecided ==
  /\ st.cmd = "REQUEST_SIGNOFF"
  /\ \E a \in {"approve", "veto"}, b \in BudgetReadings :
       Apply([tag |-> "SIGNOFF_DECIDED", approval |-> a, budget |-> b])

ContractAdjudicated ==
  /\ st.cmd = "ADJUDICATE_CONTRACT"
  /\ \E d \in BOOLEAN : Apply([tag |-> "CONTRACT_ADJUDICATED", defective |-> d])

(* A terminal state takes no event: step() throws on it and the Driver stops. *)
Finished ==
  /\ st.tag \in TerminalTags
  /\ UNCHANGED vars

Init ==
  /\ \E s \in Scenarios : config = s.config /\ world = s.world
  /\ st = InitialState(config)
  /\ hist = [NoHistory EXCEPT !.todo = IF config.phased THEN {} ELSE {0}]

Next ==
  \/ PlanCompiled \/ PlanFailed \/ PlanSealDecided
  \/ PhaseAdvanced \/ WaveRan
  \/ ContractCompiled \/ CompileFailed \/ SealDecided \/ WorkspacePrepared
  \/ AgentRan \/ WorkspaceErrorRan \/ VerifiedGreen \/ VerifiedRed \/ SignoffDecided \/ ContractAdjudicated
  \/ Finished

Spec == Init /\ [][Next]_vars

(***************************************************************************)
(* The Driver's loop performs every command to an event: no command is     *)
(* left.  This is WF_vars(Next) with its ENABLED spelt out, which TLC is   *)
(* slow to work out: only a terminal state waits for no command.           *)
(***************************************************************************)
FairSpec == Spec /\ ([]<>(st.tag \in TerminalTags) \/ []<><<Next>>_vars)

-----------------------------------------------------------------------------
(* Properties. *)

Tags == {"PLANNING", "AWAIT_PLAN_SEAL", "ADVANCING_PHASE", "RUNNING_WAVE", "COMPILING",
         "AWAIT_SEAL", "PREPARING"} \cup LoopTags \cup TerminalTags

(* The one command each state waits for; the Driver refuses any other number. *)
CommandsOf(tag) ==
  CASE tag = "PLANNING"        -> {"COMPILE_PLAN"}
    [] tag = "AWAIT_PLAN_SEAL" -> {"REQUEST_PLAN_SEAL"}
    [] tag = "ADVANCING_PHASE" -> {"CHECKPOINT_AND_ADVANCE"}
    [] tag = "RUNNING_WAVE"    -> {"RUN_WAVE"}
    [] tag = "COMPILING"       -> {"COMPILE_VERIFIER", "REFREEZE_CONTRACT"}
    [] tag = "AWAIT_SEAL"      -> {"REQUEST_SEAL"}
    [] tag = "PREPARING"       -> {"PREPARE_WORKSPACE"}
    [] tag = "RUNNING_AGENT"   -> {"RUN_AGENT", "RUN_AGENT_BEST_OF"}
    [] tag = "VERIFYING"       -> {"RUN_VERIFIER"}
    [] tag = "AWAIT_SIGNOFF"   -> {"REQUEST_SIGNOFF"}
    [] tag = "ADJUDICATING"    -> {"ADJUDICATE_CONTRACT"}
    [] tag \in TerminalTags    -> {"none"}

Commands == {"COMPILE_PLAN", "REQUEST_PLAN_SEAL", "CHECKPOINT_AND_ADVANCE", "RUN_WAVE",
             "COMPILE_VERIFIER", "REFREEZE_CONTRACT", "REQUEST_SEAL", "PREPARE_WORKSPACE",
             "RUN_AGENT", "RUN_AGENT_BEST_OF", "RUN_VERIFIER", "REQUEST_SIGNOFF",
             "ADJUDICATE_CONTRACT", "none"}

Signatures == { NormalizeDetail(d) : d \in world.details }

Ledgers == [total : Nat, noDiff : Nat, repeat : Nat, crash : Nat]

Ctxs ==
  [iteration : Nat, diffHashHistory : Seq(TreeHashes),
   verifierDetailHistory : Seq(Signatures), verifierEvaluableHistory : Seq(BOOLEAN),
   runStatusHistory : Seq(world.statuses), lastNoDiff : BOOLEAN, lastBudget : BOOLEAN,
   lastVerdict : {"none", "pass", "fail"}, feedbackSource : {"none", "verifier", "veto"},
   remediations : Ledgers, adjudicated : BOOLEAN]

Phases ==
  [plan : world.plans \cup {EmptyPlan}, index : Nat, skip : SUBSET Nat, waved : SUBSET Nat]

Reasons ==
  {"none", "both-keys", "max-iterations", "feedback", "budget", "crash", "unevaluable",
   "timeout-no-diff", "no-diff", "oscillation", "repeat", "contract-defective",
   "contract-sound", "tools-missing", "setup-failed", "contract-unsound", "compile-failed",
   "seal-rejected", "seal-revision-cap", "plan-failed", "plan-rejected",
   "plan-revision-cap", "plan-edit"}

States ==
  [tag : Tags, cmd : Commands, reviseRound : Nat, planRound : Nat, compileRound : Nat,
   contract : world.contracts \cup {NoContract}, phase : Phases, indices : SUBSET Nat,
   ctx : Ctxs, iterations : Nat, reason : Reasons]

(* The acceptance phase is one past the last sub-goal; it is never in a wave. *)
PhaseOK(phase) ==
  /\ phase.index \in 0 .. PlanSize(phase.plan)
  /\ phase.skip  \subseteq 0 .. (PlanSize(phase.plan) - 1)
  /\ phase.waved \subseteq 0 .. (PlanSize(phase.plan) - 1)

(* Each state waits for a command of its own, each retry stays within its cap. *)
StateOK(s) ==
  /\ s \in States
  /\ s.cmd \in CommandsOf(s.tag)
  /\ s.planRound <= config.maxPlanRetries
  /\ s.compileRound <= config.maxCompileRetries
  /\ s.tag \in {"PLANNING", "AWAIT_PLAN_SEAL"} => s.reviseRound <= config.maxPlanRevisions
  /\ s.tag \in {"COMPILING", "AWAIT_SEAL"} => s.reviseRound <= config.maxSealRevisions
  /\ s.tag \in {"AWAIT_SEAL", "PREPARING"} \cup LoopTags => s.contract # NoContract
  /\ PhaseOK(s.phase)
  /\ s.indices \subseteq 0 .. (PlanSize(s.phase.plan) - 1)
  /\ s.tag = "RUNNING_WAVE" => s.indices # {}
  /\ s.tag = "ADVANCING_PHASE" => s.phase.index < PlanSize(s.phase.plan)

(* The reducer's state is well formed, whatever the commands resulted in. *)
TypeOK ==
  /\ [config |-> config, world |-> world] \in Scenarios
  /\ StateOK(st)

(***************************************************************************)
(* The iteration cap as the code enforces it.  A self-recovery is granted  *)
(* before the cap is looked at, so each one spent, not only the refunded   *)
(* no-diff one, can carry the contract one turn past maxIterations; never  *)
(* further, and never without the operator's opt-in.                       *)
(***************************************************************************)
IterationsWithinCap ==
  st.tag \in LoopTags =>
    LET spent == st.ctx.remediations.total IN
    /\ spent <= (IF config.autoRemediate THEN MaxStuckRemediations ELSE 0)
    /\ st.ctx.iteration <= config.maxIterations + spent
    /\ st.tag = "RUNNING_AGENT" => st.ctx.iteration < config.maxIterations + spent

(***************************************************************************)
(* No agent turn starts while the last reading says the budget is          *)
(* exceeded, wherever in the turn it was taken: no self-recovery and no    *)
(* excuse outranks the operator's cap.                                     *)
(***************************************************************************)
NoTurnOverBudget == st.tag = "RUNNING_AGENT" => ~st.ctx.lastBudget

(* The length of the longest tail of a history whose entries all satisfy test. *)
TailLength(history, test(_)) ==
  Max({ n \in 0 .. Len(history) : \A i \in TailPositions(history, n) : test(history[i]) })

Crashes(ctx)      == TailLength(ctx.runStatusHistory, LAMBDA s : s = "crashed")
Unevaluables(ctx) == TailLength(ctx.verifierEvaluableHistory, LAMBDA b : ~b)
SameReds(ctx)     ==
  TailLength(ctx.verifierDetailHistory,
             LAMBDA d : d = ctx.verifierDetailHistory[Len(ctx.verifierDetailHistory)])

(***************************************************************************)
(* No turn starts at the end of a streak that should have ended the run.   *)
(* One detector reports at a time, so a self-recovery granted for an       *)
(* earlier one lets a later one's streak grow: an unevaluable streak by    *)
(* the crash recovery, a repeated red by any recovery, and no further.     *)
(***************************************************************************)
StreaksBounded ==
  st.tag = "RUNNING_AGENT" =>
    LET spent == st.ctx.remediations IN
    /\ Crashes(st.ctx) < config.harnessCrashThreshold + spent.crash
    /\ Unevaluables(st.ctx) < config.unevaluableThreshold + spent.crash
    /\ SameReds(st.ctx) < config.repeatFailureThreshold + spent.total

(***************************************************************************)
(* Crashed turns do not count as iterations, so the cap alone does not     *)
(* bound the turns a contract may cost; the cap and the crash streak do.   *)
(***************************************************************************)
TurnsBounded ==
  st.tag = "RUNNING_AGENT" =>
    LET longest == config.harnessCrashThreshold + st.ctx.remediations.crash - 1
        turns   == Len(st.ctx.runStatusHistory)
    IN  turns <= st.ctx.iteration + (st.ctx.iteration + 1) * longest

(***************************************************************************)
(* The no-diff excuse of a fresh veto is one-shot: a worker that completes *)
(* turns without editing anything cannot buy approver calls with vetoes.   *)
(***************************************************************************)
VetoExcuseOneShot ==
  /\ st.tag = "RUNNING_AGENT"
  /\ config.noDiff /\ ~config.autoRemediate
  => hist.idleVetoes <= 1

(***************************************************************************)
(* The streak folded off the histories is the true one, or one short of it *)
(* because the tree before the first turn is unknown; so the abort is late *)
(* by at most one turn and never early, while nothing but the worker       *)
(* writes to the tree.                                                     *)
(***************************************************************************)
TimeoutStreakExact ==
  st.tag = "VERIFYING" /\ ~world.drift =>
    hist.idleTimeouts - TimeoutNoDiffStreak(st.ctx) \in {0, 1}

(***************************************************************************)
(* The counted backstops bite when they must, in every order of turns,     *)
(* verdicts and approvals: nothing a worker, a verifier or an approver     *)
(* answers keeps a contract going past its streaks.                        *)
(***************************************************************************)
BackstopsHold ==
  /\ StreaksBounded
  /\ TurnsBounded
  /\ VetoExcuseOneShot
  /\ TimeoutStreakExact

(* The phases the reducer is working on: one, or the members of a wave. *)
ActivePhases == IF st.tag = "RUNNING_WAVE" THEN st.indices ELSE {st.phase.index}

Active == st.tag \in {"RUNNING_WAVE", "COMPILING", "AWAIT_SEAL", "PREPARING"} \cup LoopTags

(***************************************************************************)
(* No phase starts before its prerequisites, in a wave or alone: each      *)
(* declared dependency, or by default everything before its group band.    *)
(***************************************************************************)
PrerequisitesComplete ==
  Active => \A i \in ActivePhases \cap DOMAIN st.phase.plan :
              DependenciesOf(st.phase.plan, i) \cap hist.todo = {}

(* No phase is worked on again once accepted or merged, nor fanned out twice. *)
NoCompletedPhaseRepeats ==
  Active => /\ ActivePhases \subseteq hist.todo
            /\ st.indices \cap st.phase.waved = {}

(***************************************************************************)
(* The phase walk is one through the graph: each phase once, behind those  *)
(* it depends on.                                                          *)
(***************************************************************************)
PhasesInOrder ==
  /\ PrerequisitesComplete
  /\ NoCompletedPhaseRepeats

(***************************************************************************)
(* Every run ends, unless the operator answers the Seal with manual edits  *)
(* for ever: edits are not counted, every other retry is.                  *)
(***************************************************************************)
Terminates ==
  <>(st.tag \in TerminalTags) \/ []<>(st.cmd = "REFREEZE_CONTRACT")

(***************************************************************************)
(* The reducer keeps the promise of TwoKeys: a contract frozen before the  *)
(* work and never changed during it, no acceptance without a green ladder  *)
(* over the current tree, phases accepted in order, the acceptance last.   *)
(***************************************************************************)
AbstractStage ==
  CASE st.tag = "DONE" -> "accepted"
    [] st.tag \in {"FAILED", "ABORTED"} -> "stopped"
    [] st.tag \in {"PREPARING"} \cup LoopTags -> "working"
    [] OTHER -> "drafting"

Promise == INSTANCE TwoKeys WITH
  stage  <- AbstractStage,
  frozen <- IF AbstractStage = "drafting" THEN NoContract ELSE st.contract,
  green  <- st.tag = "AWAIT_SIGNOFF" /\ st.ctx.lastVerdict = "pass",
  todo   <- hist.todo

KeepsPromise == Promise!Spec

=============================================================================
