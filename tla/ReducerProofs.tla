--------------------------- MODULE ReducerProofs ---------------------------
(***************************************************************************)
(* Theorems about the reducer, for every scenario the assumption allows: its *)
(* states are those of the machine; the turn loop keeps the caps and the   *)
(* backstops; and the walk over the phases works each one once, after those *)
(* it depends on and behind both keys, as TwoKeys promises.                *)
(***************************************************************************)
EXTENDS Reducer, FiniteSetTheorems, SequenceTheorems, TLAPS

-----------------------------------------------------------------------------
(* Arithmetic and sets. *)

(***************************************************************************)
(* A non-empty set of naturals has a least element, and Min is it: the     *)
(* sets of smaller members are finite, so strict inclusion among them is   *)
(* well founded.                                                           *)
(***************************************************************************)
LEMMA MinOfNats ==
  ASSUME NEW S, S \subseteq Nat, S # {}
  PROVE  Min(S) \in S /\ \A x \in S : Min(S) <= x
<1> DEFINE Below(m) == { y \in S : y < m }
           T        == { Below(m) : m \in S }
<1>0. \A x \in S : x \in Nat
  OBVIOUS
<1>1. T \subseteq FiniteSubsetsOf(Nat) /\ T # {}
  <2>1. ASSUME NEW x \in S PROVE IsFiniteSet(Below(x))
    <3>1. \A y \in Below(x) : y \in 0 .. x
      BY <1>0
    <3>2. IsFiniteSet(0 .. x)
      BY <1>0, FS_Interval
    <3>. QED BY <3>1, <3>2, FS_Subset
  <2>. QED BY <2>1 DEF FiniteSubsetsOf
<1>2. PICK x \in S : \A y \in S : ~ (<<Below(y), Below(x)>> \in StrictSubsetOrdering(Nat))
  <2>1. \E U \in T : \A V \in T : ~ (<<V, U>> \in StrictSubsetOrdering(Nat))
    <3> HIDE DEF T
    <3>. QED BY <1>1, FS_StrictSubsetOrderingWellFounded, WFMin
  <2>. QED BY <2>1
<1>3. ASSUME NEW y \in S, y < x PROVE FALSE
  <2>1. y \in Below(x) /\ y \notin Below(y)
    BY <1>0, <1>3
  <2>2. ASSUME NEW z \in Below(y) PROVE z \in Below(x)
    BY <1>0, <1>3
  <2>3. Below(y) \in SUBSET Nat /\ Below(x) \in SUBSET Nat
    BY <1>0
  <2>. QED BY <1>2, <2>1, <2>2, <2>3 DEF StrictSubsetOrdering
<1>4. \A y \in S : x <= y
  BY <1>0, <1>3
<1>. QED BY <1>4 DEF Min

(* The empty plan of an unphased run has no sub-goal. *)
LEMMA EmptyPlanSize == PlanSize(EmptyPlan) = 0
BY FS_EmptySet DEF PlanSize, EmptyPlan

(* The sub-goals of any plan are numbered from 0. *)
LEMMA PlanDomain ==
  ASSUME NEW s \in Scenarios, NEW p \in s.world.plans \cup {EmptyPlan}
  PROVE  PlanSize(p) \in Nat /\ DOMAIN p = 0 .. (PlanSize(p) - 1)
<1>1. CASE p \in s.world.plans
  BY <1>1, WellFormedScenarios DEF ScenariosAssumption
<1>2. CASE p = EmptyPlan
  BY <1>2, EmptyPlanSize DEF EmptyPlan
<1>. QED BY <1>1, <1>2

-----------------------------------------------------------------------------
(* The types of what the reducer computes. *)

(* DetectStuck names a detector or none. *)
LEMMA StuckType ==
  ASSUME NEW cfg, NEW ctx
  PROVE  DetectStuck(cfg, ctx) \in Reasons
<1> DEFINE tripped == { i \in 1 .. Len(StuckOrder) : Trips(cfg, ctx, StuckOrder[i]) }
<1>1. Len(StuckOrder) = 7
  BY DEF StuckOrder
<1>2. \A i \in 1 .. 7 : StuckOrder[i] \in Reasons
  BY DEF StuckOrder, Reasons
<1>3. CASE tripped # {}
  <2>1. tripped \subseteq Nat
    BY <1>1
  <2>2. Min(tripped) \in tripped
    BY <1>3, <2>1, MinOfNats
  <2>. QED BY <1>1, <1>2, <1>3, <2>2 DEF DetectStuck
<1>4. CASE tripped = {}
  BY <1>4 DEF DetectStuck, Reasons
<1>. QED BY <1>3, <1>4

(* A self-recovery raises the total and never makes a counter negative. *)
LEMMA SpentType ==
  ASSUME NEW ledger \in Ledgers, NEW kind
  PROVE  Spent(ledger, kind) \in Ledgers /\ Spent(ledger, kind).total = ledger.total + 1
BY DEF Spent, Ledgers

Decisions ==
  [kind : {"CONTINUE", "DONE", "ADJUDICATE", "FAILED", "ABORTED"},
   source : {"none", "verifier", "veto"}, ledger : Ledgers, reason : Reasons]

(* The iteration cap of a well-formed context is a number. *)
LEMMA CapType ==
  ASSUME NEW cfg \in Configs, NEW ctx \in Ctxs
  PROVE  ctx.iteration \in Int /\ IterationCap(cfg, ctx) \in Int
<1>1. ctx.iteration \in Nat /\ ctx.remediations \in Ledgers
  BY DEF Ctxs
<1>2. cfg.maxIterations \in Nat
  BY DEF Configs
<1>3. ctx.remediations.noDiff \in Nat
  BY <1>1 DEF Ledgers
<1>. QED BY <1>1, <1>2, <1>3 DEF IterationCap

(* The truth table is total: it always yields one well-formed decision. *)
LEMMA DecideType ==
  ASSUME NEW cfg \in Configs, NEW contract, NEW ctx \in Ctxs,
         NEW pass \in BOOLEAN, NEW approval
  PROVE  Decide(cfg, contract, ctx, pass, approval) \in Decisions
<1> DEFINE kind == DetectStuck(cfg, ctx)
<1>1. ctx.remediations \in Ledgers /\ ctx.iteration \in Nat
  BY DEF Ctxs
<1>2. Spent(ctx.remediations, kind) \in Ledgers
  BY <1>1, SpentType
<1>3. IterationCap(cfg, ctx) \in Int
  BY CapType
<1>4. kind \in Reasons
  BY StuckType
<1>. QED BY <1>1, <1>2, <1>3, <1>4 DEF Decide, Decision, Decisions, Reasons

(* A contract starts with empty histories and an unspent ledger. *)
LEMMA InitialCtxType == InitialCtx \in Ctxs
BY EmptySeq DEF InitialCtx, Ctxs, NoRemediations, Ledgers

(* What the three loop events make of a well-formed context. *)
LEMMA CtxTypes ==
  ASSUME NEW ctx \in Ctxs, NEW e
  PROVE  /\ /\ e.status \in world.statuses /\ e.hash \in TreeHashes /\ e.budget \in BOOLEAN
            => AfterTurn(ctx, e) \in Ctxs
         /\ e.budget \in BOOLEAN => AfterGreen(ctx, e) \in Ctxs
         /\ /\ e.budget \in BOOLEAN /\ e.evaluable \in BOOLEAN /\ e.detail \in world.details
            => AfterRed(ctx, e) \in Ctxs
<1>0. /\ ctx.diffHashHistory \in Seq(TreeHashes)
      /\ ctx.runStatusHistory \in Seq(world.statuses)
      /\ ctx.verifierDetailHistory \in Seq(Signatures)
      /\ ctx.verifierEvaluableHistory \in Seq(BOOLEAN)
      /\ ctx.iteration \in Nat
  BY DEF Ctxs
<1>1. ASSUME e.status \in world.statuses, e.hash \in TreeHashes, e.budget \in BOOLEAN
      PROVE  AfterTurn(ctx, e) \in Ctxs
  <2>1. Append(ctx.diffHashHistory, e.hash) \in Seq(TreeHashes)
    BY <1>0, <1>1, AppendProperties
  <2>2. Append(ctx.runStatusHistory, e.status) \in Seq(world.statuses)
    BY <1>0, <1>1, AppendProperties
  <2>3. (IF e.status = "crashed" THEN ctx.iteration ELSE ctx.iteration + 1) \in Nat
    BY <1>0
  <2>. QED BY <1>1, <2>1, <2>2, <2>3 DEF AfterTurn, Ctxs
<1>2. ASSUME e.budget \in BOOLEAN PROVE AfterGreen(ctx, e) \in Ctxs
  <2>1. Append(ctx.verifierEvaluableHistory, TRUE) \in Seq(BOOLEAN)
    BY <1>0, AppendProperties
  <2>2. << >> \in Seq(Signatures)
    BY EmptySeq
  <2>. QED BY <1>2, <2>1, <2>2 DEF AfterGreen, Ctxs
<1>3. ASSUME e.budget \in BOOLEAN, e.evaluable \in BOOLEAN, e.detail \in world.details
      PROVE  AfterRed(ctx, e) \in Ctxs
  <2>1. NormalizeDetail(e.detail) \in Signatures
    BY <1>3 DEF Signatures
  <2>2. Append(ctx.verifierEvaluableHistory, e.evaluable) \in Seq(BOOLEAN)
    BY <1>0, <1>3, AppendProperties
  <2>3. Append(ctx.verifierDetailHistory, NormalizeDetail(e.detail)) \in Seq(Signatures)
    BY <1>0, <2>1, AppendProperties
  <2>. QED BY <1>3, <2>2, <2>3 DEF AfterRed, Ctxs
<1>. QED BY <1>1, <1>2, <1>3

-----------------------------------------------------------------------------
(* The states the reducer builds are well formed. *)

InScenario == [config |-> config, world |-> world] \in Scenarios

(* What the assumption on Scenarios says of the scenario at hand. *)
LEMMA ScenarioType ==
  ASSUME InScenario
  PROVE  /\ config \in Configs
         /\ world.evaluable \subseteq BOOLEAN /\ world.budgets \subseteq BOOLEAN
         /\ NoContract \notin world.contracts
         /\ \A p \in world.plans \cup {EmptyPlan} :
              PlanSize(p) \in Nat /\ DOMAIN p = 0 .. (PlanSize(p) - 1)
<1> DEFINE s == [config |-> config, world |-> world]
<1>1. s \in Scenarios /\ s.config = config /\ s.world = world
  BY DEF InScenario
<1>2. \A p \in s.world.plans \cup {EmptyPlan} :
        PlanSize(p) \in Nat /\ DOMAIN p = 0 .. (PlanSize(p) - 1)
  BY <1>1, PlanDomain
<1>. QED BY <1>1, <1>2, WellFormedScenarios DEF ScenariosAssumption

(* A run without phases walks an empty plan, standing at its acceptance. *)
LEMMA NoPhaseOK ==
  NoPhase \in Phases /\ PhaseOK(NoPhase)
BY EmptyPlanSize DEF NoPhase, Phases, PhaseOK

(* A fresh state is well formed when it waits for its tag's own command. *)
LEMMA StateType ==
  ASSUME InScenario, NEW tag \in Tags, NEW cmd \in CommandsOf(tag) \cap Commands,
         tag \notin {"RUNNING_WAVE", "ADVANCING_PHASE", "AWAIT_SEAL", "PREPARING"} \cup LoopTags
  PROVE  StateOK(State(tag, cmd))
<1>1. config \in Configs
  BY ScenarioType
<1>2. State(tag, cmd) \in States
  BY NoPhaseOK, InitialCtxType DEF State, States, Reasons
<1>. QED BY <1>1, <1>2, NoPhaseOK DEF StateOK, State, Configs

(* Every way a run ends is a well-formed terminal state. *)
LEMMA StoppedType ==
  ASSUME InScenario, NEW tag \in TerminalTags, NEW reason \in Reasons,
         NEW contract \in world.contracts \cup {NoContract}, NEW n \in Nat
  PROVE  StateOK(Stopped(tag, reason, contract, n))
<1>1. StateOK(State(tag, "none"))
  BY StateType DEF TerminalTags, Tags, CommandsOf, Commands, LoopTags
<1>. QED BY <1>1 DEF Stopped, StateOK, States, State, TerminalTags, LoopTags

(* Planning keeps its two retry counters within their caps. *)
LEMMA PlanningType ==
  ASSUME InScenario, NEW r \in 0 .. config.maxPlanRevisions,
         NEW n \in 0 .. config.maxPlanRetries
  PROVE  StateOK(Planning(r, n))
<1> DEFINE s == Planning(r, n)
<1>1. config \in Configs
  BY ScenarioType
<1>2. r \in Nat /\ n \in Nat
  BY <1>1 DEF Configs
<1>3. s \in States
  BY <1>2, NoPhaseOK, InitialCtxType DEF Planning, State, States, Tags, Commands, Reasons
<1>4. /\ s.tag = "PLANNING" /\ s.cmd = "COMPILE_PLAN" /\ s.reviseRound = r /\ s.planRound = n
      /\ s.compileRound = 0 /\ s.indices = {} /\ s.phase = NoPhase
  BY DEF Planning, State
<1>5. StateOK(s)
  <2> HIDE DEF s
  <2>1. s.cmd \in CommandsOf(s.tag)
    BY <1>4 DEF CommandsOf, TerminalTags
  <2>. QED BY <1>1, <1>3, <1>4, <2>1, NoPhaseOK DEF StateOK, Configs, LoopTags
<1>. QED BY <1>5

(* Compiling, or re-freezing an edited contract, keeps the phase it is for. *)
LEMMA CompilingType ==
  ASSUME InScenario, NEW cmd \in {"COMPILE_VERIFIER", "REFREEZE_CONTRACT"},
         NEW phase \in Phases, PhaseOK(phase),
         NEW r \in 0 .. config.maxSealRevisions, NEW n \in 0 .. config.maxCompileRetries
  PROVE  StateOK(Compiling(cmd, phase, r, n))
<1> DEFINE s == Compiling(cmd, phase, r, n)
<1>1. config \in Configs
  BY ScenarioType
<1>2. r \in Nat /\ n \in Nat
  BY <1>1 DEF Configs
<1>3. s \in States
  BY <1>2, InitialCtxType DEF Compiling, State, States, Tags, Commands, Reasons
<1>4. /\ s.tag = "COMPILING" /\ s.cmd = cmd /\ s.reviseRound = r /\ s.compileRound = n
      /\ s.planRound = 0 /\ s.indices = {} /\ s.phase = phase
  BY DEF Compiling, State
<1>5. StateOK(s)
  <2> HIDE DEF s
  <2>1. s.cmd \in CommandsOf(s.tag)
    BY <1>4 DEF CommandsOf, TerminalTags
  <2>. QED BY <1>1, <1>3, <1>4, <2>1 DEF StateOK, Configs, LoopTags
<1>. QED BY <1>5

(* A turn starts from a frozen contract and any well-formed context. *)
LEMMA StartIterationType ==
  ASSUME InScenario, NEW contract \in world.contracts, NEW phase \in Phases, PhaseOK(phase),
         NEW ctx \in Ctxs
  PROVE  StateOK(StartIteration(config, contract, phase, ctx))
<1> DEFINE s == StartIteration(config, contract, phase, ctx)
<1>1. contract # NoContract /\ config \in Configs
  BY ScenarioType
<1>2. s \in States
  BY DEF StartIteration, State, States, Tags, LoopTags, Commands, Reasons
<1>3. /\ s.tag = "RUNNING_AGENT" /\ s.cmd \in CommandsOf("RUNNING_AGENT")
      /\ s.planRound = 0 /\ s.compileRound = 0 /\ s.indices = {}
      /\ s.phase = phase /\ s.contract = contract
  BY DEF StartIteration, State, CommandsOf, TerminalTags
<1>4. StateOK(s)
  <2> HIDE DEF s
  <2>. QED BY <1>1, <1>2, <1>3 DEF StateOK, Configs
<1>. QED BY <1>4

-----------------------------------------------------------------------------
(* The walk over the plan. *)

(* What a well-formed phase says of its plan, in the terms arithmetic needs. *)
LEMMA PhaseType ==
  ASSUME InScenario, NEW phase \in Phases, PhaseOK(phase)
  PROVE  /\ PlanSize(phase.plan) \in Nat
         /\ DOMAIN phase.plan = 0 .. (PlanSize(phase.plan) - 1)
         /\ phase.index \in Nat /\ phase.index <= PlanSize(phase.plan)
<1>1. phase.plan \in world.plans \cup {EmptyPlan}
  BY DEF Phases
<1>. QED BY <1>1, ScenarioType DEF PhaseOK

(* The next phase exists, is not before from, and is not a completed one. *)
LEMMA NextPhaseIndexType ==
  ASSUME InScenario, NEW phase \in Phases, PhaseOK(phase),
         NEW from \in 0 .. PlanSize(phase.plan)
  PROVE  /\ NextPhaseIndex(phase, from) \in from .. PlanSize(phase.plan)
         /\ NextPhaseIndex(phase, from) \notin phase.skip
<1> DEFINE n    == PlanSize(phase.plan)
           left == { i \in from .. n : i \notin phase.skip }
<1>1. n \in Nat
  BY PhaseType
<1>2. n \in left
  BY <1>1 DEF PhaseOK
<1>3. left \subseteq Nat /\ left # {}
  BY <1>1, <1>2
<1>4. Min(left) \in left
  BY <1>3, MinOfNats
<1>. QED BY <1>4 DEF NextPhaseIndex

(* A wave is made of sub-goals of the plan; alone, the phase the walk is at. *)
LEMMA PendingWaveType ==
  ASSUME InScenario, NEW phase \in Phases, PhaseOK(phase)
  PROVE  \/ PendingWaveAt(config, phase) = {phase.index}
         \/ /\ PendingWaveAt(config, phase) # {}
            /\ PendingWaveAt(config, phase) \subseteq 0 .. (PlanSize(phase.plan) - 1)
<1> DEFINE wave == WaveIndicesAt(phase.plan, phase.index, phase.skip)
           live == wave \ (phase.skip \cup phase.waved)
<1>1. CASE phase.index >= PlanSize(phase.plan)
  BY <1>1 DEF PendingWaveAt
<1>2. CASE phase.index < PlanSize(phase.plan)
  <2>1. phase.index \in DOMAIN phase.plan
    BY <1>2, PhaseType
  <2>2. wave \subseteq DOMAIN phase.plan
    BY <2>1 DEF WaveIndicesAt, ReadyFrontier
  <2>3. live \subseteq 0 .. (PlanSize(phase.plan) - 1)
    BY <2>2, PhaseType
  <2>4. \/ PendingWaveAt(config, phase) = {phase.index}
        \/ live # {} /\ PendingWaveAt(config, phase) = live
    BY DEF PendingWaveAt
  <2>. HIDE DEF live
  <2>. QED BY <2>3, <2>4
<1>. QED BY <1>1, <1>2, PhaseType

(* Opening a phase compiles its contract, or runs the wave it leads. *)
LEMMA StartPhaseCompileType ==
  ASSUME InScenario, NEW phase \in Phases, PhaseOK(phase)
  PROVE  StateOK(StartPhaseCompile(config, phase))
<1> DEFINE wave == PendingWaveAt(config, phase)
           s    == StartPhaseCompile(config, phase)
<1>1. config \in Configs
  BY ScenarioType
<1>2. CASE Cardinality(wave) > 1
  <2>1. wave # {} /\ wave \subseteq 0 .. (PlanSize(phase.plan) - 1)
    <3>1. wave # {phase.index}
      BY <1>2, FS_Singleton
    <3>. QED BY <3>1, PendingWaveType
  <2>2. wave \subseteq Nat
    BY <2>1
  <2>3. s = [State("RUNNING_WAVE", "RUN_WAVE") EXCEPT !.phase = phase, !.indices = wave]
    BY <1>2 DEF StartPhaseCompile
  <2>. HIDE DEF wave, s
  <2>4. s \in States
    BY <2>2, <2>3, InitialCtxType DEF State, States, Tags, Commands, Reasons
  <2>5. /\ s.tag = "RUNNING_WAVE" /\ s.cmd = "RUN_WAVE" /\ s.indices = wave
        /\ s.planRound = 0 /\ s.compileRound = 0 /\ s.phase = phase
    BY <2>3 DEF State
  <2>6. s.cmd \in CommandsOf(s.tag)
    BY <2>5 DEF CommandsOf, TerminalTags
  <2>7. StateOK(s)
    BY <1>1, <2>1, <2>4, <2>5, <2>6 DEF StateOK, Configs, LoopTags
  <2>. QED BY <2>7 DEF s
<1>3. CASE ~(Cardinality(wave) > 1)
  <2>1. s = Compiling("COMPILE_VERIFIER", phase, 0, 0)
    BY <1>3 DEF StartPhaseCompile
  <2>2. 0 \in 0 .. config.maxSealRevisions /\ 0 \in 0 .. config.maxCompileRetries
    BY <1>1 DEF Configs
  <2>3. StateOK(Compiling("COMPILE_VERIFIER", phase, 0, 0))
    BY <2>2, CompilingType
  <2>. QED BY <2>1, <2>3
<1>. QED BY <1>2, <1>3

(* A phase that turned both keys is over; after the acceptance so is the run. *)
LEMMA PhaseDoneType ==
  ASSUME InScenario, NEW s \in States, StateOK(s), NEW ctx \in Ctxs
  PROVE  StateOK(PhaseDone(s, ctx))
<1> DEFINE t == PhaseDone(s, ctx)
<1>1. config \in Configs /\ ctx.iteration \in Nat /\ PhaseOK(s.phase) /\ s.phase \in Phases
  BY ScenarioType DEF Ctxs, StateOK, States
<1>2. CASE s.phase.index < PlanSize(s.phase.plan)
  <2>1. t = [State("ADVANCING_PHASE", "CHECKPOINT_AND_ADVANCE") EXCEPT
               !.phase = s.phase, !.iterations = ctx.iteration]
    BY <1>2 DEF PhaseDone
  <2>. HIDE DEF t
  <2>2. t \in States
    BY <1>1, <2>1, InitialCtxType DEF State, States, Tags, Commands, Reasons
  <2>3. /\ t.tag = "ADVANCING_PHASE" /\ t.cmd = "CHECKPOINT_AND_ADVANCE" /\ t.indices = {}
        /\ t.planRound = 0 /\ t.compileRound = 0 /\ t.phase = s.phase
    BY <2>1 DEF State
  <2>4. t.cmd \in CommandsOf(t.tag)
    BY <2>3 DEF CommandsOf, TerminalTags
  <2>5. StateOK(t)
    BY <1>1, <1>2, <2>2, <2>3, <2>4 DEF StateOK, Configs, LoopTags
  <2>. QED BY <2>5 DEF t
<1>3. CASE ~(s.phase.index < PlanSize(s.phase.plan))
  <2>1. s.contract \in world.contracts \cup {NoContract}
    BY DEF States
  <2>2. t = Stopped("DONE", "both-keys", s.contract, ctx.iteration)
    BY <1>3 DEF PhaseDone
  <2>. QED BY <1>1, <2>1, <2>2, StoppedType DEF TerminalTags, Reasons
<1>. QED BY <1>2, <1>3

-----------------------------------------------------------------------------
(* The loop. *)

(* Moving within the loop changes the tag, its command and the context only. *)
LEMMA LoopMoveType ==
  ASSUME InScenario, NEW s, StateOK(s), s.tag \in LoopTags,
         NEW tag \in LoopTags, NEW cmd \in CommandsOf(tag), NEW ctx \in Ctxs
  PROVE  StateOK([s EXCEPT !.tag = tag, !.cmd = cmd, !.ctx = ctx])
<1> DEFINE t == [s EXCEPT !.tag = tag, !.cmd = cmd, !.ctx = ctx]
<1>1. s \in States
  BY DEF StateOK
<1>2. cmd \in Commands /\ tag \in Tags
  BY DEF CommandsOf, LoopTags, TerminalTags, Tags, Commands
<1>3. t \in States
  BY <1>1, <1>2 DEF States
<1>4. /\ t.tag = tag /\ t.cmd = cmd /\ t.planRound = s.planRound /\ t.indices = s.indices
      /\ t.compileRound = s.compileRound /\ t.contract = s.contract /\ t.phase = s.phase
  BY <1>1 DEF States
<1>5. StateOK(t)
  <2> HIDE DEF t
  <2>. QED BY <1>3, <1>4 DEF StateOK, LoopTags
<1>. QED BY <1>5

(* A decision taken on a judged turn leads to a well-formed state. *)
LEMMA ApplyDecisionType ==
  ASSUME InScenario, NEW s, StateOK(s), s.tag \in LoopTags,
         NEW ctx \in Ctxs, NEW d \in Decisions
  PROVE  StateOK(ApplyDecision(config, s, ctx, d))
<1>1. s \in States /\ s.phase \in Phases /\ PhaseOK(s.phase) /\ s.contract \in world.contracts
  BY DEF StateOK, States
<1>2. ctx.iteration \in Nat
  BY DEF Ctxs
<1>3. CASE d.kind = "CONTINUE"
  <2> DEFINE next == [ctx EXCEPT !.feedbackSource = d.source, !.remediations = d.ledger]
  <2>1. next \in Ctxs
    BY DEF Ctxs, Decisions
  <2>2. ApplyDecision(config, s, ctx, d) = StartIteration(config, s.contract, s.phase, next)
    BY <1>3 DEF ApplyDecision
  <2>. HIDE DEF next
  <2>. QED BY <1>1, <2>1, <2>2, StartIterationType
<1>4. CASE d.kind = "DONE"
  BY <1>1, <1>4, PhaseDoneType DEF ApplyDecision
<1>5. CASE d.kind = "ADJUDICATE"
  <2> DEFINE next == [ctx EXCEPT !.adjudicated = TRUE]
  <2>1. next \in Ctxs
    BY DEF Ctxs
  <2>2. ApplyDecision(config, s, ctx, d)
          = [s EXCEPT !.tag = "ADJUDICATING", !.cmd = "ADJUDICATE_CONTRACT", !.ctx = next]
    BY <1>5 DEF ApplyDecision
  <2>3. "ADJUDICATE_CONTRACT" \in CommandsOf("ADJUDICATING") /\ "ADJUDICATING" \in LoopTags
    BY DEF CommandsOf, LoopTags, TerminalTags
  <2>. HIDE DEF next
  <2>4. StateOK([s EXCEPT !.tag = "ADJUDICATING", !.cmd = "ADJUDICATE_CONTRACT", !.ctx = next])
    BY <2>1, <2>3, LoopMoveType
  <2>. QED BY <2>2, <2>4
<1>6. CASE d.kind \in {"FAILED", "ABORTED"}
  <2>1. ApplyDecision(config, s, ctx, d) = Stopped(d.kind, d.reason, s.contract, ctx.iteration)
    BY <1>6 DEF ApplyDecision
  <2>2. d.kind \in TerminalTags /\ d.reason \in Reasons
    BY <1>6 DEF TerminalTags, Decisions
  <2>. QED BY <1>1, <1>2, <2>1, <2>2, StoppedType
<1>7. d.kind \in {"CONTINUE", "DONE", "ADJUDICATE", "FAILED", "ABORTED"}
  BY DEF Decisions
<1>. QED BY <1>3, <1>4, <1>5, <1>6, <1>7

-----------------------------------------------------------------------------
(* Every step function, given an event its command may result in. *)

(* A plan goes to its Seal; a failed attempt is retried within the cap. *)
LEMMA StepPlanningType ==
  ASSUME InScenario, NEW s, StateOK(s), s.tag = "PLANNING",
         NEW e, \/ e.tag = "PLAN_COMPILED" /\ e.plan \in world.plans
                \/ e.tag = "PLAN_FAILED"
  PROVE  StateOK(StepPlanning(config, s, e))
<1>1. /\ config \in Configs /\ s \in States /\ s.reviseRound \in 0 .. config.maxPlanRevisions
      /\ s.planRound \in Nat /\ s.reviseRound \in Nat
  BY ScenarioType DEF StateOK, States, Configs
<1>2. CASE e.tag = "PLAN_COMPILED"
  <2> DEFINE phase == [NoPhase EXCEPT !.plan = e.plan]
             t     == [State("AWAIT_PLAN_SEAL", "REQUEST_PLAN_SEAL") EXCEPT
                         !.reviseRound = s.reviseRound, !.phase = phase]
  <2>1. e.plan \in world.plans /\ PlanSize(e.plan) \in Nat
    BY <1>2, ScenarioType
  <2>2. phase \in Phases /\ PhaseOK(phase) /\ phase.plan = e.plan
    BY <2>1 DEF NoPhase, Phases, PhaseOK
  <2>. HIDE DEF phase
  <2>3. t \in States
    BY <1>1, <2>2, InitialCtxType DEF State, States, Tags, Commands, Reasons
  <2>4. /\ t.tag = "AWAIT_PLAN_SEAL" /\ t.cmd = "REQUEST_PLAN_SEAL" /\ t.indices = {}
        /\ t.planRound = 0 /\ t.compileRound = 0 /\ t.reviseRound = s.reviseRound
        /\ t.phase = phase
    BY DEF State
  <2>5. StepPlanning(config, s, e) = t
    BY <1>2 DEF StepPlanning, phase
  <2>. HIDE DEF t
  <2>6. t.cmd \in CommandsOf(t.tag)
    BY <2>4 DEF CommandsOf, TerminalTags
  <2>7. StateOK(t)
    BY <1>1, <2>2, <2>3, <2>4, <2>6 DEF StateOK, Configs, LoopTags
  <2>. QED BY <2>5, <2>7
<1>3. CASE e.tag = "PLAN_FAILED" /\ s.planRound < config.maxPlanRetries
  <2>1. s.planRound + 1 \in 0 .. config.maxPlanRetries
    BY <1>1, <1>3 DEF Configs
  <2>2. StepPlanning(config, s, e) = Planning(s.reviseRound, s.planRound + 1)
    BY <1>1, <1>3 DEF StepPlanning, Configs
  <2>3. StateOK(Planning(s.reviseRound, s.planRound + 1))
    BY <1>1, <2>1, PlanningType
  <2>. QED BY <2>2, <2>3
<1>4. CASE e.tag = "PLAN_FAILED" /\ ~(s.planRound < config.maxPlanRetries)
  <2>1. StepPlanning(config, s, e) = Stopped("FAILED", "plan-failed", NoContract, 0)
    BY <1>1, <1>4 DEF StepPlanning, Configs
  <2>. QED BY <2>1, StoppedType DEF TerminalTags, Reasons
<1>. QED BY <1>2, <1>3, <1>4

(* The plan Seal opens the first phase, asks again within its cap, or ends. *)
LEMMA StepAwaitPlanSealType ==
  ASSUME InScenario, NEW s, StateOK(s), s.tag = "AWAIT_PLAN_SEAL",
         NEW e, e.decision \in {"approve", "reject", "revise"}
  PROVE  StateOK(StepAwaitPlanSeal(config, s, e))
<1>1. /\ config \in Configs /\ s.phase \in Phases /\ PhaseOK(s.phase) /\ s.reviseRound \in Nat
  BY ScenarioType DEF StateOK, States
<1>2. CASE e.decision = "approve"
  BY <1>1, <1>2, StartPhaseCompileType DEF StepAwaitPlanSeal
<1>3. CASE e.decision = "reject"
  <2>1. StepAwaitPlanSeal(config, s, e) = Stopped("ABORTED", "plan-rejected", NoContract, 0)
    BY <1>3 DEF StepAwaitPlanSeal
  <2>. QED BY <2>1, StoppedType DEF TerminalTags, Reasons
<1>4. CASE e.decision = "revise" /\ s.reviseRound + 1 > config.maxPlanRevisions
  <2>1. StepAwaitPlanSeal(config, s, e) = Stopped("ABORTED", "plan-revision-cap", NoContract, 0)
    BY <1>1, <1>4 DEF StepAwaitPlanSeal, Configs
  <2>. QED BY <2>1, StoppedType DEF TerminalTags, Reasons
<1>5. CASE e.decision = "revise" /\ ~(s.reviseRound + 1 > config.maxPlanRevisions)
  <2>1. StepAwaitPlanSeal(config, s, e) = Planning(s.reviseRound + 1, 0)
    BY <1>1, <1>5 DEF StepAwaitPlanSeal, Configs
  <2>2. s.reviseRound + 1 \in 0 .. config.maxPlanRevisions /\ 0 \in 0 .. config.maxPlanRetries
    BY <1>1, <1>5 DEF Configs
  <2>3. StateOK(Planning(s.reviseRound + 1, 0))
    BY <2>2, PlanningType
  <2>. QED BY <2>1, <2>3
<1>. QED BY <1>2, <1>3, <1>4, <1>5

(* Advancing opens the next phase no wave has completed. *)
LEMMA StepAdvancingPhaseType ==
  ASSUME InScenario, NEW s, StateOK(s), s.tag = "ADVANCING_PHASE", NEW e
  PROVE  StateOK(StepAdvancingPhase(config, s, e))
<1>1. /\ s.phase \in Phases /\ PhaseOK(s.phase) /\ s.phase.index < PlanSize(s.phase.plan)
  BY DEF StateOK, States
<1>2. s.phase.index + 1 \in 0 .. PlanSize(s.phase.plan)
  BY <1>1, PhaseType
<1> DEFINE i    == NextPhaseIndex(s.phase, s.phase.index + 1)
           next == [s.phase EXCEPT !.index = i]
<1>3. i \in Nat /\ i \in 0 .. PlanSize(s.phase.plan)
  <2>1. i \in (s.phase.index + 1) .. PlanSize(s.phase.plan)
    BY <1>1, <1>2, NextPhaseIndexType
  <2>. QED BY <1>1, <2>1, PhaseType
<1>4. StepAdvancingPhase(config, s, e) = StartPhaseCompile(config, next)
  BY DEF StepAdvancingPhase
<1>. HIDE DEF i
<1>5. next \in Phases /\ PhaseOK(next)
  BY <1>1, <1>3 DEF Phases, PhaseOK
<1>. QED BY <1>4, <1>5, StartPhaseCompileType

(* A wave's members are skipped or taken up again, in plan order. *)
LEMMA StepRunningWaveType ==
  ASSUME InScenario, NEW s, StateOK(s), s.tag = "RUNNING_WAVE", NEW e
  PROVE  StateOK(StepRunningWave(config, s, e))
<1> DEFINE next == AfterWave(s, e.merged \cap s.indices)
           i    == NextPhaseIndex(next, Min(s.indices))
           last == [next EXCEPT !.index = i]
<1>1. /\ s.phase \in Phases /\ PhaseOK(s.phase)
      /\ s.indices \subseteq 0 .. (PlanSize(s.phase.plan) - 1) /\ s.indices # {}
  BY DEF StateOK, States
<1>2. PlanSize(s.phase.plan) \in Nat
  BY <1>1, PhaseType
<1>3. s.indices \subseteq Nat /\ Min(s.indices) \in s.indices
  BY <1>1, <1>2, MinOfNats
<1>4. /\ next \in Phases /\ PhaseOK(next) /\ next.plan = s.phase.plan
  BY <1>1, <1>3 DEF AfterWave, Phases, PhaseOK
<1>5. Min(s.indices) \in 0 .. PlanSize(next.plan)
  BY <1>1, <1>2, <1>3, <1>4
<1>6. StepRunningWave(config, s, e) = StartPhaseCompile(config, last)
  BY DEF StepRunningWave
<1>. HIDE DEF next
<1>7. i \in Min(s.indices) .. PlanSize(next.plan)
  BY <1>4, <1>5, NextPhaseIndexType
<1>8. i \in Nat /\ i \in 0 .. PlanSize(next.plan)
  BY <1>2, <1>3, <1>4, <1>7
<1>. HIDE DEF i
<1>9. last \in Phases /\ PhaseOK(last)
  BY <1>4, <1>8 DEF Phases, PhaseOK
<1>. QED BY <1>6, <1>9, StartPhaseCompileType

(* A contract goes to its Seal; a failed attempt is retried within the cap. *)
LEMMA StepCompilingType ==
  ASSUME InScenario, NEW s, StateOK(s), s.tag = "COMPILING",
         NEW e, \/ e.tag = "CONTRACT_COMPILED" /\ e.contract \in world.contracts
                \/ e.tag = "COMPILE_FAILED"
  PROVE  StateOK(StepCompiling(config, s, e))
<1>1. /\ config \in Configs /\ s \in States /\ s.phase \in Phases /\ PhaseOK(s.phase)
      /\ s.reviseRound \in 0 .. config.maxSealRevisions /\ s.reviseRound \in Nat
      /\ s.compileRound \in Nat
  BY ScenarioType DEF StateOK, States, Configs
<1>2. CASE e.tag = "CONTRACT_COMPILED"
  <2> DEFINE t == [State("AWAIT_SEAL", "REQUEST_SEAL") EXCEPT
                     !.contract = e.contract, !.reviseRound = s.reviseRound, !.phase = s.phase]
  <2>1. e.contract \in world.contracts /\ e.contract # NoContract
    BY <1>2, ScenarioType
  <2>2. t \in States
    BY <1>1, <2>1, InitialCtxType DEF State, States, Tags, Commands, Reasons
  <2>3. /\ t.tag = "AWAIT_SEAL" /\ t.cmd = "REQUEST_SEAL" /\ t.indices = {}
        /\ t.planRound = 0 /\ t.compileRound = 0 /\ t.reviseRound = s.reviseRound
        /\ t.phase = s.phase /\ t.contract = e.contract
    BY DEF State
  <2>4. StepCompiling(config, s, e) = t
    BY <1>2 DEF StepCompiling
  <2>. HIDE DEF t
  <2>5. t.cmd \in CommandsOf(t.tag)
    BY <2>3 DEF CommandsOf, TerminalTags
  <2>6. StateOK(t)
    BY <1>1, <2>1, <2>2, <2>3, <2>5 DEF StateOK, Configs, LoopTags
  <2>. QED BY <2>4, <2>6
<1>3. CASE e.tag = "COMPILE_FAILED" /\ s.compileRound < config.maxCompileRetries
  <2>1. s.compileRound + 1 \in 0 .. config.maxCompileRetries
    BY <1>1, <1>3 DEF Configs
  <2>2. StepCompiling(config, s, e)
          = Compiling("COMPILE_VERIFIER", s.phase, s.reviseRound, s.compileRound + 1)
    BY <1>1, <1>3 DEF StepCompiling, Configs
  <2>3. StateOK(Compiling("COMPILE_VERIFIER", s.phase, s.reviseRound, s.compileRound + 1))
    BY <1>1, <2>1, CompilingType
  <2>. QED BY <2>2, <2>3
<1>4. CASE e.tag = "COMPILE_FAILED" /\ ~(s.compileRound < config.maxCompileRetries)
  <2>1. StepCompiling(config, s, e) = Stopped("FAILED", "compile-failed", NoContract, 0)
    BY <1>1, <1>4 DEF StepCompiling, Configs
  <2>. QED BY <2>1, StoppedType DEF TerminalTags, Reasons
<1>. QED BY <1>2, <1>3, <1>4

(* The Seal starts the work, asks for another contract within its cap, or ends. *)
LEMMA StepAwaitSealType ==
  ASSUME InScenario, NEW s, StateOK(s), s.tag = "AWAIT_SEAL",
         NEW e, e.decision \in {"approve", "reject", "revise", "edited"}
  PROVE  StateOK(StepAwaitSeal(config, s, e))
<1>1. /\ config \in Configs /\ s \in States /\ s.phase \in Phases /\ PhaseOK(s.phase)
      /\ s.reviseRound \in 0 .. config.maxSealRevisions /\ s.reviseRound \in Nat
      /\ s.contract \in world.contracts /\ s.contract # NoContract
  BY ScenarioType DEF StateOK, States, Configs, LoopTags
<1>2. CASE e.decision = "approve" /\ NeedsPreparation(s.contract)
  <2> DEFINE t == [State("PREPARING", "PREPARE_WORKSPACE") EXCEPT
                     !.contract = s.contract, !.phase = s.phase]
  <2>1. t \in States
    BY <1>1, InitialCtxType DEF State, States, Tags, Commands, Reasons
  <2>2. /\ t.tag = "PREPARING" /\ t.cmd = "PREPARE_WORKSPACE" /\ t.indices = {}
        /\ t.planRound = 0 /\ t.compileRound = 0 /\ t.phase = s.phase
        /\ t.contract = s.contract
    BY DEF State
  <2>3. StepAwaitSeal(config, s, e) = t
    BY <1>2 DEF StepAwaitSeal
  <2>. HIDE DEF t
  <2>4. t.cmd \in CommandsOf(t.tag)
    BY <2>2 DEF CommandsOf, TerminalTags
  <2>5. StateOK(t)
    BY <1>1, <2>1, <2>2, <2>4 DEF StateOK, Configs, LoopTags
  <2>. QED BY <2>3, <2>5
<1>3. CASE e.decision = "approve" /\ ~NeedsPreparation(s.contract)
  <2>1. StepAwaitSeal(config, s, e) = StartIteration(config, s.contract, s.phase, InitialCtx)
    BY <1>3 DEF StepAwaitSeal
  <2>. QED BY <1>1, <2>1, InitialCtxType, StartIterationType
<1>4. CASE e.decision = "reject"
  <2>1. StepAwaitSeal(config, s, e) = Stopped("ABORTED", "seal-rejected", s.contract, 0)
    BY <1>4 DEF StepAwaitSeal
  <2>. QED BY <1>1, <2>1, StoppedType DEF TerminalTags, Reasons
<1>5. CASE e.decision = "revise" /\ s.reviseRound + 1 > config.maxSealRevisions
  <2>1. StepAwaitSeal(config, s, e) = Stopped("ABORTED", "seal-revision-cap", s.contract, 0)
    BY <1>1, <1>5 DEF StepAwaitSeal, Configs
  <2>. QED BY <1>1, <2>1, StoppedType DEF TerminalTags, Reasons
<1>6. CASE e.decision = "revise" /\ ~(s.reviseRound + 1 > config.maxSealRevisions)
  <2>1. StepAwaitSeal(config, s, e) = Compiling("COMPILE_VERIFIER", s.phase, s.reviseRound + 1, 0)
    BY <1>1, <1>6 DEF StepAwaitSeal, Configs
  <2>2. s.reviseRound + 1 \in 0 .. config.maxSealRevisions /\ 0 \in 0 .. config.maxCompileRetries
    BY <1>1, <1>6 DEF Configs
  <2>3. StateOK(Compiling("COMPILE_VERIFIER", s.phase, s.reviseRound + 1, 0))
    BY <1>1, <2>2, CompilingType
  <2>. QED BY <2>1, <2>3
<1>7. CASE e.decision = "edited"
  <2>1. StepAwaitSeal(config, s, e) = Compiling("REFREEZE_CONTRACT", s.phase, s.reviseRound, 0)
    BY <1>7 DEF StepAwaitSeal
  <2>2. 0 \in 0 .. config.maxCompileRetries
    BY <1>1 DEF Configs
  <2>3. StateOK(Compiling("REFREEZE_CONTRACT", s.phase, s.reviseRound, 0))
    BY <1>1, <2>2, CompilingType
  <2>. QED BY <2>1, <2>3
<1>. QED BY <1>2, <1>3, <1>4, <1>5, <1>6, <1>7

(* A workspace that cannot carry the contract ends the run before any turn. *)
LEMMA StepPreparingType ==
  ASSUME InScenario, NEW s, StateOK(s), s.tag = "PREPARING",
         NEW e, e.prepared \in {"proceed", "tools-missing", "setup-failed", "contract-unsound"}
  PROVE  StateOK(StepPreparing(config, s, e))
<1>1. /\ s.phase \in Phases /\ PhaseOK(s.phase) /\ s.contract \in world.contracts
  BY DEF StateOK, States
<1>2. CASE e.prepared = "proceed"
  BY <1>1, <1>2, InitialCtxType, StartIterationType DEF StepPreparing
<1>3. CASE e.prepared # "proceed"
  <2>1. StepPreparing(config, s, e) = Stopped("FAILED", e.prepared, s.contract, 0)
    BY <1>3 DEF StepPreparing
  <2>2. e.prepared \in Reasons
    BY <1>3 DEF Reasons
  <2>3. "FAILED" \in TerminalTags
    BY DEF TerminalTags
  <2>. QED BY <1>1, <2>1, <2>2, <2>3, StoppedType
<1>. QED BY <1>2, <1>3

(* A turn extends the histories and hands over to the verifier. *)
LEMMA StepRunningAgentType ==
  ASSUME InScenario, NEW s, StateOK(s), s.tag = "RUNNING_AGENT",
         NEW e, e.status \in world.statuses, e.hash \in TreeHashes, e.budget \in BOOLEAN
  PROVE  StateOK(StepRunningAgent(config, s, e))
<1>1. s \in States /\ s.ctx \in Ctxs
  BY DEF StateOK, States
<1> DEFINE next == AfterTurn(s.ctx, e)
<1>2. next \in Ctxs
  BY <1>1, CtxTypes
<1>3. StepRunningAgent(config, s, e)
        = [s EXCEPT !.tag = "VERIFYING", !.cmd = "RUN_VERIFIER", !.ctx = next]
  BY DEF StepRunningAgent
<1>4. "RUN_VERIFIER" \in CommandsOf("VERIFYING") /\ "VERIFYING" \in LoopTags /\ s.tag \in LoopTags
  BY DEF CommandsOf, LoopTags, TerminalTags
<1>. HIDE DEF next
<1>5. StateOK([s EXCEPT !.tag = "VERIFYING", !.cmd = "RUN_VERIFIER", !.ctx = next])
  BY <1>2, <1>4, LoopMoveType
<1>. QED BY <1>3, <1>5

(* A green ladder asks for Sign-off; a red one is decided on. *)
LEMMA StepVerifyingType ==
  ASSUME InScenario, NEW s, StateOK(s), s.tag = "VERIFYING",
         NEW e, e.pass \in BOOLEAN, e.budget \in BOOLEAN,
         ~e.pass => e.detail \in world.details /\ e.evaluable \in BOOLEAN
  PROVE  StateOK(StepVerifying(config, s, e))
<1>1. /\ s \in States /\ s.ctx \in Ctxs /\ config \in Configs /\ s.tag \in LoopTags
  BY ScenarioType DEF StateOK, States, LoopTags
<1>2. CASE e.pass
  <2> DEFINE next == AfterGreen(s.ctx, e)
  <2>1. next \in Ctxs
    BY <1>1, CtxTypes
  <2>2. StepVerifying(config, s, e)
          = [s EXCEPT !.tag = "AWAIT_SIGNOFF", !.cmd = "REQUEST_SIGNOFF", !.ctx = next]
    BY <1>2 DEF StepVerifying
  <2>3. "REQUEST_SIGNOFF" \in CommandsOf("AWAIT_SIGNOFF") /\ "AWAIT_SIGNOFF" \in LoopTags
    BY DEF CommandsOf, LoopTags, TerminalTags
  <2>. HIDE DEF next
  <2>4. StateOK([s EXCEPT !.tag = "AWAIT_SIGNOFF", !.cmd = "REQUEST_SIGNOFF", !.ctx = next])
    BY <1>1, <2>1, <2>3, LoopMoveType
  <2>. QED BY <2>2, <2>4
<1>3. CASE ~e.pass
  <2> DEFINE next == AfterRed(s.ctx, e)
             d    == Decide(config, s.contract, next, FALSE, "none")
  <2>1. next \in Ctxs
    BY <1>1, <1>3, CtxTypes
  <2>2. StepVerifying(config, s, e) = ApplyDecision(config, s, next, d)
    BY <1>3 DEF StepVerifying
  <2>. HIDE DEF next
  <2>3. d \in Decisions
    BY <1>1, <2>1, DecideType
  <2>. HIDE DEF d
  <2>. QED BY <1>1, <2>1, <2>2, <2>3, ApplyDecisionType
<1>. QED BY <1>2, <1>3

(* Sign-off is decided on with the verdict the ladder gave. *)
LEMMA StepAwaitSignoffType ==
  ASSUME InScenario, NEW s, StateOK(s), s.tag = "AWAIT_SIGNOFF",
         NEW e, e.budget \in BOOLEAN
  PROVE  StateOK(StepAwaitSignoff(config, s, e))
<1>1. /\ s \in States /\ s.ctx \in Ctxs /\ config \in Configs /\ s.tag \in LoopTags
  BY ScenarioType DEF StateOK, States, LoopTags
<1> DEFINE next == [s.ctx EXCEPT !.lastBudget = e.budget]
           d    == Decide(config, s.contract, next, next.lastVerdict = "pass", e.approval)
<1>2. next \in Ctxs
  BY <1>1 DEF Ctxs
<1>3. StepAwaitSignoff(config, s, e) = ApplyDecision(config, s, next, d)
  BY DEF StepAwaitSignoff
<1>. HIDE DEF next
<1>4. d \in Decisions
  BY <1>1, <1>2, DecideType
<1>. HIDE DEF d
<1>. QED BY <1>1, <1>2, <1>3, <1>4, ApplyDecisionType

(* Adjudication only names the abort it was asked to explain. *)
LEMMA StepAdjudicatingType ==
  ASSUME InScenario, NEW s, StateOK(s), s.tag = "ADJUDICATING", NEW e
  PROVE  StateOK(StepAdjudicating(config, s, e))
<1>1. s.contract \in world.contracts \cup {NoContract} /\ s.ctx.iteration \in Nat
  BY DEF StateOK, States, Ctxs
<1>2. "contract-defective" \in Reasons /\ "contract-sound" \in Reasons
  BY DEF Reasons
<1>3. "ABORTED" \in TerminalTags
  BY DEF TerminalTags
<1>. QED BY <1>1, <1>2, <1>3, StoppedType DEF StepAdjudicating

(* The command a well-formed state waits for tells which state it is. *)
LEMMA CommandTells ==
  ASSUME NEW s, s.tag \in Tags, s.cmd \in CommandsOf(s.tag)
  PROVE  /\ s.cmd = "COMPILE_PLAN" => s.tag = "PLANNING"
         /\ s.cmd = "REQUEST_PLAN_SEAL" => s.tag = "AWAIT_PLAN_SEAL"
         /\ s.cmd = "CHECKPOINT_AND_ADVANCE" => s.tag = "ADVANCING_PHASE"
         /\ s.cmd = "RUN_WAVE" => s.tag = "RUNNING_WAVE"
         /\ s.cmd \in {"COMPILE_VERIFIER", "REFREEZE_CONTRACT"} => s.tag = "COMPILING"
         /\ s.cmd = "REQUEST_SEAL" => s.tag = "AWAIT_SEAL"
         /\ s.cmd = "PREPARE_WORKSPACE" => s.tag = "PREPARING"
         /\ s.cmd \in {"RUN_AGENT", "RUN_AGENT_BEST_OF"} => s.tag = "RUNNING_AGENT"
         /\ s.cmd = "RUN_VERIFIER" => s.tag = "VERIFYING"
         /\ s.cmd = "REQUEST_SIGNOFF" => s.tag = "AWAIT_SIGNOFF"
         /\ s.cmd = "ADJUDICATE_CONTRACT" => s.tag = "ADJUDICATING"
BY DEF Tags, CommandsOf, LoopTags, TerminalTags

(* A well-formed result of a step is a well-formed next state. *)
LEMMA NextStateType ==
  ASSUME TypeOK, NEW e, Apply(e), StateOK(Step(config, st, e))
  PROVE  TypeOK'
<1>1. st' = Step(config, st, e) /\ config' = config /\ world' = world
  BY DEF Apply
<1>2. StateOK(st')
  BY <1>1
<1>3. StateOK(st)'
  BY <1>1, <1>2 DEF StateOK, States, Phases, Ctxs, Signatures, TreeHashes, PhaseOK
<1>. QED BY <1>1, <1>3 DEF TypeOK

(* What TypeOK says of the current state, in the terms the step lemmas use. *)
LEMMA TypeOKFacts ==
  ASSUME TypeOK
  PROVE  /\ InScenario /\ StateOK(st) /\ st.tag \in Tags /\ st.cmd \in CommandsOf(st.tag)
         /\ BudgetReadings \subseteq BOOLEAN /\ world.evaluable \subseteq BOOLEAN
<1>1. InScenario /\ StateOK(st)
  BY DEF TypeOK, InScenario
<1>2. st.tag \in Tags /\ st.cmd \in CommandsOf(st.tag)
  BY <1>1 DEF StateOK, States
<1>3. world.budgets \subseteq BOOLEAN /\ world.evaluable \subseteq BOOLEAN
  BY <1>1, ScenarioType
<1>. QED BY <1>1, <1>2, <1>3 DEF BudgetReadings

-----------------------------------------------------------------------------
(* What one step of the reducer is. *)

(***************************************************************************)
(* The tree a turn found is the one the turn before it left, where that is *)
(* known and nothing else writes to it; or no tree could be told.          *)
(***************************************************************************)
Turned(s, e) ==
  LET hashes == s.ctx.diffHashHistory IN
  \/ /\ e.hash \in world.hashes
     /\ \/ world.drift \/ hashes = << >> \/ hashes[Len(hashes)] = SentinelPostHash
        \/ e.prev = hashes[Len(hashes)]
  \/ e.status = "crashed" /\ e.hash = SentinelPostHash

(* The events the command of a state may result in, and what they carry. *)
Answers(s, e) ==
  \/ /\ s.tag = "PLANNING"
     /\ \/ e.tag = "PLAN_COMPILED" /\ e.plan \in world.plans /\ ValidPlan(e.plan)
        \/ e.tag = "PLAN_FAILED"
  \/ /\ s.tag = "AWAIT_PLAN_SEAL"
     /\ e.tag = "PLAN_SEAL_DECIDED" /\ e.decision \in {"approve", "reject", "revise"}
  \/ s.tag = "ADVANCING_PHASE" /\ e.tag = "PHASE_ADVANCED"
  \/ s.tag = "RUNNING_WAVE" /\ e.tag = "WAVE_RAN" /\ e.merged \subseteq s.indices
  \/ /\ s.tag = "COMPILING"
     /\ \/ e.tag = "CONTRACT_COMPILED" /\ e.contract \in world.contracts
        \/ e.tag = "COMPILE_FAILED"
  \/ /\ s.tag = "AWAIT_SEAL"
     /\ e.tag = "SEAL_DECIDED" /\ e.decision \in {"approve", "reject", "revise", "edited"}
  \/ /\ s.tag = "PREPARING" /\ e.tag = "WORKSPACE_PREPARED"
     /\ e.prepared \in {"proceed", "tools-missing", "setup-failed", "contract-unsound"}
  \/ /\ s.tag = "RUNNING_AGENT" /\ e.tag = "AGENT_RAN"
     /\ e.status \in world.statuses /\ e.hash \in TreeHashes /\ e.budget \in BOOLEAN
     /\ Turned(s, e)
  \/ /\ s.tag = "VERIFYING" /\ e.tag = "VERIFIED"
     /\ e.pass \in BOOLEAN /\ e.budget \in BOOLEAN
     /\ ~e.pass => e.detail \in world.details /\ e.evaluable \in BOOLEAN
  \/ /\ s.tag = "AWAIT_SIGNOFF" /\ e.tag = "SIGNOFF_DECIDED"
     /\ e.approval \in {"approve", "veto"} /\ e.budget \in BOOLEAN
  \/ s.tag = "ADJUDICATING" /\ e.tag = "CONTRACT_ADJUDICATED"

(* Every action applies an answer to the command at hand, or the run is over. *)
LEMMA NextIsAnswer ==
  ASSUME TypeOK, Next
  PROVE  (\E e : Apply(e) /\ Answers(st, e)) \/ UNCHANGED vars
<1>0. /\ InScenario /\ StateOK(st) /\ st.tag \in Tags /\ st.cmd \in CommandsOf(st.tag)
      /\ BudgetReadings \subseteq BOOLEAN /\ world.evaluable \subseteq BOOLEAN
  BY TypeOKFacts
<1> DEFINE Goal == (\E e : Apply(e) /\ Answers(st, e)) \/ UNCHANGED vars
<1>. HIDE DEF Goal
<1>1. ASSUME PlanCompiled \/ PlanFailed PROVE Goal
  <2>1. st.tag = "PLANNING"
    BY <1>0, <1>1, CommandTells DEF PlanCompiled, PlanFailed
  <2>2. CASE PlanCompiled
    <3>1. PICK p \in world.plans : ValidPlan(p) /\ Apply([tag |-> "PLAN_COMPILED", plan |-> p])
      BY <2>2 DEF PlanCompiled
    <3>2. Answers(st, [tag |-> "PLAN_COMPILED", plan |-> p])
      BY <2>1, <3>1 DEF Answers
    <3>. QED BY <3>1, <3>2 DEF Goal
  <2>3. CASE PlanFailed
    BY <2>1, <2>3 DEF PlanFailed, Answers, Goal
  <2>. QED BY <1>1, <2>2, <2>3
<1>2. ASSUME PlanSealDecided PROVE Goal
  <2>1. st.tag = "AWAIT_PLAN_SEAL"
    BY <1>0, <1>2, CommandTells DEF PlanSealDecided
  <2>. QED BY <1>2, <2>1 DEF PlanSealDecided, Answers, Goal
<1>3. ASSUME PhaseAdvanced PROVE Goal
  <2>1. st.tag = "ADVANCING_PHASE"
    BY <1>0, <1>3, CommandTells DEF PhaseAdvanced
  <2>. QED BY <1>3, <2>1 DEF PhaseAdvanced, Answers, Goal
<1>4. ASSUME WaveRan PROVE Goal
  <2>1. st.tag = "RUNNING_WAVE"
    BY <1>0, <1>4, CommandTells DEF WaveRan
  <2>. QED BY <1>4, <2>1 DEF WaveRan, Answers, Goal
<1>5. ASSUME ContractCompiled \/ CompileFailed PROVE Goal
  <2>1. st.tag = "COMPILING"
    BY <1>0, <1>5, CommandTells DEF ContractCompiled, CompileFailed
  <2>2. CASE ContractCompiled
    <3>1. PICK c \in world.contracts : Apply([tag |-> "CONTRACT_COMPILED", contract |-> c])
      BY <2>2 DEF ContractCompiled
    <3>2. Answers(st, [tag |-> "CONTRACT_COMPILED", contract |-> c])
      BY <2>1 DEF Answers
    <3>. QED BY <3>1, <3>2 DEF Goal
  <2>3. CASE CompileFailed
    BY <2>1, <2>3 DEF CompileFailed, Answers, Goal
  <2>. QED BY <1>5, <2>2, <2>3
<1>6. ASSUME SealDecided PROVE Goal
  <2>1. st.tag = "AWAIT_SEAL"
    BY <1>0, <1>6, CommandTells DEF SealDecided
  <2>. QED BY <1>6, <2>1 DEF SealDecided, Answers, Goal
<1>7. ASSUME WorkspacePrepared PROVE Goal
  <2>1. st.tag = "PREPARING"
    BY <1>0, <1>7, CommandTells DEF WorkspacePrepared
  <2>. QED BY <1>7, <2>1 DEF WorkspacePrepared, Answers, Goal
<1>8. ASSUME AgentRan PROVE Goal
  <2>1. PICK status \in world.statuses, prev \in PrevHashes, hash \in world.hashes,
             b \in BudgetReadings :
          Apply([tag |-> "AGENT_RAN", status |-> status, prev |-> prev, hash |-> hash,
                 budget |-> b])
    BY <1>8 DEF AgentRan
  <2>2. st.tag = "RUNNING_AGENT" /\ b \in BOOLEAN /\ hash \in TreeHashes
    BY <1>0, <1>8, CommandTells DEF AgentRan, TreeHashes
  <2>3. Turned(st, [tag |-> "AGENT_RAN", status |-> status, prev |-> prev, hash |-> hash,
                    budget |-> b])
    BY <2>1 DEF Turned, PrevHashes
  <2>4. Answers(st, [tag |-> "AGENT_RAN", status |-> status, prev |-> prev, hash |-> hash,
                     budget |-> b])
    BY <2>2, <2>3 DEF Answers
  <2>. QED BY <2>1, <2>4 DEF Goal
<1>9. ASSUME WorkspaceErrorRan PROVE Goal
  <2>1. PICK b \in BudgetReadings :
          Apply([tag |-> "AGENT_RAN", status |-> "crashed", prev |-> SentinelPrevHash,
                 hash |-> SentinelPostHash, budget |-> b])
    BY <1>9 DEF WorkspaceErrorRan
  <2>2. /\ st.tag = "RUNNING_AGENT" /\ b \in BOOLEAN /\ SentinelPostHash \in TreeHashes
        /\ "crashed" \in world.statuses
    BY <1>0, <1>9, CommandTells DEF WorkspaceErrorRan, TreeHashes
  <2>3. Answers(st, [tag |-> "AGENT_RAN", status |-> "crashed", prev |-> SentinelPrevHash,
                     hash |-> SentinelPostHash, budget |-> b])
    BY <2>2 DEF Answers, Turned
  <2>. QED BY <2>1, <2>3 DEF Goal
<1>10. ASSUME VerifiedGreen \/ VerifiedRed PROVE Goal
  <2>1. st.tag = "VERIFYING"
    BY <1>0, <1>10, CommandTells DEF VerifiedGreen, VerifiedRed
  <2>2. CASE VerifiedGreen
    <3>1. PICK b \in BudgetReadings : Apply([tag |-> "VERIFIED", pass |-> TRUE, budget |-> b])
      BY <2>2 DEF VerifiedGreen
    <3>2. Answers(st, [tag |-> "VERIFIED", pass |-> TRUE, budget |-> b])
      BY <1>0, <2>1 DEF Answers
    <3>. QED BY <3>1, <3>2 DEF Goal
  <2>3. CASE VerifiedRed
    <3>1. PICK d \in world.details, ev \in world.evaluable, b \in BudgetReadings :
            Apply([tag |-> "VERIFIED", pass |-> FALSE, detail |-> d, evaluable |-> ev,
                   budget |-> b])
      BY <2>3 DEF VerifiedRed
    <3>2. Answers(st, [tag |-> "VERIFIED", pass |-> FALSE, detail |-> d, evaluable |-> ev,
                       budget |-> b])
      BY <1>0, <2>1 DEF Answers
    <3>. QED BY <3>1, <3>2 DEF Goal
  <2>. QED BY <1>10, <2>2, <2>3
<1>11. ASSUME SignoffDecided PROVE Goal
  <2>1. PICK a \in {"approve", "veto"}, b \in BudgetReadings :
          Apply([tag |-> "SIGNOFF_DECIDED", approval |-> a, budget |-> b])
    BY <1>11 DEF SignoffDecided
  <2>2. st.tag = "AWAIT_SIGNOFF" /\ b \in BOOLEAN
    BY <1>0, <1>11, CommandTells DEF SignoffDecided
  <2>3. Answers(st, [tag |-> "SIGNOFF_DECIDED", approval |-> a, budget |-> b])
    BY <2>2 DEF Answers
  <2>. QED BY <2>1, <2>3 DEF Goal
<1>12. ASSUME ContractAdjudicated PROVE Goal
  <2>1. st.tag = "ADJUDICATING"
    BY <1>0, <1>12, CommandTells DEF ContractAdjudicated
  <2>. QED BY <1>12, <2>1 DEF ContractAdjudicated, Answers, Goal
<1>13. ASSUME Finished PROVE Goal
  BY <1>13 DEF Finished, Goal
<1>14. Goal
  BY <1>1, <1>2, <1>3, <1>4, <1>5, <1>6, <1>7, <1>8, <1>9, <1>10, <1>11, <1>12, <1>13 DEF Next
<1>. QED BY <1>14 DEF Goal

-----------------------------------------------------------------------------
(* Type correctness. *)

(* The initial state of every scenario is well formed. *)
LEMMA InitType == Init => TypeOK
<1> SUFFICES ASSUME Init PROVE TypeOK
  OBVIOUS
<1>1. InScenario
  <2>1. PICK s \in Scenarios : config = s.config /\ world = s.world
    BY DEF Init
  <2>. QED BY <2>1, WellFormedScenarios DEF ScenariosAssumption, InScenario
<1>2. StateOK(State("PLANNING", "COMPILE_PLAN"))
  BY <1>1, StateType DEF Tags, CommandsOf, Commands, LoopTags, TerminalTags
<1>3. StateOK(State("COMPILING", "COMPILE_VERIFIER"))
  BY <1>1, StateType DEF Tags, CommandsOf, Commands, LoopTags, TerminalTags
<1>4. StateOK(st)
  BY <1>2, <1>3 DEF Init, InitialState
<1>. QED BY <1>1, <1>4 DEF TypeOK, InScenario

(* The answer to a state's command leads to a well-formed state. *)
LEMMA StepType ==
  ASSUME InScenario, NEW s, StateOK(s), NEW e, Answers(s, e)
  PROVE  StateOK(Step(config, s, e))
<1>1. CASE s.tag = "PLANNING"
  BY <1>1, StepPlanningType DEF Answers, Step
<1>2. CASE s.tag = "AWAIT_PLAN_SEAL"
  BY <1>2, StepAwaitPlanSealType DEF Answers, Step
<1>3. CASE s.tag = "ADVANCING_PHASE"
  BY <1>3, StepAdvancingPhaseType DEF Answers, Step
<1>4. CASE s.tag = "RUNNING_WAVE"
  BY <1>4, StepRunningWaveType DEF Answers, Step
<1>5. CASE s.tag = "COMPILING"
  BY <1>5, StepCompilingType DEF Answers, Step
<1>6. CASE s.tag = "AWAIT_SEAL"
  BY <1>6, StepAwaitSealType DEF Answers, Step
<1>7. CASE s.tag = "PREPARING"
  BY <1>7, StepPreparingType DEF Answers, Step
<1>8. CASE s.tag = "RUNNING_AGENT"
  BY <1>8, StepRunningAgentType DEF Answers, Step
<1>9. CASE s.tag = "VERIFYING"
  BY <1>9, StepVerifyingType DEF Answers, Step
<1>10. CASE s.tag = "AWAIT_SIGNOFF"
  BY <1>10, StepAwaitSignoffType DEF Answers, Step
<1>11. CASE s.tag = "ADJUDICATING"
  BY <1>11, StepAdjudicatingType DEF Answers, Step
<1>. QED BY <1>1, <1>2, <1>3, <1>4, <1>5, <1>6, <1>7, <1>8, <1>9, <1>10, <1>11 DEF Answers

(* Every action leads from a well-formed state to a well-formed one. *)
LEMMA NextType == TypeOK /\ [Next]_vars => TypeOK'
<1> SUFFICES ASSUME TypeOK, [Next]_vars PROVE TypeOK'
  OBVIOUS
<1>1. InScenario /\ StateOK(st)
  BY TypeOKFacts
<1>2. CASE \E e : Apply(e) /\ Answers(st, e)
  BY <1>1, <1>2, StepType, NextStateType
<1>3. CASE UNCHANGED vars
  <2>1. UNCHANGED << config, world, st >>
    BY <1>3 DEF vars
  <2>2. StateOK(st)'
    BY <1>1, <2>1 DEF StateOK, States, Phases, Ctxs, Signatures, TreeHashes, PhaseOK
  <2>. QED BY <2>1, <2>2 DEF TypeOK
<1>. QED BY <1>2, <1>3, NextIsAnswer

(***************************************************************************)
(* The reducer's state is well formed in every run: it waits for a command *)
(* of its own, holds a frozen contract wherever work happens, stays inside *)
(* the plan, and no retry counter passes its cap.                          *)
(***************************************************************************)
THEOREM TypeCorrect == Spec => []TypeOK
<1>1. Init => TypeOK
  BY InitType
<1>2. TypeOK /\ [Next]_vars => TypeOK'
  BY NextType
<1>. QED BY <1>1, <1>2, PTL DEF Spec

-----------------------------------------------------------------------------
(***************************************************************************)
(* The turn loop.  The operator's caps hold in every run: no turn starts   *)
(* over budget, and no contract takes more turns than its iteration cap and *)
(* the self-recoveries it spent allow.  The backstops hold too: no streak of *)
(* crashed turns, of repeated or unevaluable verdicts or of vetoes passes its *)
(* threshold by more than the recoveries that were spent on it.            *)
(***************************************************************************)

(* The inductive invariant. *)

(* Every self-recovery is counted in the total, and the total has its cap. *)
LedgerOK(ledger) ==
  /\ ledger.total <= (IF config.autoRemediate THEN MaxStuckRemediations ELSE 0)
  /\ ledger.noDiff <= ledger.total

(* Between turns the count may stand at the cap, moved by what was spent. *)
CtxOK(ctx) ==
  /\ LedgerOK(ctx.remediations)
  /\ ctx.iteration <= config.maxIterations + ctx.remediations.total

(* A turn that starts has an iteration left, and no reading over budget. *)
ReadyOK(ctx) ==
  /\ LedgerOK(ctx.remediations)
  /\ ctx.iteration < config.maxIterations + ctx.remediations.total
  /\ ~ctx.lastBudget

LoopOK(s) ==
  /\ s.tag \in LoopTags => CtxOK(s.ctx)
  /\ s.tag = "RUNNING_AGENT" => ReadyOK(s.ctx)

LoopInv == TypeOK /\ LoopOK(st)

-----------------------------------------------------------------------------
(* DECIDE. *)

(* The budget detector is consulted first, so no other one can mask it. *)
LEMMA BudgetFirst ==
  ASSUME NEW cfg, NEW ctx, ctx.lastBudget
  PROVE  DetectStuck(cfg, ctx) = "budget"
<1> DEFINE tripped == { i \in 1 .. Len(StuckOrder) : Trips(cfg, ctx, StuckOrder[i]) }
<1>1. Len(StuckOrder) = 7 /\ StuckOrder[1] = "budget"
  BY DEF StuckOrder
<1>2. Trips(cfg, ctx, "budget")
  BY DEF Trips
<1>3. 1 \in tripped /\ tripped \subseteq Nat
  BY <1>1, <1>2
<1>4. Min(tripped) \in tripped /\ Min(tripped) <= 1
  BY <1>3, MinOfNats
<1>5. Min(tripped) = 1
  BY <1>1, <1>4
<1>. QED BY <1>1, <1>3, <1>5 DEF DetectStuck

(* When the loop goes on: within the cap, or on a self-recovery just spent. *)
LEMMA DecideContinue ==
  ASSUME NEW cfg \in Configs, NEW contract, NEW ctx \in Ctxs,
         NEW pass \in BOOLEAN, NEW approval,
         Decide(cfg, contract, ctx, pass, approval).kind = "CONTINUE"
  PROVE  LET d    == Decide(cfg, contract, ctx, pass, approval)
             kind == DetectStuck(cfg, ctx)
         IN  /\ ~ctx.lastBudget
             /\ \/ Remediable(cfg, ctx, kind) /\ d.ledger = Spent(ctx.remediations, kind)
                \/ ctx.iteration < IterationCap(cfg, ctx) /\ d.ledger = ctx.remediations
<1> DEFINE d       == Decide(cfg, contract, ctx, pass, approval)
           kind    == DetectStuck(cfg, ctx)
           stuck   == kind # "none" /\ ~(kind = "no-diff" /\ FreshVeto(ctx, pass, approval))
           twoKeys == pass /\ approval = "approve"
<1>0. ctx.iteration \in Int /\ IterationCap(cfg, ctx) \in Int
  BY CapType
<1>1. CASE twoKeys
  BY <1>1 DEF Decide, Decision
<1>2. CASE ~twoKeys /\ stuck
  <2>1. Remediable(cfg, ctx, kind) /\ d.ledger = Spent(ctx.remediations, kind)
    BY <1>2 DEF Decide, Decision
  <2>2. kind # "budget"
    BY <2>1 DEF Remediable
  <2>. QED BY <2>1, <2>2, BudgetFirst
<1>3. CASE ~twoKeys /\ ~stuck
  <2>1. ctx.iteration < IterationCap(cfg, ctx) /\ d.ledger = ctx.remediations
    BY <1>0, <1>3 DEF Decide, Decision
  <2>2. kind # "budget"
    BY <1>3
  <2>. QED BY <2>1, <2>2, BudgetFirst
<1>. QED BY <1>1, <1>2, <1>3

(* A decision to go on starts a turn the caps allow. *)
LEMMA ContinueReady ==
  ASSUME InScenario, NEW contract, NEW ctx \in Ctxs, CtxOK(ctx),
         NEW pass \in BOOLEAN, NEW approval, NEW source,
         Decide(config, contract, ctx, pass, approval).kind = "CONTINUE"
  PROVE  LET d == Decide(config, contract, ctx, pass, approval)
         IN  ReadyOK([ctx EXCEPT !.feedbackSource = source, !.remediations = d.ledger])
<1> DEFINE d    == Decide(config, contract, ctx, pass, approval)
           kind == DetectStuck(config, ctx)
           old  == ctx.remediations
           next == [ctx EXCEPT !.feedbackSource = source, !.remediations = d.ledger]
<1>1. config \in Configs /\ old \in Ledgers /\ ctx.iteration \in Nat
  BY ScenarioType DEF Ctxs
<1>2. /\ ~ctx.lastBudget
      /\ \/ Remediable(config, ctx, kind) /\ d.ledger = Spent(old, kind)
         \/ ctx.iteration < IterationCap(config, ctx) /\ d.ledger = old
  BY <1>1, DecideContinue
<1>. HIDE DEF d, kind
<1>3. /\ next.iteration = ctx.iteration /\ next.lastBudget = ctx.lastBudget
      /\ next.remediations = d.ledger
  BY DEF Ctxs
<1>4. /\ old.total \in Nat /\ old.noDiff \in Nat /\ config.maxIterations \in Nat
      /\ old.noDiff <= old.total
      /\ old.total <= (IF config.autoRemediate THEN MaxStuckRemediations ELSE 0)
      /\ ctx.iteration <= config.maxIterations + old.total
  BY <1>1 DEF Ledgers, Configs, CtxOK, LedgerOK
<1>. HIDE DEF next
<1>5. ASSUME Remediable(config, ctx, kind), d.ledger = Spent(old, kind)
      PROVE  ReadyOK(next)
  <2>1. config.autoRemediate /\ old.total < MaxStuckRemediations
    BY <1>5 DEF Remediable
  <2>2. d.ledger.total = old.total + 1 /\ d.ledger.noDiff <= old.noDiff + 1
    BY <1>4, <1>5 DEF Spent
  <2>3. d.ledger.noDiff \in Nat
    BY <1>4, <1>5 DEF Spent
  <2>4. LedgerOK(d.ledger)
    BY <1>4, <2>1, <2>2, <2>3 DEF LedgerOK, MaxStuckRemediations
  <2>. QED BY <1>1, <1>2, <1>3, <1>4, <2>2, <2>4 DEF ReadyOK
<1>6. ASSUME ctx.iteration < IterationCap(config, ctx), d.ledger = old
      PROVE  ReadyOK(next)
  <2>1. ctx.iteration < config.maxIterations + old.total
    BY <1>1, <1>4, <1>6 DEF IterationCap
  <2>2. LedgerOK(d.ledger)
    BY <1>6 DEF CtxOK
  <2>. QED BY <1>2, <1>3, <1>6, <2>1, <2>2 DEF ReadyOK
<1>7. ReadyOK(next)
  BY <1>2, <1>5, <1>6
<1>. QED BY <1>7 DEF next, d

-----------------------------------------------------------------------------
(* Every step function keeps the loop within its caps. *)

(* The context of a contract's first turn. *)
LEMMA InitialReady ==
  ASSUME InScenario
  PROVE  ReadyOK(InitialCtx)
<1>1. config.maxIterations \in Nat \ {0}
  BY ScenarioType DEF Configs
<1>. QED BY <1>1 DEF ReadyOK, LedgerOK, InitialCtx, NoRemediations, MaxStuckRemediations

(* A turn that may start is one the caps allow between turns, too. *)
LEMMA StartIterationReady ==
  ASSUME InScenario, NEW contract, NEW phase, NEW ctx \in Ctxs, ReadyOK(ctx)
  PROVE  LoopOK(StartIteration(config, contract, phase, ctx))
<1>1. StartIteration(config, contract, phase, ctx).ctx = ctx
  BY DEF StartIteration, State
<1>2. config \in Configs /\ ctx.iteration \in Nat /\ ctx.remediations.total \in Nat
  BY ScenarioType DEF Ctxs, Ledgers
<1>3. CtxOK(ctx)
  BY <1>2 DEF ReadyOK, CtxOK, Configs
<1>. QED BY <1>1, <1>3 DEF LoopOK

(* Whatever leaves the loop has no caps to keep. *)
LEMMA OutsideLoop ==
  ASSUME NEW s, s.tag \notin LoopTags
  PROVE  LoopOK(s)
BY DEF LoopOK, LoopTags

(* The states outside the loop that the reducer builds are outside it. *)
LEMMA BuiltOutsideLoop ==
  ASSUME NEW cfg, NEW s, NEW phase, NEW ctx, NEW contract, NEW cmd, NEW reason,
         NEW a, NEW b, NEW n, NEW tag \in TerminalTags
  PROVE  /\ StartPhaseCompile(cfg, phase).tag \notin LoopTags
         /\ Planning(a, b).tag \notin LoopTags
         /\ Compiling(cmd, phase, a, b).tag \notin LoopTags
         /\ Stopped(tag, reason, contract, n).tag \notin LoopTags
         /\ PhaseDone(s, ctx).tag \notin LoopTags
<1>1. /\ Planning(a, b).tag \notin LoopTags
      /\ Compiling(cmd, phase, a, b).tag \notin LoopTags
      /\ Stopped(tag, reason, contract, n).tag \notin LoopTags
  BY DEF Planning, Compiling, Stopped, State, LoopTags, TerminalTags
<1>2. StartPhaseCompile(cfg, phase).tag \notin LoopTags
  BY DEF StartPhaseCompile, Compiling, State, LoopTags
<1>3. PhaseDone(s, ctx).tag \notin LoopTags
  BY DEF PhaseDone, Stopped, State, LoopTags
<1>. QED BY <1>1, <1>2, <1>3

(* Planning and its Seal never start a turn. *)
LEMMA PlanStepsLoopOK ==
  ASSUME InScenario, NEW s, StateOK(s), NEW e
  PROVE  /\ e.tag \in {"PLAN_COMPILED", "PLAN_FAILED"} => LoopOK(StepPlanning(config, s, e))
         /\ e.decision \in {"approve", "reject", "revise"}
            => LoopOK(StepAwaitPlanSeal(config, s, e))
<1>1. /\ config.maxPlanRetries \in Nat /\ config.maxPlanRevisions \in Nat
      /\ s.planRound \in Nat /\ s.reviseRound \in Nat
  BY ScenarioType DEF Configs, StateOK, States
<1>2. "FAILED" \in TerminalTags /\ "ABORTED" \in TerminalTags
  BY DEF TerminalTags
<1>3. ASSUME e.tag \in {"PLAN_COMPILED", "PLAN_FAILED"}
      PROVE  StepPlanning(config, s, e).tag \notin LoopTags
  <2>1. CASE e.tag = "PLAN_COMPILED"
    BY <2>1 DEF StepPlanning, State, LoopTags
  <2>2. CASE e.tag = "PLAN_FAILED"
    BY <1>1, <1>2, <2>2, BuiltOutsideLoop DEF StepPlanning
  <2>. QED BY <1>3, <2>1, <2>2
<1>4. ASSUME e.decision \in {"approve", "reject", "revise"}
      PROVE  StepAwaitPlanSeal(config, s, e).tag \notin LoopTags
  BY <1>1, <1>2, <1>4, BuiltOutsideLoop DEF StepAwaitPlanSeal
<1>. QED BY <1>3, <1>4, OutsideLoop

(* Compiling leads to the Seal, to another attempt or to the end of the run. *)
LEMMA StepCompilingLoopOK ==
  ASSUME InScenario, NEW s, StateOK(s),
         NEW e, e.tag \in {"CONTRACT_COMPILED", "COMPILE_FAILED"}
  PROVE  LoopOK(StepCompiling(config, s, e))
<1>1. config.maxCompileRetries \in Nat /\ s.compileRound \in Nat /\ "FAILED" \in TerminalTags
  BY ScenarioType DEF Configs, StateOK, States, TerminalTags
<1>2. CASE e.tag = "CONTRACT_COMPILED"
  BY <1>2, OutsideLoop DEF StepCompiling, State, LoopTags
<1>3. CASE e.tag = "COMPILE_FAILED"
  BY <1>1, <1>3, BuiltOutsideLoop, OutsideLoop DEF StepCompiling
<1>. QED BY <1>2, <1>3

(* An approved contract starts its first turn, at once or once prepared. *)
LEMMA StepAwaitSealLoopOK ==
  ASSUME InScenario, NEW s, StateOK(s),
         NEW e, e.decision \in {"approve", "reject", "revise", "edited"}
  PROVE  LoopOK(StepAwaitSeal(config, s, e))
<1>1. /\ config.maxSealRevisions \in Nat /\ s.reviseRound \in Nat /\ "ABORTED" \in TerminalTags
  BY ScenarioType DEF Configs, StateOK, States, TerminalTags
<1>2. CASE e.decision = "approve" /\ NeedsPreparation(s.contract)
  BY <1>2, OutsideLoop DEF StepAwaitSeal, State, LoopTags
<1>3. CASE e.decision = "approve" /\ ~NeedsPreparation(s.contract)
  <2>1. StepAwaitSeal(config, s, e) = StartIteration(config, s.contract, s.phase, InitialCtx)
    BY <1>3 DEF StepAwaitSeal
  <2>. QED BY <2>1, InitialReady, InitialCtxType, StartIterationReady
<1>4. CASE e.decision \in {"reject", "revise", "edited"}
  BY <1>1, <1>4, BuiltOutsideLoop, OutsideLoop DEF StepAwaitSeal
<1>. QED BY <1>2, <1>3, <1>4

(* A prepared workspace starts the first turn; an unfit one ends the run. *)
LEMMA StepPreparingLoopOK ==
  ASSUME InScenario, NEW s, NEW e
  PROVE  LoopOK(StepPreparing(config, s, e))
<1>1. CASE e.prepared = "proceed"
  BY <1>1, InitialReady, InitialCtxType, StartIterationReady DEF StepPreparing
<1>2. CASE e.prepared # "proceed"
  <2>1. "FAILED" \in TerminalTags
    BY DEF TerminalTags
  <2>. QED BY <1>2, <2>1, BuiltOutsideLoop, OutsideLoop DEF StepPreparing
<1>. QED BY <1>1, <1>2

(* A turn takes at most the iteration it was started with. *)
LEMMA StepRunningAgentLoopOK ==
  ASSUME InScenario, NEW s, StateOK(s), s.tag = "RUNNING_AGENT", LoopOK(s), NEW e
  PROVE  LoopOK(StepRunningAgent(config, s, e))
<1> DEFINE t    == StepRunningAgent(config, s, e)
           next == AfterTurn(s.ctx, e)
<1>1. s \in States /\ s.ctx \in Ctxs /\ config \in Configs
  BY ScenarioType DEF StateOK, States
<1>2. t.tag = "VERIFYING" /\ t.ctx = next
  BY <1>1 DEF StepRunningAgent, States
<1>3. /\ next.remediations = s.ctx.remediations /\ next.iteration \in Nat
      /\ next.iteration <= s.ctx.iteration + 1
  BY <1>1 DEF AfterTurn, Ctxs
<1>4. ReadyOK(s.ctx)
  BY DEF LoopOK
<1>5. s.ctx.iteration \in Nat /\ s.ctx.remediations.total \in Nat /\ config.maxIterations \in Nat
  BY <1>1 DEF Ctxs, Ledgers, Configs
<1>. HIDE DEF next, t
<1>6. CtxOK(next)
  BY <1>3, <1>4, <1>5 DEF ReadyOK, CtxOK
<1>7. LoopOK(t)
  BY <1>2, <1>6 DEF LoopOK
<1>. QED BY <1>7 DEF t

(* Judging a turn keeps the caps: its context is only read, then decided on. *)
LEMMA ApplyDecisionLoopOK ==
  ASSUME InScenario, NEW s, StateOK(s), NEW ctx \in Ctxs, CtxOK(ctx),
         NEW pass \in BOOLEAN, NEW approval
  PROVE  LoopOK(ApplyDecision(config, s, ctx, Decide(config, s.contract, ctx, pass, approval)))
<1> DEFINE d == Decide(config, s.contract, ctx, pass, approval)
           t == ApplyDecision(config, s, ctx, d)
<1>1. s \in States /\ config \in Configs
  BY ScenarioType DEF StateOK
<1>2. d \in Decisions
  BY <1>1, DecideType
<1>3. ASSUME d.kind = "CONTINUE" PROVE LoopOK(t)
  <2> DEFINE next == [ctx EXCEPT !.feedbackSource = d.source, !.remediations = d.ledger]
  <2>1. next \in Ctxs
    <3>. HIDE DEF d
    <3>. QED BY <1>2 DEF Ctxs, Decisions
  <2>2. ReadyOK(next)
    BY <1>3, ContinueReady
  <2>3. t = StartIteration(config, s.contract, s.phase, next)
    <3>. HIDE DEF d
    <3>. QED BY <1>3 DEF ApplyDecision
  <2>. HIDE DEF next, t, d
  <2>. QED BY <2>1, <2>2, <2>3, StartIterationReady
<1>. HIDE DEF d
<1>4. ASSUME d.kind = "DONE" PROVE LoopOK(t)
  <2>1. t = PhaseDone(s, ctx)
    BY <1>4 DEF ApplyDecision
  <2>2. PhaseDone(s, ctx).tag \notin LoopTags
    BY BuiltOutsideLoop DEF TerminalTags
  <2>. QED BY <2>1, <2>2, OutsideLoop
<1>5. ASSUME d.kind = "ADJUDICATE" PROVE LoopOK(t)
  <2> DEFINE next == [ctx EXCEPT !.adjudicated = TRUE]
  <2>1. t.tag = "ADJUDICATING" /\ t.ctx = next
    BY <1>1, <1>5 DEF ApplyDecision, States
  <2>2. next.iteration = ctx.iteration /\ next.remediations = ctx.remediations
    BY DEF Ctxs
  <2>. HIDE DEF next, t
  <2>3. CtxOK(next)
    BY <2>2 DEF CtxOK
  <2>. QED BY <2>1, <2>3 DEF LoopOK
<1>6. ASSUME d.kind \in {"FAILED", "ABORTED"} PROVE LoopOK(t)
  <2>1. t = Stopped(d.kind, d.reason, s.contract, ctx.iteration)
    BY <1>6 DEF ApplyDecision
  <2>2. d.kind \in TerminalTags
    BY <1>6 DEF TerminalTags
  <2>3. Stopped(d.kind, d.reason, s.contract, ctx.iteration).tag \notin LoopTags
    BY <2>2, BuiltOutsideLoop
  <2>. QED BY <2>1, <2>3, OutsideLoop
<1>7. d.kind \in {"CONTINUE", "DONE", "ADJUDICATE", "FAILED", "ABORTED"}
  BY <1>2 DEF Decisions
<1>8. LoopOK(t)
  <2>. HIDE DEF t
  <2>. QED BY <1>3, <1>4, <1>5, <1>6, <1>7
<1>. QED BY <1>8 DEF d

(* A verdict keeps the caps, and a red one is decided on at once. *)
LEMMA StepVerifyingLoopOK ==
  ASSUME InScenario, NEW s, StateOK(s), s.tag = "VERIFYING", LoopOK(s),
         NEW e, e.pass \in BOOLEAN, e.budget \in BOOLEAN,
         ~e.pass => e.detail \in world.details /\ e.evaluable \in BOOLEAN
  PROVE  LoopOK(StepVerifying(config, s, e))
<1>1. s \in States /\ s.ctx \in Ctxs /\ CtxOK(s.ctx)
  BY DEF StateOK, States, LoopOK, LoopTags
<1>2. CASE e.pass
  <2> DEFINE next == AfterGreen(s.ctx, e)
  <2>1. next.iteration = s.ctx.iteration /\ next.remediations = s.ctx.remediations
    BY <1>1 DEF AfterGreen, Ctxs
  <2>2. /\ StepVerifying(config, s, e).tag = "AWAIT_SIGNOFF"
        /\ StepVerifying(config, s, e).ctx = next
    BY <1>1, <1>2 DEF StepVerifying, States
  <2>. HIDE DEF next
  <2>3. CtxOK(next)
    BY <1>1, <2>1 DEF CtxOK
  <2>. QED BY <2>2, <2>3 DEF LoopOK
<1>3. CASE ~e.pass
  <2> DEFINE next == AfterRed(s.ctx, e)
  <2>1. next \in Ctxs
    BY <1>1, <1>3, CtxTypes
  <2>2. next.iteration = s.ctx.iteration /\ next.remediations = s.ctx.remediations
    BY <1>1 DEF AfterRed, Ctxs
  <2>3. StepVerifying(config, s, e)
          = ApplyDecision(config, s, next, Decide(config, s.contract, next, FALSE, "none"))
    BY <1>3 DEF StepVerifying
  <2>. HIDE DEF next
  <2>4. CtxOK(next)
    BY <1>1, <2>2 DEF CtxOK
  <2>5. LoopOK(ApplyDecision(config, s, next, Decide(config, s.contract, next, FALSE, "none")))
    BY <2>1, <2>4, ApplyDecisionLoopOK
  <2>. QED BY <2>3, <2>5
<1>. QED BY <1>2, <1>3

(* So does Sign-off. *)
LEMMA StepAwaitSignoffLoopOK ==
  ASSUME InScenario, NEW s, StateOK(s), s.tag = "AWAIT_SIGNOFF", LoopOK(s),
         NEW e, e.budget \in BOOLEAN
  PROVE  LoopOK(StepAwaitSignoff(config, s, e))
<1> DEFINE next == [s.ctx EXCEPT !.lastBudget = e.budget]
           pass == next.lastVerdict = "pass"
<1>1. s \in States /\ s.ctx \in Ctxs /\ CtxOK(s.ctx)
  BY DEF StateOK, States, LoopOK, LoopTags
<1>2. next \in Ctxs
  BY <1>1 DEF Ctxs
<1>3. next.iteration = s.ctx.iteration /\ next.remediations = s.ctx.remediations
  BY <1>1 DEF Ctxs
<1>4. StepAwaitSignoff(config, s, e)
        = ApplyDecision(config, s, next, Decide(config, s.contract, next, pass, e.approval))
  BY DEF StepAwaitSignoff
<1>5. pass \in BOOLEAN
  OBVIOUS
<1>. HIDE DEF next, pass
<1>6. CtxOK(next)
  BY <1>1, <1>3 DEF CtxOK
<1>7. LoopOK(ApplyDecision(config, s, next, Decide(config, s.contract, next, pass, e.approval)))
  BY <1>2, <1>5, <1>6, ApplyDecisionLoopOK
<1>. QED BY <1>4, <1>7

(* The caps carry over to the next state with the constants of the run. *)
LEMMA NextLoopOK ==
  ASSUME NEW e, Apply(e), LoopOK(Step(config, st, e))
  PROVE  LoopOK(st)'
<1>1. st' = Step(config, st, e) /\ config' = config
  BY DEF Apply
<1>2. LoopOK(st')
  BY <1>1
<1>. QED BY <1>1, <1>2 DEF LoopOK, CtxOK, ReadyOK, LedgerOK

-----------------------------------------------------------------------------
(* The theorems. *)

(* No run starts in the loop. *)
LEMMA LoopInvInit == Init => LoopInv
<1> SUFFICES ASSUME Init PROVE LoopInv
  OBVIOUS
<1>1. st.tag \notin LoopTags
  BY DEF Init, InitialState, State, LoopTags
<1>. QED BY <1>1, InitType, OutsideLoop DEF LoopInv

(* The answer to a state's command keeps the caps. *)
LEMMA StepLoopOK ==
  ASSUME InScenario, NEW s, StateOK(s), LoopOK(s), NEW e, Answers(s, e)
  PROVE  LoopOK(Step(config, s, e))
<1>1. CASE s.tag \in {"PLANNING", "AWAIT_PLAN_SEAL"}
  BY <1>1, PlanStepsLoopOK DEF Answers, Step
<1>2. CASE s.tag \in {"ADVANCING_PHASE", "RUNNING_WAVE", "ADJUDICATING"}
  <2>1. Step(config, s, e).tag \notin LoopTags
    BY <1>2, BuiltOutsideLoop
       DEF Step, StepAdvancingPhase, StepRunningWave, StepAdjudicating, TerminalTags
  <2>. QED BY <2>1, OutsideLoop
<1>3. CASE s.tag = "COMPILING"
  BY <1>3, StepCompilingLoopOK DEF Answers, Step
<1>4. CASE s.tag = "AWAIT_SEAL"
  BY <1>4, StepAwaitSealLoopOK DEF Answers, Step
<1>5. CASE s.tag = "PREPARING"
  BY <1>5, StepPreparingLoopOK DEF Step
<1>6. CASE s.tag = "RUNNING_AGENT"
  BY <1>6, StepRunningAgentLoopOK DEF Step
<1>7. CASE s.tag = "VERIFYING"
  BY <1>7, StepVerifyingLoopOK DEF Answers, Step
<1>8. CASE s.tag = "AWAIT_SIGNOFF"
  BY <1>8, StepAwaitSignoffLoopOK DEF Answers, Step
<1>. QED BY <1>1, <1>2, <1>3, <1>4, <1>5, <1>6, <1>7, <1>8 DEF Answers

(* Every action keeps the caps. *)
LEMMA LoopInvNext == LoopInv /\ [Next]_vars => LoopInv'
<1> SUFFICES ASSUME LoopInv, [Next]_vars PROVE LoopInv'
  OBVIOUS
<1>1. TypeOK /\ InScenario /\ StateOK(st) /\ LoopOK(st)
  BY TypeOKFacts DEF LoopInv
<1>2. TypeOK'
  BY <1>1, NextType
<1>3. LoopOK(st)'
  <2>1. CASE \E e : Apply(e) /\ Answers(st, e)
    BY <1>1, <2>1, StepLoopOK, NextLoopOK
  <2>2. CASE UNCHANGED vars
    BY <1>1, <2>2 DEF vars, LoopOK, CtxOK, ReadyOK, LedgerOK
  <2>. QED BY <1>1, <2>1, <2>2, NextIsAnswer
<1>. QED BY <1>2, <1>3 DEF LoopInv

(* The caps hold throughout every run. *)
LEMMA LoopInvariant == Spec => []LoopInv
<1>1. Init => LoopInv
  BY LoopInvInit
<1>2. LoopInv /\ [Next]_vars => LoopInv'
  BY LoopInvNext
<1>. QED BY <1>1, <1>2, PTL DEF Spec

(***************************************************************************)
(* No agent turn starts once a reading said the budget is exceeded: the    *)
(* budget detector is consulted before any that could be remediated or     *)
(* excused, whatever the thresholds and the results of the commands.       *)
(***************************************************************************)
THEOREM BudgetIsHard == Spec => []NoTurnOverBudget
<1>1. LoopInv => NoTurnOverBudget
  BY DEF LoopInv, LoopOK, ReadyOK, NoTurnOverBudget
<1>. QED BY <1>1, LoopInvariant, PTL

(***************************************************************************)
(* No contract takes more iterations than maxIterations and the            *)
(* self-recoveries it spent, and it spends none unless the operator opted  *)
(* in, whatever the thresholds and the results of the commands.            *)
(***************************************************************************)
THEOREM CapIsHard == Spec => []IterationsWithinCap
<1>1. LoopInv => IterationsWithinCap
  <2> SUFFICES ASSUME LoopInv, st.tag \in LoopTags
               PROVE  IterationsWithinCap
    BY DEF IterationsWithinCap
  <2>1. CtxOK(st.ctx) /\ (st.tag = "RUNNING_AGENT" => ReadyOK(st.ctx))
    BY DEF LoopInv, LoopOK
  <2>. QED BY <2>1 DEF CtxOK, ReadyOK, LedgerOK, IterationsWithinCap
<1>. QED BY <1>1, LoopInvariant, PTL

-----------------------------------------------------------------------------
(* Streaks. *)

LEMMA MaxOfNats ==
  ASSUME NEW n \in Nat, NEW S, S \subseteq 0 .. n, S # {}
  PROVE  Max(S) \in S /\ \A x \in S : x <= Max(S)
<1> DEFINE T == { n - x : x \in S }
<1>0. \A x \in S : x \in Nat /\ x <= n /\ n - x \in Nat
  OBVIOUS
<1>1. T \subseteq Nat /\ T # {}
  <2>1. \A y \in T : y \in Nat
    BY <1>0
  <2>2. PICK x \in S : TRUE
    OBVIOUS
  <2>3. n - x \in T
    BY <2>2
  <2>. HIDE DEF T
  <2>. QED BY <2>1, <2>3
<1>2. PICK m \in S : \A x \in S : n - m <= n - x
  <2>. HIDE DEF T
  <2>1. Min(T) \in T /\ \A y \in T : Min(T) <= y
    BY <1>1, MinOfNats
  <2>2. PICK m \in S : n - m = Min(T)
    BY <2>1 DEF T
  <2>3. \A x \in S : n - x \in T
    BY DEF T
  <2>. QED BY <2>1, <2>2, <2>3
<1>3. \A x \in S : m >= x
  BY <1>0, <1>2
<1>. QED BY <1>0, <1>3 DEF Max

(* The length of the longest tail of a history within a set. *)
Tails(h, S)  == { n \in 0 .. Len(h) : \A i \in TailPositions(h, n) : h[i] \in S }
Streak(h, S) == Max(Tails(h, S))

LEMMA StreakIs ==
  ASSUME NEW X, NEW h \in Seq(X), NEW S
  PROVE  /\ Streak(h, S) \in Nat /\ Streak(h, S) \in Tails(h, S)
         /\ \A n \in Tails(h, S) : n <= Streak(h, S)
<1>1. Len(h) \in Nat /\ Tails(h, S) \subseteq 0 .. Len(h)
  BY DEF Tails
<1>2. 0 \in Tails(h, S)
  BY <1>1 DEF Tails, TailPositions
<1>. QED BY <1>1, <1>2, MaxOfNats DEF Streak

LEMMA StreakEmpty ==
  ASSUME NEW S
  PROVE  Streak(<< >>, S) = 0
<1>1. << >> \in Seq({}) /\ Len(<< >>) = 0
  OBVIOUS
<1>2. Streak(<< >>, S) \in Tails(<< >>, S)
  BY <1>1, StreakIs
<1>. QED BY <1>1, <1>2 DEF Tails

LEMMA StreakAppend ==
  ASSUME NEW X, NEW h \in Seq(X), NEW x \in X, NEW S
  PROVE  Streak(Append(h, x), S) = IF x \in S THEN Streak(h, S) + 1 ELSE 0
<1> DEFINE g == Append(h, x)
<1>1. /\ g \in Seq(X) /\ Len(h) \in Nat /\ Len(g) = Len(h) + 1 /\ g[Len(g)] = x
      /\ \A i \in 1 .. Len(h) : g[i] = h[i]
  OBVIOUS
<1>2. /\ Streak(h, S) \in Nat /\ Streak(h, S) \in Tails(h, S)
      /\ \A n \in Tails(h, S) : n <= Streak(h, S)
  BY StreakIs
<1>3. /\ Streak(g, S) \in Nat /\ Streak(g, S) \in Tails(g, S)
      /\ \A n \in Tails(g, S) : n <= Streak(g, S)
  BY <1>1, StreakIs
<1>. HIDE DEF g
<1>4. \A n \in Nat \ {0} : n \in Tails(g, S) => x \in S /\ n - 1 \in Tails(h, S)
  BY <1>1 DEF Tails, TailPositions
<1>5. \A n \in Nat : n \in Tails(h, S) /\ x \in S => n + 1 \in Tails(g, S)
  <2> SUFFICES ASSUME NEW n \in Nat, n \in Tails(h, S), x \in S
               PROVE  n + 1 \in Tails(g, S)
    OBVIOUS
  <2>1. n <= Len(h) /\ \A i \in (Len(h) - n + 1) .. Len(h) : h[i] \in S
    BY DEF Tails, TailPositions
  <2>2. \A i \in (Len(g) - (n + 1) + 1) .. Len(g) : g[i] \in S
    BY <1>1, <2>1
  <2>. QED BY <1>1, <2>1, <2>2 DEF Tails, TailPositions
<1>6. CASE x \in S
  <2>1. Streak(h, S) + 1 <= Streak(g, S)
    BY <1>2, <1>3, <1>5, <1>6
  <2>2. Streak(g, S) - 1 \in Tails(h, S)
    BY <1>2, <1>3, <1>4, <2>1
  <2>3. Streak(g, S) - 1 <= Streak(h, S)
    BY <1>2, <2>2
  <2>. QED BY <1>2, <1>3, <1>6, <2>1, <2>3 DEF g
<1>7. CASE x \notin S
  BY <1>3, <1>4, <1>7 DEF g
<1>. QED BY <1>6, <1>7

(* A streak ends with the first entry outside its set. *)
LEMMA StreakEnds ==
  ASSUME NEW X, NEW h \in Seq(X), NEW x \in X, NEW S, x \notin S
  PROVE  Streak(Append(h, x), S) = 0
BY StreakAppend

(* A streak that does not reach a length is below it. *)
LEMMA StreakBelow ==
  ASSUME NEW X, NEW h \in Seq(X), NEW S, NEW t \in Nat,
         ~ (Len(h) >= t /\ \A i \in TailPositions(h, t) : h[i] \in S)
  PROVE  Streak(h, S) < t
<1>1. Streak(h, S) \in Nat /\ Streak(h, S) \in Tails(h, S) /\ Len(h) \in Nat
  BY StreakIs
<1>2. SUFFICES ASSUME t <= Streak(h, S) PROVE FALSE
  BY <1>1
<1>3. Streak(h, S) <= Len(h) /\ \A i \in (Len(h) - Streak(h, S) + 1) .. Len(h) : h[i] \in S
  BY <1>1 DEF Tails, TailPositions
<1>. QED BY <1>1, <1>2, <1>3 DEF TailPositions

(* Of equal entries, and one more: the streak of its value grows by one at most. *)
SameStreak(h) == Streak(h, {h[Len(h)]})

LEMMA SameStreakAppend ==
  ASSUME NEW X, NEW h \in Seq(X), NEW x \in X
  PROVE  SameStreak(Append(h, x)) <= SameStreak(h) + 1
<1>1. Append(h, x)[Len(Append(h, x))] = x /\ Len(h) \in Nat
  OBVIOUS
<1>2. SameStreak(Append(h, x)) = Streak(h, {x}) + 1
  BY <1>1, StreakAppend DEF SameStreak
<1>3. Streak(h, {x}) \in Nat /\ SameStreak(h) \in Nat
  BY StreakIs DEF SameStreak
<1>4. Streak(h, {x}) <= SameStreak(h)
  <2>1. CASE Streak(h, {x}) = 0
    BY <1>3, <2>1
  <2>2. CASE Streak(h, {x}) # 0
    <3>1. Streak(h, {x}) \in Tails(h, {x})
      BY StreakIs
    <3>2. Len(h) \in (Len(h) - Streak(h, {x}) + 1) .. Len(h)
      BY <1>1, <1>3, <2>2
    <3>3. h[Len(h)] = x
      BY <3>1, <3>2 DEF Tails, TailPositions
    <3>. QED BY <1>3, <3>3 DEF SameStreak
  <2>. QED BY <2>1, <2>2
<1>. QED BY <1>2, <1>3, <1>4

(* The streaks the properties speak of. *)
LEMMA StreaksOf ==
  ASSUME NEW ctx \in Ctxs
  PROVE  /\ Crashes(ctx) = Streak(ctx.runStatusHistory, {"crashed"})
         /\ Unevaluables(ctx) = Streak(ctx.verifierEvaluableHistory, {FALSE})
         /\ SameReds(ctx) = SameStreak(ctx.verifierDetailHistory)
<1>1. Crashes(ctx) = Streak(ctx.runStatusHistory, {"crashed"})
  BY DEF Crashes, TailLength, Streak, Tails
<1>2. SameReds(ctx) = SameStreak(ctx.verifierDetailHistory)
  BY DEF SameReds, TailLength, SameStreak, Streak, Tails
<1>3. Unevaluables(ctx) = Streak(ctx.verifierEvaluableHistory, {FALSE})
  <2> DEFINE h == ctx.verifierEvaluableHistory
  <2>1. h \in Seq(BOOLEAN) /\ Len(h) \in Nat
    BY DEF Ctxs
  <2>2. \A n \in 0 .. Len(h) : \A i \in TailPositions(h, n) : h[i] \in BOOLEAN
    BY <2>1 DEF TailPositions
  <2>3. { n \in 0 .. Len(h) : \A i \in TailPositions(h, n) : ~h[i] } = Tails(h, {FALSE})
    BY <2>2 DEF Tails
  <2>. QED BY <2>3 DEF Unevaluables, TailLength, Streak
<1>. QED BY <1>1, <1>2, <1>3

-----------------------------------------------------------------------------
(* The inductive invariant. *)

(* The crashes in a row a contract may cost, the recovery that was spent included. *)
Spare(ctx) == config.harnessCrashThreshold + ctx.remediations.crash

LedgerSums(ledger) ==
  /\ ledger.total = ledger.noDiff + ledger.repeat + ledger.crash

(***************************************************************************)
(* The streaks are below what would end the run by x and y entries, which  *)
(* the turn and the verdict at hand may have added; and between two        *)
(* counted iterations there are only crashes of one streak.                *)
(***************************************************************************)
Bounded(ctx, x, y) ==
  LET ledger == ctx.remediations IN
  /\ LedgerSums(ledger)
  /\ Streak(ctx.runStatusHistory, {"crashed"}) < Spare(ctx) + x
  /\ Streak(ctx.verifierEvaluableHistory, {FALSE})
       < config.unevaluableThreshold + ledger.crash + y
  /\ SameStreak(ctx.verifierDetailHistory) < config.repeatFailureThreshold + ledger.total + y
  /\ Len(ctx.runStatusHistory)
       <= ctx.iteration * Spare(ctx) + Streak(ctx.runStatusHistory, {"crashed"})

StreaksOK(s) ==
  /\ s.tag = "RUNNING_AGENT" => Bounded(s.ctx, 0, 0)
  /\ s.tag \in {"VERIFYING", "AWAIT_SIGNOFF"} => Bounded(s.ctx, 1, 0)
  /\ s.tag = "AWAIT_SIGNOFF" =>
       s.ctx.verifierDetailHistory = << >> /\ s.ctx.lastVerdict = "pass"

TurnTags == {"RUNNING_AGENT", "VERIFYING", "AWAIT_SIGNOFF"}

(* The turn after an idle veto answers it, so a second one is not fresh. *)
VetoOK(s, h) ==
  /\ s.tag \in {"VERIFYING", "AWAIT_SIGNOFF"} /\ LastRunStatus(s.ctx) # "crashed" =>
       s.ctx.iteration >= 1
  /\ s.tag \in TurnTags /\ config.noDiff /\ ~config.autoRemediate =>
       /\ h.idleVetoes \in {0, 1}
       /\ h.idleVetoes = 1 => s.ctx.feedbackSource = "veto"

(* The turns of the tail that timed out over the tree they found, by the hashes. *)
IdleTurns(ctx) ==
  { i \in 2 .. Len(ctx.runStatusHistory) :
      \A j \in i .. Len(ctx.runStatusHistory) :
        /\ ctx.runStatusHistory[j] = "timeout"
        /\ ctx.diffHashHistory[j] = ctx.diffHashHistory[j - 1] }

(* The tree a contract's first turn found is unknown, and the one after a turn *)
(* that could not be hashed.                                                   *)
Unknown(hashes) == hashes = << >> \/ hashes[Len(hashes)] = SentinelPostHash

(***************************************************************************)
(* The hashes tell every idle timeout but the first of a streak that began *)
(* over an unknown tree.                                                   *)
(***************************************************************************)
TimeoutsOK(s, h) ==
  /\ h.idleTimeouts \in Nat
  /\ s.tag \notin LoopTags => h.idleTimeouts = 0
  /\ s.tag \in TurnTags /\ ~world.drift =>
       /\ Len(s.ctx.diffHashHistory) = Len(s.ctx.runStatusHistory)
       /\ h.idleTimeouts - Cardinality(IdleTurns(s.ctx)) \in {0, 1}
       /\ Unknown(s.ctx.diffHashHistory) => h.idleTimeouts = 0
       /\ s.tag = "VERIFYING" => h.idleTimeouts - TimeoutNoDiffStreak(s.ctx) \in {0, 1}

BackstopInv ==
  /\ TypeOK
  /\ StreaksOK(st) /\ VetoOK(st, hist) /\ TimeoutsOK(st, hist)

-----------------------------------------------------------------------------
(* DECIDE, once more. *)

(* A detector that trips keeps those consulted after it from reporting. *)
LEMMA FirstTrips ==
  ASSUME NEW cfg, NEW ctx, NEW i \in 1 .. Len(StuckOrder), Trips(cfg, ctx, StuckOrder[i])
  PROVE  \E j \in 1 .. i : DetectStuck(cfg, ctx) = StuckOrder[j]
<1> DEFINE tripped == { k \in 1 .. Len(StuckOrder) : Trips(cfg, ctx, StuckOrder[k]) }
<1>1. Len(StuckOrder) = 7
  BY DEF StuckOrder
<1>2. i \in tripped /\ tripped \subseteq Nat
  BY <1>1
<1>3. Min(tripped) \in tripped /\ Min(tripped) <= i
  BY <1>2, MinOfNats
<1>4. Min(tripped) \in 1 .. i
  BY <1>1, <1>3
<1>5. DetectStuck(cfg, ctx) = StuckOrder[Min(tripped)]
  BY <1>2 DEF DetectStuck
<1>. QED BY <1>4, <1>5

LEMMA Masked ==
  ASSUME NEW cfg, NEW ctx
  PROVE  LET kind == DetectStuck(cfg, ctx) IN
         /\ Trips(cfg, ctx, "crash") => kind \in {"budget", "crash"}
         /\ Trips(cfg, ctx, "unevaluable") => kind \in {"budget", "crash", "unevaluable"}
         /\ Trips(cfg, ctx, "no-diff") =>
              kind \in {"budget", "crash", "unevaluable", "timeout-no-diff", "no-diff"}
         /\ Trips(cfg, ctx, "repeat") => kind # "none"
<1> DEFINE kind == DetectStuck(cfg, ctx)
<1>1. /\ Len(StuckOrder) = 7
      /\ StuckOrder[1] = "budget" /\ StuckOrder[2] = "crash" /\ StuckOrder[3] = "unevaluable"
      /\ StuckOrder[4] = "timeout-no-diff" /\ StuckOrder[5] = "no-diff"
      /\ StuckOrder[6] = "oscillation" /\ StuckOrder[7] = "repeat"
  BY DEF StuckOrder
<1>2. \A i \in 1 .. 7 : Trips(cfg, ctx, StuckOrder[i]) => \E j \in 1 .. i : kind = StuckOrder[j]
  BY <1>1, FirstTrips
<1>. HIDE DEF kind
<1>3. Trips(cfg, ctx, "crash") => \E j \in 1 .. 2 : kind = StuckOrder[j]
  BY <1>1, <1>2
<1>4. Trips(cfg, ctx, "unevaluable") => \E j \in 1 .. 3 : kind = StuckOrder[j]
  BY <1>1, <1>2
<1>5. Trips(cfg, ctx, "no-diff") => \E j \in 1 .. 5 : kind = StuckOrder[j]
  BY <1>1, <1>2
<1>6. Trips(cfg, ctx, "repeat") => \E j \in 1 .. 7 : kind = StuckOrder[j]
  BY <1>1, <1>2
<1>7. \A j \in 1 .. 7 : j = 1 \/ j = 2 \/ j = 3 \/ j = 4 \/ j = 5 \/ j = 6 \/ j = 7
  OBVIOUS
<1>8. Trips(cfg, ctx, "crash") => kind \in {"budget", "crash"}
  BY <1>1, <1>3
<1>9. Trips(cfg, ctx, "unevaluable") => kind \in {"budget", "crash", "unevaluable"}
  BY <1>1, <1>4
<1>10. Trips(cfg, ctx, "no-diff") =>
         kind \in {"budget", "crash", "unevaluable", "timeout-no-diff", "no-diff"}
  BY <1>1, <1>5
<1>11. Trips(cfg, ctx, "repeat") => kind # "none"
  BY <1>1, <1>6, <1>7
<1>. QED BY <1>8, <1>9, <1>10, <1>11 DEF kind

(* Going on is a self-recovery, or an answer where nothing but a fresh veto's *)
(* idle turn was reported.                                                    *)
LEMMA GoesOn ==
  ASSUME NEW cfg \in Configs, NEW contract, NEW ctx \in Ctxs,
         NEW pass \in BOOLEAN, NEW approval,
         Decide(cfg, contract, ctx, pass, approval).kind = "CONTINUE"
  PROVE  LET d    == Decide(cfg, contract, ctx, pass, approval)
             kind == DetectStuck(cfg, ctx)
         IN  \/ Remediable(cfg, ctx, kind) /\ d.ledger = Spent(ctx.remediations, kind)
             \/ /\ kind = "none" \/ (kind = "no-diff" /\ FreshVeto(ctx, pass, approval))
                /\ d.ledger = ctx.remediations
                /\ d.source = IF pass THEN "veto" ELSE "verifier"
<1> DEFINE d       == Decide(cfg, contract, ctx, pass, approval)
           kind    == DetectStuck(cfg, ctx)
           stuck   == kind # "none" /\ ~(kind = "no-diff" /\ FreshVeto(ctx, pass, approval))
           twoKeys == pass /\ approval = "approve"
<1>0. ctx.iteration \in Int /\ IterationCap(cfg, ctx) \in Int
  BY CapType
<1>1. CASE twoKeys
  BY <1>1 DEF Decide, Decision
<1>2. CASE ~twoKeys /\ stuck
  BY <1>2 DEF Decide, Decision
<1>3. CASE ~twoKeys /\ ~stuck
  BY <1>0, <1>3 DEF Decide, Decision
<1>. QED BY <1>1, <1>2, <1>3
(* A turn that is reported and not recovered from is a fresh veto's. *)
LEMMA ExcusedVeto ==
  ASSUME NEW cfg \in Configs, NEW contract, NEW ctx \in Ctxs,
         NEW pass \in BOOLEAN, NEW approval,
         Decide(cfg, contract, ctx, pass, approval).kind = "CONTINUE",
         DetectStuck(cfg, ctx) # "none", ~Remediable(cfg, ctx, DetectStuck(cfg, ctx))
  PROVE  /\ FreshVeto(ctx, pass, approval)
         /\ Decide(cfg, contract, ctx, pass, approval).source = "veto"
<1>1. /\ FreshVeto(ctx, pass, approval)
      /\ Decide(cfg, contract, ctx, pass, approval).source = IF pass THEN "veto" ELSE "verifier"
  BY GoesOn
<1>. QED BY <1>1 DEF FreshVeto

-----------------------------------------------------------------------------
(* The streaks. *)

(* The thresholds, the ledger and the histories are what they should be. *)
LEMMA BoundTypes ==
  ASSUME InScenario, NEW ctx \in Ctxs
  PROVE  /\ config \in Configs
         /\ config.harnessCrashThreshold \in Nat \ {0, 1}
         /\ config.unevaluableThreshold \in Nat \ {0, 1}
         /\ config.repeatFailureThreshold \in Nat \ {0, 1}
         /\ ctx.iteration \in Nat /\ ctx.remediations \in Ledgers
         /\ ctx.remediations.total \in Nat /\ ctx.remediations.noDiff \in Nat
         /\ ctx.remediations.repeat \in Nat /\ ctx.remediations.crash \in Nat
         /\ Spare(ctx) \in Nat \ {0, 1}
         /\ Streak(ctx.runStatusHistory, {"crashed"}) \in Nat
         /\ Streak(ctx.verifierEvaluableHistory, {FALSE}) \in Nat
         /\ SameStreak(ctx.verifierDetailHistory) \in Nat
         /\ Len(ctx.runStatusHistory) \in Nat
<1>1. config \in Configs
  BY ScenarioType
<1>2. /\ config.harnessCrashThreshold \in Nat \ {0, 1}
      /\ config.unevaluableThreshold \in Nat \ {0, 1}
      /\ config.repeatFailureThreshold \in Nat \ {0, 1}
  BY <1>1 DEF Configs
<1>3. /\ ctx.iteration \in Nat /\ ctx.remediations \in Ledgers
      /\ ctx.runStatusHistory \in Seq(world.statuses)
      /\ ctx.verifierEvaluableHistory \in Seq(BOOLEAN)
      /\ ctx.verifierDetailHistory \in Seq(Signatures)
  BY DEF Ctxs
<1>4. /\ ctx.remediations.total \in Nat /\ ctx.remediations.noDiff \in Nat
      /\ ctx.remediations.repeat \in Nat /\ ctx.remediations.crash \in Nat
  BY <1>3 DEF Ledgers
<1>5. Spare(ctx) \in Nat \ {0, 1}
  BY <1>2, <1>4 DEF Spare
<1>6. /\ Streak(ctx.runStatusHistory, {"crashed"}) \in Nat
      /\ Streak(ctx.verifierEvaluableHistory, {FALSE}) \in Nat
      /\ SameStreak(ctx.verifierDetailHistory) \in Nat
  BY <1>3, StreakIs DEF SameStreak
<1>7. Len(ctx.runStatusHistory) \in Nat
  BY <1>3
<1>. QED BY <1>1, <1>2, <1>3, <1>4, <1>5, <1>6, <1>7

(* A detector that does not trip keeps its streak below its threshold. *)
LEMMA Untripped ==
  ASSUME InScenario, NEW ctx \in Ctxs
  PROVE  /\ ~Trips(config, ctx, "crash") =>
              Streak(ctx.runStatusHistory, {"crashed"}) < Spare(ctx)
         /\ ~Trips(config, ctx, "unevaluable") =>
              Streak(ctx.verifierEvaluableHistory, {FALSE}) < config.unevaluableThreshold
         /\ ~Trips(config, ctx, "repeat") =>
              SameStreak(ctx.verifierDetailHistory)
                < config.repeatFailureThreshold + ctx.remediations.repeat
<1>1. /\ ctx.runStatusHistory \in Seq(world.statuses)
      /\ ctx.verifierEvaluableHistory \in Seq(BOOLEAN)
      /\ ctx.verifierDetailHistory \in Seq(Signatures)
  BY DEF Ctxs
<1>2. /\ Spare(ctx) \in Nat /\ config.unevaluableThreshold \in Nat
      /\ config.repeatFailureThreshold + ctx.remediations.repeat \in Nat
  BY BoundTypes
<1>3. ASSUME ~Trips(config, ctx, "crash")
      PROVE  Streak(ctx.runStatusHistory, {"crashed"}) < Spare(ctx)
  <2>1. ~IsCrashStreak(ctx.runStatusHistory, Spare(ctx))
    BY <1>3 DEF Trips, CrashThreshold, Spare
  <2>. QED BY <1>1, <1>2, <2>1, StreakBelow DEF IsCrashStreak
<1>4. ASSUME ~Trips(config, ctx, "unevaluable")
      PROVE  Streak(ctx.verifierEvaluableHistory, {FALSE}) < config.unevaluableThreshold
  <2>1. ~IsUnevaluableStreak(ctx.verifierEvaluableHistory, config.unevaluableThreshold)
    BY <1>4 DEF Trips
  <2>. QED BY <1>1, <1>2, <2>1, StreakBelow DEF IsUnevaluableStreak
<1>5. ASSUME ~Trips(config, ctx, "repeat")
      PROVE  SameStreak(ctx.verifierDetailHistory)
               < config.repeatFailureThreshold + ctx.remediations.repeat
  <2> DEFINE h == ctx.verifierDetailHistory
             t == config.repeatFailureThreshold + ctx.remediations.repeat
  <2>1. ~IsRepeating(h, t)
    BY <1>5 DEF Trips, RepeatThreshold
  <2>2. ~(Len(h) >= t /\ \A i \in TailPositions(h, t) : h[i] \in {h[Len(h)]})
    BY <2>1 DEF IsRepeating
  <2>. QED BY <1>1, <1>2, <2>2, StreakBelow DEF SameStreak
<1>. QED BY <1>3, <1>4, <1>5

(* What may have been reported of a turn the loop goes on from, and spent on it. *)
Excused(ctx, ledger) ==
  LET kind == DetectStuck(config, ctx) IN
  \/ Remediable(config, ctx, kind) /\ ledger = Spent(ctx.remediations, kind)
  \/ /\ kind = "none" \/ (kind = "no-diff" /\ ctx.verifierDetailHistory = << >>)
     /\ ledger = ctx.remediations

(***************************************************************************)
(* Going on leaves every streak below what ends the run: a detector that   *)
(* trips and is not reported was masked by one consulted before it, whose  *)
(* recovery makes room for one entry more.                                 *)
(***************************************************************************)
LEMMA RoomMade ==
  ASSUME InScenario, NEW ctx \in Ctxs, Bounded(ctx, 1, 1), NEW source, NEW ledger,
         Excused(ctx, ledger)
  PROVE  Bounded([ctx EXCEPT !.feedbackSource = source, !.remediations = ledger], 0, 0)
<1> DEFINE kind == DetectStuck(config, ctx)
           old  == ctx.remediations
           next == [ctx EXCEPT !.feedbackSource = source, !.remediations = ledger]
           crashes == Streak(ctx.runStatusHistory, {"crashed"})
           unevals == Streak(ctx.verifierEvaluableHistory, {FALSE})
           reds    == SameStreak(ctx.verifierDetailHistory)
           turns   == Len(ctx.runStatusHistory)
           H == config.harnessCrashThreshold
           U == config.unevaluableThreshold
           R == config.repeatFailureThreshold
           Fits == /\ ledger.total \in Nat /\ ledger.crash \in Nat
                   /\ LedgerSums(ledger)
                   /\ crashes < H + ledger.crash
                   /\ unevals < U + ledger.crash
                   /\ reds < R + ledger.total
                   /\ ledger.crash = old.crash \/ ledger.crash = old.crash + 1
<1>1. /\ H \in Nat \ {0, 1} /\ U \in Nat \ {0, 1} /\ R \in Nat \ {0, 1}
      /\ ctx.iteration \in Nat /\ old.total \in Nat /\ old.noDiff \in Nat
      /\ old.repeat \in Nat /\ old.crash \in Nat
      /\ crashes \in Nat /\ unevals \in Nat /\ reds \in Nat /\ turns \in Nat
  BY BoundTypes
<1>2. \/ kind = "crash" /\ ledger = Spent(old, kind)
      \/ kind = "no-diff" /\ ledger = Spent(old, kind)
      \/ kind = "repeat" /\ ledger = Spent(old, kind)
      \/ kind = "none" /\ ledger = old
      \/ kind = "no-diff" /\ reds = 0 /\ ledger = old
  <2>1. ctx.verifierDetailHistory = << >> => reds = 0
    BY StreakEmpty DEF SameStreak
  <2>. HIDE DEF kind
  <2>. QED BY <2>1 DEF Excused, Remediable, kind
<1>3. /\ kind \notin {"budget", "crash"} => ~Trips(config, ctx, "crash")
      /\ kind \notin {"budget", "crash", "unevaluable"} => ~Trips(config, ctx, "unevaluable")
      /\ kind = "none" => ~Trips(config, ctx, "repeat")
  BY Masked
<1>4. /\ kind \notin {"budget", "crash"} => crashes < H + old.crash
      /\ kind \notin {"budget", "crash", "unevaluable"} => unevals < U
      /\ kind = "none" => reds < R + old.repeat
  BY <1>3, Untripped DEF Spare
<1>5. /\ old.total = old.noDiff + old.repeat + old.crash
      /\ crashes < H + old.crash + 1
      /\ unevals < U + old.crash + 1
      /\ reds < R + old.total + 1
  BY DEF Bounded, LedgerSums, Spare
<1>6. turns <= ctx.iteration * (H + old.crash) + crashes
  BY DEF Bounded, Spare
<1>. HIDE DEF kind, crashes, unevals, reds, turns, H, U, R, old
<1>7. Fits
  <2>1. CASE kind = "crash" /\ ledger = Spent(old, kind)
    BY <1>1, <1>5, <2>1 DEF Spent, LedgerSums
  <2>2. CASE kind = "no-diff" /\ ledger = Spent(old, kind)
    BY <1>1, <1>4, <1>5, <2>2 DEF Spent, LedgerSums
  <2>3. CASE kind = "repeat" /\ ledger = Spent(old, kind)
    BY <1>1, <1>4, <1>5, <2>3 DEF Spent, LedgerSums
  <2>4. CASE kind = "none" /\ ledger = old
    BY <1>1, <1>4, <1>5, <2>4 DEF LedgerSums
  <2>5. CASE kind = "no-diff" /\ reds = 0 /\ ledger = old
    BY <1>1, <1>4, <1>5, <2>5 DEF LedgerSums
  <2>. QED BY <1>2, <2>1, <2>2, <2>3, <2>4, <2>5
<1>8. turns <= ctx.iteration * (H + ledger.crash) + crashes
  <2>1. CASE ledger.crash = old.crash
    BY <1>6, <2>1
  <2>2. CASE ledger.crash = old.crash + 1
    <3>1. \A i, h, c \in Nat : i * (h + c) <= i * (h + (c + 1))
      OBVIOUS
    <3>2. \A i, h \in Nat : i * h \in Nat
      OBVIOUS
    <3>3. ctx.iteration * (H + old.crash) <= ctx.iteration * (H + ledger.crash)
      BY <1>1, <2>2, <3>1
    <3>4. /\ ctx.iteration * (H + old.crash) \in Nat
          /\ ctx.iteration * (H + ledger.crash) \in Nat
      BY <1>1, <2>2, <3>2
    <3>5. \A n, x, y, c \in Nat : n <= x + c /\ x <= y => n <= y + c
      OBVIOUS
    <3>. QED BY <1>1, <1>6, <3>3, <3>4, <3>5
  <2>. QED BY <1>7, <2>1, <2>2
<1>9. /\ next.remediations = ledger /\ next.iteration = ctx.iteration
      /\ next.runStatusHistory = ctx.runStatusHistory
      /\ next.verifierEvaluableHistory = ctx.verifierEvaluableHistory
      /\ next.verifierDetailHistory = ctx.verifierDetailHistory
  BY DEF Ctxs
<1>. HIDE DEF next
<1>10. Spare(next) = H + ledger.crash
  BY <1>9 DEF Spare, H
<1>11. /\ Spare(next) + 0 = Spare(next)
       /\ U + ledger.crash + 0 = U + ledger.crash
       /\ R + ledger.total + 0 = R + ledger.total
  BY <1>1, <1>7, <1>10
<1>12. Bounded(next, 0, 0)
  BY <1>7, <1>8, <1>9, <1>10, <1>11 DEF Bounded, crashes, unevals, reds, turns, U, R
<1>. QED BY <1>12 DEF next

(* So every decision to go on starts a turn with room to spare. *)
LEMMA GoingOnBounded ==
  ASSUME InScenario, NEW contract, NEW ctx \in Ctxs, Bounded(ctx, 1, 1),
         NEW pass \in BOOLEAN, pass => ctx.verifierDetailHistory = << >>,
         NEW approval, NEW source,
         Decide(config, contract, ctx, pass, approval).kind = "CONTINUE"
  PROVE  LET d == Decide(config, contract, ctx, pass, approval)
         IN  Bounded([ctx EXCEPT !.feedbackSource = source, !.remediations = d.ledger], 0, 0)
<1> DEFINE d == Decide(config, contract, ctx, pass, approval)
<1>1. config \in Configs
  BY ScenarioType
<1>2. Excused(ctx, d.ledger)
  BY <1>1, GoesOn DEF Excused, FreshVeto
<1>. HIDE DEF d
<1>3. Bounded([ctx EXCEPT !.feedbackSource = source, !.remediations = d.ledger], 0, 0)
  BY <1>2, RoomMade
<1>. QED BY <1>3 DEF d

(* A contract's first turn starts with no streak at all. *)
LEMMA InitialBounded ==
  ASSUME InScenario
  PROVE  Bounded(InitialCtx, 0, 0)
<1> DEFINE c == InitialCtx
<1>1. /\ c.remediations.total = 0 /\ c.remediations.noDiff = 0
      /\ c.remediations.repeat = 0 /\ c.remediations.crash = 0
      /\ c.iteration = 0 /\ c.runStatusHistory = << >>
      /\ c.verifierEvaluableHistory = << >> /\ c.verifierDetailHistory = << >>
  BY DEF InitialCtx, NoRemediations
<1>2. /\ Streak(c.runStatusHistory, {"crashed"}) = 0
      /\ Streak(c.verifierEvaluableHistory, {FALSE}) = 0
      /\ SameStreak(c.verifierDetailHistory) = 0
      /\ Len(c.runStatusHistory) = 0
  BY <1>1, StreakEmpty DEF SameStreak
<1>3. /\ config.harnessCrashThreshold \in Nat \ {0, 1}
      /\ config.unevaluableThreshold \in Nat \ {0, 1}
      /\ config.repeatFailureThreshold \in Nat \ {0, 1}
  BY InitialCtxType, BoundTypes
<1>. HIDE DEF c
<1>4. Bounded(c, 0, 0)
  BY <1>1, <1>2, <1>3 DEF Bounded, LedgerSums, Spare
<1>. QED BY <1>4 DEF c

(* A turn adds to the crash streak or, counted, makes room for one more. *)
LEMMA TurnBounded ==
  ASSUME InScenario, NEW ctx \in Ctxs, Bounded(ctx, 0, 0),
         NEW e, e.status \in world.statuses
  PROVE  Bounded(AfterTurn(ctx, e), 1, 0)
<1> DEFINE next == AfterTurn(ctx, e)
           crashes == Streak(ctx.runStatusHistory, {"crashed"})
           turns   == Len(ctx.runStatusHistory)
<1>1. /\ next.remediations = ctx.remediations
      /\ next.iteration = IF e.status = "crashed" THEN ctx.iteration ELSE ctx.iteration + 1
      /\ next.runStatusHistory = Append(ctx.runStatusHistory, e.status)
      /\ next.verifierEvaluableHistory = ctx.verifierEvaluableHistory
      /\ next.verifierDetailHistory = ctx.verifierDetailHistory
  BY DEF AfterTurn, Ctxs
<1>. HIDE DEF next
<1>2. /\ config.unevaluableThreshold \in Nat /\ config.repeatFailureThreshold \in Nat
      /\ ctx.iteration \in Nat /\ ctx.remediations.total \in Nat
      /\ ctx.remediations.crash \in Nat /\ Spare(ctx) \in Nat
      /\ crashes \in Nat /\ turns \in Nat
      /\ Streak(ctx.verifierEvaluableHistory, {FALSE}) \in Nat
      /\ SameStreak(ctx.verifierDetailHistory) \in Nat
  BY BoundTypes
<1>3. ctx.runStatusHistory \in Seq(world.statuses)
  BY DEF Ctxs
<1>4. /\ Streak(next.runStatusHistory, {"crashed"})
           = (IF e.status = "crashed" THEN crashes + 1 ELSE 0)
      /\ Len(next.runStatusHistory) = turns + 1
  BY <1>1, <1>3, StreakAppend
<1>5. Spare(next) = Spare(ctx)
  BY <1>1 DEF Spare
<1>6. /\ crashes < Spare(ctx) /\ turns <= ctx.iteration * Spare(ctx) + crashes
      /\ Streak(ctx.verifierEvaluableHistory, {FALSE})
           < config.unevaluableThreshold + ctx.remediations.crash
      /\ SameStreak(ctx.verifierDetailHistory)
           < config.repeatFailureThreshold + ctx.remediations.total
      /\ LedgerSums(ctx.remediations)
  BY <1>2 DEF Bounded
<1>. HIDE DEF crashes, turns
<1>7. /\ (ctx.iteration + 1) * Spare(ctx) = ctx.iteration * Spare(ctx) + Spare(ctx)
      /\ ctx.iteration * Spare(ctx) \in Nat
  BY <1>2
<1>8. turns + 1 <= next.iteration * Spare(ctx)
                     + (IF e.status = "crashed" THEN crashes + 1 ELSE 0)
  <2>1. CASE e.status = "crashed"
    <3>1. next.iteration * Spare(ctx) = ctx.iteration * Spare(ctx)
      BY <1>1, <2>1
    <3>2. \A x, z, n \in Nat : n <= z + x => n + 1 <= z + (x + 1)
      OBVIOUS
    <3>3. turns + 1 <= ctx.iteration * Spare(ctx) + (crashes + 1)
      BY <1>2, <1>6, <1>7, <3>2
    <3>. QED BY <2>1, <3>1, <3>3
  <2>2. CASE e.status # "crashed"
    <3>1. next.iteration * Spare(ctx) = ctx.iteration * Spare(ctx) + Spare(ctx)
      BY <1>1, <1>7, <2>2
    <3>2. \A x, y, z, n \in Nat : x < y /\ n <= z + x => n + 1 <= z + y + 0
      OBVIOUS
    <3>3. turns + 1 <= ctx.iteration * Spare(ctx) + Spare(ctx) + 0
      BY <1>2, <1>6, <1>7, <3>2
    <3>. QED BY <2>2, <3>1, <3>3
  <2>. QED BY <2>1, <2>2
<1>9. (IF e.status = "crashed" THEN crashes + 1 ELSE 0) < Spare(ctx) + 1
  BY <1>2, <1>6
<1>10. Bounded(next, 1, 0)
  BY <1>1, <1>2, <1>4, <1>5, <1>6, <1>8, <1>9 DEF Bounded
<1>. QED BY <1>10 DEF next

(* A verdict: a green one ends both its streaks, a red one adds to them. *)
LEMMA VerdictBounded ==
  ASSUME InScenario, NEW ctx \in Ctxs, Bounded(ctx, 1, 0), NEW e
  PROVE  /\ Bounded(AfterGreen(ctx, e), 1, 0)
         /\ e.detail \in world.details /\ e.evaluable \in BOOLEAN =>
              Bounded(AfterRed(ctx, e), 1, 1)
<1> DEFINE green == AfterGreen(ctx, e)
           red   == AfterRed(ctx, e)
           unevals == Streak(ctx.verifierEvaluableHistory, {FALSE})
           reds    == SameStreak(ctx.verifierDetailHistory)
<1>1. /\ green.remediations = ctx.remediations /\ green.iteration = ctx.iteration
      /\ green.runStatusHistory = ctx.runStatusHistory
      /\ green.verifierEvaluableHistory = Append(ctx.verifierEvaluableHistory, TRUE)
      /\ green.verifierDetailHistory = << >>
  BY DEF AfterGreen, Ctxs
<1>2. /\ red.remediations = ctx.remediations /\ red.iteration = ctx.iteration
      /\ red.runStatusHistory = ctx.runStatusHistory
      /\ red.verifierEvaluableHistory = Append(ctx.verifierEvaluableHistory, e.evaluable)
      /\ red.verifierDetailHistory
           = Append(ctx.verifierDetailHistory, NormalizeDetail(e.detail))
  BY DEF AfterRed, Ctxs
<1>. HIDE DEF green, red
<1>3. /\ config.unevaluableThreshold \in Nat \ {0, 1}
      /\ config.repeatFailureThreshold \in Nat \ {0, 1}
      /\ ctx.remediations.total \in Nat /\ ctx.remediations.crash \in Nat
      /\ unevals \in Nat /\ reds \in Nat
  BY BoundTypes
<1>4. /\ ctx.verifierEvaluableHistory \in Seq(BOOLEAN)
      /\ ctx.verifierDetailHistory \in Seq(Signatures)
  BY DEF Ctxs
<1>5. Spare(green) = Spare(ctx) /\ Spare(red) = Spare(ctx)
  BY <1>1, <1>2 DEF Spare
<1>6. /\ unevals < config.unevaluableThreshold + ctx.remediations.crash
      /\ reds < config.repeatFailureThreshold + ctx.remediations.total
  BY <1>3 DEF Bounded
<1>7. /\ LedgerSums(ctx.remediations)
      /\ Streak(ctx.runStatusHistory, {"crashed"}) < Spare(ctx) + 1
      /\ Len(ctx.runStatusHistory)
           <= ctx.iteration * Spare(ctx) + Streak(ctx.runStatusHistory, {"crashed"})
  BY DEF Bounded
<1>8. Bounded(green, 1, 0)
  <2>1. Streak(green.verifierEvaluableHistory, {FALSE}) = 0
    <3>1. TRUE \notin {FALSE} /\ TRUE \in BOOLEAN
      BY Zenon
    <3>2. Streak(Append(ctx.verifierEvaluableHistory, TRUE), {FALSE}) = 0
      BY <1>4, <3>1, StreakEnds, Zenon
    <3>. QED BY <1>1, <3>2
  <2>2. SameStreak(green.verifierDetailHistory) = 0
    BY <1>1, StreakEmpty DEF SameStreak
  <2>3. /\ 0 < config.unevaluableThreshold + ctx.remediations.crash + 0
        /\ 0 < config.repeatFailureThreshold + ctx.remediations.total + 0
    BY <1>3
  <2>. QED BY <1>1, <1>5, <1>7, <2>1, <2>2, <2>3 DEF Bounded
<1>9. ASSUME e.detail \in world.details, e.evaluable \in BOOLEAN
      PROVE  Bounded(red, 1, 1)
  <2>1. Streak(red.verifierEvaluableHistory, {FALSE})
          \in {unevals + 1, 0}
    <3>1. \A x \in BOOLEAN :
            Streak(Append(ctx.verifierEvaluableHistory, x), {FALSE}) \in {unevals + 1, 0}
      BY <1>4, StreakAppend
    <3>. QED BY <1>2, <1>9, <3>1, Zenon
  <2>2. NormalizeDetail(e.detail) \in Signatures
    BY <1>9 DEF Signatures
  <2>3. SameStreak(red.verifierDetailHistory) <= reds + 1
    BY <1>2, <1>4, <2>2, SameStreakAppend
  <2>4. SameStreak(red.verifierDetailHistory) \in Nat
    <3>1. red.verifierDetailHistory \in Seq(Signatures)
      BY <1>2, <1>4, <2>2
    <3>. QED BY <3>1, StreakIs DEF SameStreak
  <2>. HIDE DEF unevals, reds
  <2>5. Streak(red.verifierEvaluableHistory, {FALSE})
          < config.unevaluableThreshold + ctx.remediations.crash + 1
    BY <1>3, <1>6, <2>1
  <2>6. SameStreak(red.verifierDetailHistory)
          < config.repeatFailureThreshold + ctx.remediations.total + 1
    BY <1>3, <1>6, <2>3, <2>4
  <2>. QED BY <1>2, <1>5, <1>7, <2>5, <2>6 DEF Bounded
<1>. QED BY <1>8, <1>9 DEF green, red
-----------------------------------------------------------------------------
(* Timeouts over an unchanged tree. *)

(* No tree has the hash that stands for an unreadable one. *)
LEMMA SentinelIsNoTree ==
  ASSUME InScenario
  PROVE  SentinelPostHash \notin world.hashes
<1> DEFINE s == [config |-> config, world |-> world]
<1>1. s \in Scenarios /\ s.world = world
  BY DEF InScenario
<1>. QED BY <1>1, WellFormedScenarios DEF ScenariosAssumption

(* The idle timeouts of a contract's tail are turns of it. *)
LEMMA IdleTurnsType ==
  ASSUME NEW ctx \in Ctxs
  PROVE  /\ IdleTurns(ctx) \subseteq 2 .. Len(ctx.runStatusHistory)
         /\ IsFiniteSet(IdleTurns(ctx)) /\ Cardinality(IdleTurns(ctx)) \in Nat
<1>1. Len(ctx.runStatusHistory) \in Nat
  BY DEF Ctxs
<1>2. IdleTurns(ctx) \subseteq 2 .. Len(ctx.runStatusHistory)
  BY DEF IdleTurns
<1>3. IsFiniteSet(2 .. Len(ctx.runStatusHistory))
  BY <1>1, FS_Interval
<1>4. IsFiniteSet(IdleTurns(ctx))
  BY <1>2, <1>3, FS_Subset
<1>. QED BY <1>2, <1>4, FS_CardinalityType

(* One turn more: the tail grows by it, or is over. *)
LEMMA IdleTurnsAfter ==
  ASSUME NEW ctx \in Ctxs, Len(ctx.diffHashHistory) = Len(ctx.runStatusHistory),
         NEW e, e.status \in world.statuses, e.hash \in TreeHashes
  PROVE  LET next == AfterTurn(ctx, e)
             n    == Len(ctx.runStatusHistory)
         IN  /\ Cardinality(IdleTurns(next))
                  = IF e.status = "timeout" /\ n # 0 /\ e.hash = ctx.diffHashHistory[n]
                    THEN Cardinality(IdleTurns(ctx)) + 1 ELSE 0
             /\ TimeoutNoDiffStreak(next)
                  = IF e.status = "timeout" /\ e.prev = e.hash
                    THEN Cardinality(IdleTurns(ctx)) + 1 ELSE 0
             /\ Len(next.diffHashHistory) = Len(next.runStatusHistory)
             /\ next.diffHashHistory # << >>
             /\ next.diffHashHistory[Len(next.diffHashHistory)] = e.hash
             /\ LastRunStatus(next) = e.status
             /\ next.lastNoDiff = (e.prev = e.hash)
<1> DEFINE next     == AfterTurn(ctx, e)
           statuses == ctx.runStatusHistory
           hashes   == ctx.diffHashHistory
           n        == Len(statuses)
           idle     == e.status = "timeout" /\ n # 0 /\ e.hash = hashes[n]
           longer   == Append(statuses, e.status)
           more     == Append(hashes, e.hash)
<1>1. /\ next.runStatusHistory = longer /\ next.diffHashHistory = more
      /\ next.lastNoDiff = (e.prev = e.hash)
  BY DEF AfterTurn, Ctxs
<1>2. statuses \in Seq(world.statuses) /\ hashes \in Seq(TreeHashes) /\ n \in Nat
  BY DEF Ctxs
<1>3. /\ Len(longer) = n + 1 /\ longer[n + 1] = e.status
      /\ \A i \in 1 .. n : longer[i] = statuses[i]
  BY <1>2
<1>4. /\ Len(more) = n + 1 /\ more[n + 1] = e.hash /\ more # << >>
      /\ \A i \in 1 .. n : more[i] = hashes[i]
  BY <1>2
<1>. HIDE DEF next, longer, more
<1>5. LastRunStatus(next) = e.status
  <2>1. longer # << >>
    BY <1>2, <1>3
  <2>. QED BY <1>1, <1>3, <2>1 DEF LastRunStatus
<1>6. IdleTurns(next)
        = { i \in 2 .. (n + 1) :
              \A j \in i .. (n + 1) : longer[j] = "timeout" /\ more[j] = more[j - 1] }
  BY <1>1, <1>3 DEF IdleTurns
<1>7. IdleTurns(ctx)
        = { i \in 2 .. n : \A j \in i .. n : statuses[j] = "timeout" /\ hashes[j] = hashes[j - 1] }
  BY DEF IdleTurns
<1>8. \A j \in 2 .. n : /\ longer[j] = statuses[j] /\ more[j] = hashes[j]
                        /\ more[j - 1] = hashes[j - 1]
  <2> SUFFICES ASSUME NEW j \in 2 .. n
               PROVE  /\ longer[j] = statuses[j] /\ more[j] = hashes[j]
                      /\ more[j - 1] = hashes[j - 1]
    OBVIOUS
  <2>. HIDE DEF n
  <2>1. n \in Nat
    BY <1>2
  <2>2. j \in 1 .. n /\ j - 1 \in 1 .. n
    BY <2>1
  <2>. QED BY <1>3, <1>4, <2>2
<1>9. /\ n + 1 \in 2 .. (n + 1) <=> n # 0
      /\ n # 0 => more[(n + 1) - 1] = hashes[n]
  <2>1. n \in Nat /\ (n + 1) - 1 = n /\ (n # 0 => n \in 1 .. n)
    BY <1>2
  <2>2. n + 1 \in 2 .. (n + 1) <=> n # 0
    BY <2>1
  <2>. QED BY <1>4, <2>1, <2>2
<1>10. IsFiniteSet(IdleTurns(ctx)) /\ n + 1 \notin IdleTurns(ctx)
       /\ Cardinality(IdleTurns(ctx)) \in Nat
  <2>1. n + 1 \notin 2 .. n
    BY <1>2
  <2>. QED BY <2>1, IdleTurnsType
<1>11. ASSUME idle PROVE Cardinality(IdleTurns(next)) = Cardinality(IdleTurns(ctx)) + 1
  <2>1. \A i \in 2 .. n : i \in IdleTurns(next) <=> i \in IdleTurns(ctx)
    <3> SUFFICES ASSUME NEW i \in 2 .. n
                 PROVE  i \in IdleTurns(next) <=> i \in IdleTurns(ctx)
      OBVIOUS
    <3>1. \A j \in i .. (n + 1) : j \in 2 .. n \/ j = n + 1
      BY <1>2
    <3>2. \A j \in i .. n : j \in i .. (n + 1) /\ j \in 2 .. n
      BY <1>2
    <3>3. \A j \in i .. (n + 1) : j = n + 1 \/ j \in i .. n
      BY <1>2
    <3>4. longer[n + 1] = "timeout" /\ more[n + 1] = more[(n + 1) - 1]
      BY <1>3, <1>4, <1>9, <1>11
    <3>5. i \in 2 .. (n + 1)
      BY <1>2
    <3>. QED BY <1>6, <1>7, <1>8, <3>1, <3>2, <3>3, <3>4, <3>5
  <2>2. n + 1 \in IdleTurns(next)
    <3>1. \A j \in (n + 1) .. (n + 1) : j = n + 1
      BY <1>2
    <3>. QED BY <1>3, <1>4, <1>6, <1>9, <1>11, <3>1
  <2>3. \A i \in 2 .. (n + 1) : i \in 2 .. n \/ i = n + 1
    BY <1>2
  <2>4. IdleTurns(next) = IdleTurns(ctx) \cup {n + 1}
    BY <1>6, <1>7, <2>1, <2>2, <2>3
  <2>. QED BY <1>10, <2>4, FS_AddElement
<1>12. ASSUME ~idle PROVE Cardinality(IdleTurns(next)) = 0
  <2>1. IdleTurns(next) = {}
    <3> SUFFICES ASSUME NEW i \in IdleTurns(next) PROVE FALSE
      OBVIOUS
    <3>1. i \in 2 .. (n + 1) /\ n + 1 \in i .. (n + 1)
      BY <1>2, <1>6
    <3>2. n # 0
      BY <1>2, <3>1
    <3>3. longer[n + 1] = "timeout" /\ more[n + 1] = more[(n + 1) - 1]
      BY <1>6, <3>1
    <3>. QED BY <1>3, <1>4, <1>9, <1>12, <3>2, <3>3
  <2>. QED BY <2>1, FS_EmptySet
<1>13. TimeoutNoDiffStreak(next)
         = IF e.status = "timeout" /\ e.prev = e.hash
           THEN Cardinality(IdleTurns(ctx)) + 1 ELSE 0
  <2>1. { i \in 2 .. (Len(longer) - 1) :
            \A j \in i .. (Len(longer) - 1) :
              longer[j] = "timeout" /\ more[j] = more[j - 1] } = IdleTurns(ctx)
    <3>1. Len(longer) - 1 = n
      BY <1>2, <1>3
    <3>2. \A i \in 2 .. n : \A j \in i .. n : j \in 2 .. n
      BY <1>2
    <3>. QED BY <1>7, <1>8, <3>1, <3>2
  <2>2. CASE e.status = "timeout" /\ e.prev = e.hash
    <3>1. TimeoutNoDiffStreak(next) = 1 + Cardinality(IdleTurns(ctx))
      BY <1>1, <1>5, <2>1, <2>2 DEF TimeoutNoDiffStreak
    <3>. QED BY <1>10, <2>2, <3>1
  <2>3. CASE ~(e.status = "timeout" /\ e.prev = e.hash)
    BY <1>1, <1>5, <2>3 DEF TimeoutNoDiffStreak
  <2>. QED BY <2>2, <2>3
<1>14. Cardinality(IdleTurns(next))
         = IF idle THEN Cardinality(IdleTurns(ctx)) + 1 ELSE 0
  BY <1>11, <1>12
<1>. QED BY <1>1, <1>3, <1>4, <1>5, <1>13, <1>14 DEF next
-----------------------------------------------------------------------------
(* The steps. *)

(* The loop goes on to another turn over the context it has just judged. *)
GoesOnTo(s, ctx, pass, approval, t) ==
  LET d == Decide(config, s.contract, ctx, pass, approval) IN
  /\ d.kind = "CONTINUE"
  /\ t.tag = "RUNNING_AGENT"
  /\ t.ctx = [ctx EXCEPT !.feedbackSource = d.source, !.remediations = d.ledger]

SignedOff(s, e) == [s.ctx EXCEPT !.lastBudget = e.budget]

(* How a step meets the turns: it ends them, starts them, or is one of theirs. *)
TurnStep(s, e, t) ==
  \/ t.tag \notin TurnTags /\ e.tag # "AGENT_RAN"
  \/ /\ s.tag \notin LoopTags /\ e.tag \notin {"AGENT_RAN", "VERIFIED", "SIGNOFF_DECIDED"}
     /\ t.tag = "RUNNING_AGENT" /\ t.ctx = InitialCtx
  \/ /\ s.tag = "RUNNING_AGENT" /\ e.tag = "AGENT_RAN" /\ e.status \in world.statuses
     /\ e.hash \in TreeHashes /\ Turned(s, e)
     /\ t.tag = "VERIFYING" /\ t.ctx = AfterTurn(s.ctx, e)
  \/ /\ s.tag = "VERIFYING" /\ e.tag = "VERIFIED" /\ e.pass /\ e.budget \in BOOLEAN
     /\ t.tag = "AWAIT_SIGNOFF" /\ t.ctx = AfterGreen(s.ctx, e)
  \/ /\ s.tag = "VERIFYING" /\ e.tag = "VERIFIED" /\ ~e.pass /\ e.budget \in BOOLEAN
     /\ e.detail \in world.details /\ e.evaluable \in BOOLEAN
     /\ GoesOnTo(s, AfterRed(s.ctx, e), FALSE, "none", t)
  \/ /\ s.tag = "AWAIT_SIGNOFF" /\ e.tag = "SIGNOFF_DECIDED" /\ e.budget \in BOOLEAN
     /\ GoesOnTo(s, SignedOff(s, e), s.ctx.lastVerdict = "pass", e.approval, t)

(* A decision goes on to another turn, or there is none. *)
LEMMA DecisionTurn ==
  ASSUME InScenario, NEW s \in States, NEW ctx \in Ctxs, NEW pass \in BOOLEAN, NEW approval
  PROVE  LET t == ApplyDecision(config, s, ctx, Decide(config, s.contract, ctx, pass, approval))
         IN  t.tag \notin TurnTags \/ GoesOnTo(s, ctx, pass, approval, t)
<1> DEFINE d == Decide(config, s.contract, ctx, pass, approval)
           t == ApplyDecision(config, s, ctx, d)
<1>1. d \in Decisions
  BY ScenarioType, DecideType
<1>2. d.kind \in {"CONTINUE", "DONE", "ADJUDICATE", "FAILED", "ABORTED"}
  BY <1>1 DEF Decisions
<1>3. ASSUME d.kind = "CONTINUE" PROVE GoesOnTo(s, ctx, pass, approval, t)
  <2> DEFINE next == [ctx EXCEPT !.feedbackSource = d.source, !.remediations = d.ledger]
  <2>1. t = StartIteration(config, s.contract, s.phase, next)
    <3>. HIDE DEF d
    <3>. QED BY <1>3 DEF ApplyDecision
  <2>2. t.tag = "RUNNING_AGENT" /\ t.ctx = next
    <3>. HIDE DEF next, t
    <3>. QED BY <2>1 DEF StartIteration, State
  <2>. HIDE DEF t
  <2>. QED BY <1>3, <2>2 DEF GoesOnTo
<1>. HIDE DEF d
<1>4. ASSUME d.kind = "DONE" PROVE t.tag \notin TurnTags
  <2>1. t = PhaseDone(s, ctx)
    BY <1>4 DEF ApplyDecision
  <2>2. PhaseDone(s, ctx).tag \notin LoopTags
    BY BuiltOutsideLoop DEF TerminalTags
  <2>. QED BY <2>1, <2>2 DEF TurnTags, LoopTags
<1>5. ASSUME d.kind = "ADJUDICATE" PROVE t.tag \notin TurnTags
  BY <1>5 DEF ApplyDecision, States, TurnTags
<1>6. ASSUME d.kind \in {"FAILED", "ABORTED"} PROVE t.tag \notin TurnTags
  BY <1>6 DEF ApplyDecision, Stopped, State, TurnTags
<1>7. t.tag \notin TurnTags \/ GoesOnTo(s, ctx, pass, approval, t)
  <2>. HIDE DEF t
  <2>. QED BY <1>2, <1>3, <1>4, <1>5, <1>6
<1>. QED BY <1>7 DEF d

(* Outside the loop only an approved or prepared contract starts a turn. *)
LEMMA OutsideTurn ==
  ASSUME InScenario, NEW s, StateOK(s), s.tag \notin TurnTags, s.tag \in Tags \ TerminalTags,
         NEW e, Answers(s, e)
  PROVE  TurnStep(s, e, Step(config, s, e))
<1> DEFINE t == Step(config, s, e)
<1>0. /\ config.maxPlanRetries \in Nat /\ config.maxPlanRevisions \in Nat
      /\ config.maxCompileRetries \in Nat /\ config.maxSealRevisions \in Nat
      /\ s.planRound \in Nat /\ s.reviseRound \in Nat /\ s.compileRound \in Nat
  BY ScenarioType DEF Configs, StateOK, States
<1>1. \A tag \in TerminalTags : \A n, m, reason, contract, phase, cmd :
        /\ Planning(n, m).tag \notin TurnTags
        /\ Compiling(cmd, phase, n, m).tag \notin TurnTags
        /\ Stopped(tag, reason, contract, n).tag \notin TurnTags
        /\ StartPhaseCompile(config, phase).tag \notin TurnTags
  BY BuiltOutsideLoop DEF TurnTags, LoopTags
<1>2. \A contract, phase :
        /\ StartIteration(config, contract, phase, InitialCtx).tag = "RUNNING_AGENT"
        /\ StartIteration(config, contract, phase, InitialCtx).ctx = InitialCtx
  BY DEF StartIteration, State
<1>3. "FAILED" \in TerminalTags /\ "ABORTED" \in TerminalTags
  BY DEF TerminalTags
<1>4. CASE s.tag = "PLANNING"
  <2>1. t = StepPlanning(config, s, e)
    BY <1>4 DEF Step
  <2>2. e.tag = "PLAN_COMPILED" \/ e.tag = "PLAN_FAILED"
    BY <1>4 DEF Answers
  <2>3. CASE e.tag = "PLAN_COMPILED"
    BY <2>1, <2>3 DEF StepPlanning, State, TurnStep, TurnTags
  <2>4. CASE e.tag = "PLAN_FAILED"
    BY <1>0, <1>1, <1>3, <2>1, <2>4 DEF StepPlanning, TurnStep
  <2>. QED BY <2>2, <2>3, <2>4
<1>5. CASE s.tag = "AWAIT_PLAN_SEAL"
  <2>1. t = StepAwaitPlanSeal(config, s, e)
    BY <1>5 DEF Step
  <2>2. e.tag = "PLAN_SEAL_DECIDED" /\ e.decision \in {"approve", "reject", "revise"}
    BY <1>5 DEF Answers
  <2>. QED BY <1>0, <1>1, <1>3, <2>1, <2>2 DEF StepAwaitPlanSeal, TurnStep
<1>6. CASE s.tag = "ADVANCING_PHASE"
  <2>1. e.tag = "PHASE_ADVANCED"
    BY <1>6 DEF Answers
  <2>. QED BY <1>1, <1>3, <1>6, <2>1 DEF Step, StepAdvancingPhase, TurnStep
<1>7. CASE s.tag = "RUNNING_WAVE"
  <2>1. e.tag = "WAVE_RAN"
    BY <1>7 DEF Answers
  <2>. QED BY <1>1, <1>3, <1>7, <2>1 DEF Step, StepRunningWave, TurnStep
<1>8. CASE s.tag = "COMPILING"
  <2>1. t = StepCompiling(config, s, e)
    BY <1>8 DEF Step
  <2>2. e.tag = "CONTRACT_COMPILED" \/ e.tag = "COMPILE_FAILED"
    BY <1>8 DEF Answers
  <2>3. CASE e.tag = "CONTRACT_COMPILED"
    BY <2>1, <2>3 DEF StepCompiling, State, TurnStep, TurnTags
  <2>4. CASE e.tag = "COMPILE_FAILED"
    BY <1>0, <1>1, <1>3, <2>1, <2>4 DEF StepCompiling, TurnStep
  <2>. QED BY <2>2, <2>3, <2>4
<1>9. CASE s.tag = "AWAIT_SEAL"
  <2>1. t = StepAwaitSeal(config, s, e)
    BY <1>9 DEF Step
  <2>2. e.tag = "SEAL_DECIDED" /\ e.decision \in {"approve", "reject", "revise", "edited"}
    BY <1>9 DEF Answers
  <2>3. s.tag \notin LoopTags
    BY <1>9 DEF LoopTags
  <2>4. CASE e.decision = "approve" /\ NeedsPreparation(s.contract)
    BY <2>1, <2>2, <2>4 DEF StepAwaitSeal, State, TurnStep, TurnTags
  <2>5. CASE e.decision = "approve" /\ ~NeedsPreparation(s.contract)
    BY <1>2, <2>1, <2>2, <2>3, <2>5 DEF StepAwaitSeal, TurnStep
  <2>6. CASE e.decision \in {"reject", "revise", "edited"}
    BY <1>0, <1>1, <1>3, <2>1, <2>2, <2>6 DEF StepAwaitSeal, TurnStep
  <2>. QED BY <2>2, <2>4, <2>5, <2>6
<1>10. CASE s.tag = "PREPARING"
  <2>1. t = StepPreparing(config, s, e)
    BY <1>10 DEF Step
  <2>2. e.tag = "WORKSPACE_PREPARED" /\ s.tag \notin LoopTags
    BY <1>10 DEF Answers, LoopTags
  <2>. QED BY <1>1, <1>2, <1>3, <2>1, <2>2 DEF StepPreparing, TurnStep
<1>11. CASE s.tag = "ADJUDICATING"
  <2>1. e.tag = "CONTRACT_ADJUDICATED"
    BY <1>11 DEF Answers
  <2>. QED BY <1>1, <1>3, <1>11, <2>1 DEF Step, StepAdjudicating, TurnStep
<1>. QED BY <1>4, <1>5, <1>6, <1>7, <1>8, <1>9, <1>10, <1>11
         DEF Tags, TurnTags, LoopTags, TerminalTags

(* Every step of the reducer is of one of those kinds. *)
LEMMA StepIsTurnStep ==
  ASSUME InScenario, NEW s, StateOK(s), NEW e, Answers(s, e)
  PROVE  TurnStep(s, e, Step(config, s, e))
<1> DEFINE t == Step(config, s, e)
<1>1. s \in States /\ s.ctx \in Ctxs /\ s.tag \in Tags
  BY DEF StateOK, States
<1>2. s.tag \notin TerminalTags
  BY DEF Answers, TerminalTags
<1>3. CASE s.tag \notin TurnTags
  BY <1>1, <1>2, <1>3, OutsideTurn
<1>4. CASE s.tag = "RUNNING_AGENT"
  <2>1. /\ e.tag = "AGENT_RAN" /\ e.status \in world.statuses /\ e.hash \in TreeHashes
        /\ Turned(s, e)
    BY <1>4 DEF Answers
  <2>2. t.tag = "VERIFYING" /\ t.ctx = AfterTurn(s.ctx, e)
    BY <1>1, <1>4 DEF Step, StepRunningAgent, States
  <2>. QED BY <1>4, <2>1, <2>2 DEF TurnStep
<1>5. CASE s.tag = "VERIFYING"
  <2>1. /\ e.tag = "VERIFIED" /\ e.pass \in BOOLEAN /\ e.budget \in BOOLEAN
        /\ ~e.pass => e.detail \in world.details /\ e.evaluable \in BOOLEAN
    BY <1>5 DEF Answers
  <2>2. t = StepVerifying(config, s, e)
    BY <1>5 DEF Step
  <2>3. CASE e.pass
    <3>1. t.tag = "AWAIT_SIGNOFF" /\ t.ctx = AfterGreen(s.ctx, e)
      BY <1>1, <2>2, <2>3 DEF StepVerifying, States
    <3>. QED BY <1>5, <2>1, <2>3, <3>1 DEF TurnStep
  <2>4. CASE ~e.pass
    <3> DEFINE next == AfterRed(s.ctx, e)
    <3>1. t = ApplyDecision(config, s, next, Decide(config, s.contract, next, FALSE, "none"))
      BY <2>2, <2>4 DEF StepVerifying
    <3>2. next \in Ctxs
      BY <1>1, <2>1, <2>4, CtxTypes
    <3>. HIDE DEF next
    <3>3. t.tag \notin TurnTags \/ GoesOnTo(s, next, FALSE, "none", t)
      BY <1>1, <3>1, <3>2, DecisionTurn
    <3>. QED BY <1>5, <2>1, <2>4, <3>3 DEF TurnStep, next
  <2>. QED BY <2>1, <2>3, <2>4
<1>6. CASE s.tag = "AWAIT_SIGNOFF"
  <2>1. e.tag = "SIGNOFF_DECIDED" /\ e.budget \in BOOLEAN
    BY <1>6 DEF Answers
  <2> DEFINE next == SignedOff(s, e)
             pass == s.ctx.lastVerdict = "pass"
  <2>2. next \in Ctxs /\ (next.lastVerdict = "pass") = pass
    BY <1>1, <2>1 DEF Ctxs, SignedOff
  <2>3. t = ApplyDecision(config, s, next, Decide(config, s.contract, next, pass, e.approval))
    BY <1>6, <2>2 DEF Step, StepAwaitSignoff, SignedOff
  <2>4. pass \in BOOLEAN
    OBVIOUS
  <2>. HIDE DEF next, pass
  <2>5. t.tag \notin TurnTags \/ GoesOnTo(s, next, pass, e.approval, t)
    BY <1>1, <2>2, <2>3, <2>4, DecisionTurn
  <2>. QED BY <1>6, <2>1, <2>5 DEF TurnStep, next, pass
<1>. QED BY <1>3, <1>4, <1>5, <1>6 DEF TurnTags
(* A context that goes on differs from the judged one by feedback and ledger only. *)
LEMMA GoesOnKeeps ==
  ASSUME NEW s, NEW ctx \in Ctxs, NEW pass, NEW approval, NEW t,
         GoesOnTo(s, ctx, pass, approval, t)
  PROVE  /\ t.tag = "RUNNING_AGENT"
         /\ t.ctx.diffHashHistory = ctx.diffHashHistory
         /\ t.ctx.runStatusHistory = ctx.runStatusHistory
         /\ t.ctx.lastNoDiff = ctx.lastNoDiff
         /\ t.ctx.feedbackSource = Decide(config, s.contract, ctx, pass, approval).source
BY DEF GoesOnTo, Ctxs

(* The contexts of a step are well formed. *)
LEMMA JudgedCtxs ==
  ASSUME NEW s, s.ctx \in Ctxs, NEW e, e.budget \in BOOLEAN
  PROVE  /\ SignedOff(s, e) \in Ctxs
         /\ e.detail \in world.details /\ e.evaluable \in BOOLEAN =>
              AfterRed(s.ctx, e) \in Ctxs
<1>1. SignedOff(s, e) \in Ctxs
  BY DEF SignedOff, Ctxs
<1>2. e.detail \in world.details /\ e.evaluable \in BOOLEAN => AfterRed(s.ctx, e) \in Ctxs
  BY CtxTypes
<1>. QED BY <1>1, <1>2

(* A reading of the budget changes no streak. *)
LEMMA SignedOffBounded ==
  ASSUME InScenario, NEW s, s.ctx \in Ctxs, Bounded(s.ctx, 1, 0), NEW e, e.budget \in BOOLEAN
  PROVE  Bounded(SignedOff(s, e), 1, 1)
<1> DEFINE c    == s.ctx
           next == SignedOff(s, e)
<1>1. /\ next.remediations = c.remediations /\ next.iteration = c.iteration
      /\ next.runStatusHistory = c.runStatusHistory
      /\ next.verifierEvaluableHistory = c.verifierEvaluableHistory
      /\ next.verifierDetailHistory = c.verifierDetailHistory
  BY DEF SignedOff, Ctxs
<1>2. /\ config.unevaluableThreshold \in Nat /\ config.repeatFailureThreshold \in Nat
      /\ c.remediations.total \in Nat /\ c.remediations.crash \in Nat
      /\ Streak(c.verifierEvaluableHistory, {FALSE}) \in Nat
      /\ SameStreak(c.verifierDetailHistory) \in Nat
  BY BoundTypes
<1>. HIDE DEF next
<1>3. Spare(next) = Spare(c)
  BY <1>1 DEF Spare
<1>4. /\ Streak(c.verifierEvaluableHistory, {FALSE})
           < config.unevaluableThreshold + c.remediations.crash + 1
      /\ SameStreak(c.verifierDetailHistory)
           < config.repeatFailureThreshold + c.remediations.total + 1
  BY <1>2 DEF Bounded
<1>5. Bounded(next, 1, 1)
  BY <1>1, <1>3, <1>4 DEF Bounded
<1>. QED BY <1>5 DEF next

(* The turn gone on to has room to spare. *)
LEMMA GoesOnBounded ==
  ASSUME InScenario, NEW s, NEW ctx \in Ctxs, Bounded(ctx, 1, 1),
         NEW pass \in BOOLEAN, pass => ctx.verifierDetailHistory = << >>,
         NEW approval, NEW t, GoesOnTo(s, ctx, pass, approval, t)
  PROVE  Bounded(t.ctx, 0, 0) /\ t.tag = "RUNNING_AGENT"
<1> DEFINE d == Decide(config, s.contract, ctx, pass, approval)
<1>1. d.kind = "CONTINUE" /\ t.tag = "RUNNING_AGENT"
  BY DEF GoesOnTo
<1>2. t.ctx = [ctx EXCEPT !.feedbackSource = d.source, !.remediations = d.ledger]
  BY DEF GoesOnTo
<1>3. Bounded([ctx EXCEPT !.feedbackSource = d.source, !.remediations = d.ledger], 0, 0)
  BY <1>1, GoingOnBounded
<1>. HIDE DEF d
<1>. QED BY <1>1, <1>2, <1>3

(* No step lets a streak outgrow what ends the run. *)
LEMMA StreaksKept ==
  ASSUME InScenario, NEW s, StateOK(s), NEW e, NEW t, TurnStep(s, e, t), StreaksOK(s)
  PROVE  StreaksOK(t)
<1>1. s.ctx \in Ctxs
  BY DEF StateOK, States
<1>2. CASE t.tag \notin TurnTags
  BY <1>2 DEF StreaksOK, TurnTags
<1>3. CASE t.tag = "RUNNING_AGENT" /\ t.ctx = InitialCtx
  BY <1>3, InitialBounded DEF StreaksOK
<1>4. CASE /\ s.tag = "RUNNING_AGENT" /\ e.status \in world.statuses
           /\ t.tag = "VERIFYING" /\ t.ctx = AfterTurn(s.ctx, e)
  BY <1>1, <1>4, TurnBounded DEF StreaksOK
<1>5. CASE /\ s.tag = "VERIFYING" /\ t.tag = "AWAIT_SIGNOFF" /\ t.ctx = AfterGreen(s.ctx, e)
  <2>1. Bounded(t.ctx, 1, 0)
    BY <1>1, <1>5, VerdictBounded DEF StreaksOK
  <2>2. t.ctx.verifierDetailHistory = << >> /\ t.ctx.lastVerdict = "pass"
    BY <1>1, <1>5 DEF AfterGreen, Ctxs
  <2>. QED BY <1>5, <2>1, <2>2 DEF StreaksOK
<1>6. CASE /\ s.tag = "VERIFYING" /\ e.budget \in BOOLEAN
           /\ e.detail \in world.details /\ e.evaluable \in BOOLEAN
           /\ GoesOnTo(s, AfterRed(s.ctx, e), FALSE, "none", t)
  <2>1. AfterRed(s.ctx, e) \in Ctxs /\ Bounded(AfterRed(s.ctx, e), 1, 1)
    BY <1>1, <1>6, JudgedCtxs, VerdictBounded DEF StreaksOK
  <2>2. Bounded(t.ctx, 0, 0) /\ t.tag = "RUNNING_AGENT"
    <3>1. FALSE \in BOOLEAN /\ (FALSE => AfterRed(s.ctx, e).verifierDetailHistory = << >>)
      OBVIOUS
    <3>. QED BY <1>6, <2>1, <3>1, GoesOnBounded, Zenon
  <2>. QED BY <2>2 DEF StreaksOK
<1>7. CASE /\ s.tag = "AWAIT_SIGNOFF" /\ e.budget \in BOOLEAN
           /\ GoesOnTo(s, SignedOff(s, e), s.ctx.lastVerdict = "pass", e.approval, t)
  <2>1. SignedOff(s, e) \in Ctxs /\ Bounded(SignedOff(s, e), 1, 1)
    BY <1>1, <1>7, JudgedCtxs, SignedOffBounded DEF StreaksOK
  <2>2. SignedOff(s, e).verifierDetailHistory = << >>
    BY <1>1, <1>7 DEF StreaksOK, SignedOff, Ctxs
  <2>3. Bounded(t.ctx, 0, 0) /\ t.tag = "RUNNING_AGENT"
    <3> DEFINE pass == s.ctx.lastVerdict = "pass"
    <3>1. pass \in BOOLEAN /\ GoesOnTo(s, SignedOff(s, e), pass, e.approval, t)
      BY <1>7
    <3>. HIDE DEF pass
    <3>. QED BY <2>1, <2>2, <3>1, GoesOnBounded
  <2>. QED BY <2>3 DEF StreaksOK
<1>. QED BY <1>2, <1>3, <1>4, <1>5, <1>6, <1>7 DEF TurnStep

(* A veto over an idle turn is answered by a turn that must change something. *)
LEMMA VetoKept ==
  ASSUME InScenario, NEW s, StateOK(s), NEW e, NEW t, TurnStep(s, e, t),
         StreaksOK(s), NEW h, VetoOK(s, h)
  PROVE  VetoOK(t, NextHist(h, s, e, t))
<1> DEFINE n == NextIdleVetoes(h, s, e, t)
           Watched == config.noDiff /\ ~config.autoRemediate
<1>1. s.ctx \in Ctxs /\ s.ctx.iteration \in Nat /\ config \in Configs
  BY ScenarioType DEF StateOK, States, Ctxs
<1>2. NextHist(h, s, e, t).idleVetoes = n
  BY DEF NextHist
<1>3. SUFFICES /\ t.tag \in {"VERIFYING", "AWAIT_SIGNOFF"} /\ LastRunStatus(t.ctx) # "crashed" =>
                    t.ctx.iteration >= 1
               /\ t.tag \in TurnTags /\ Watched =>
                    n \in {0, 1} /\ (n = 1 => t.ctx.feedbackSource = "veto")
  BY <1>2 DEF VetoOK
<1>4. ASSUME t.tag \in TurnTags, Watched, s.tag \in TurnTags
      PROVE  h.idleVetoes \in {0, 1} /\ (h.idleVetoes = 1 => s.ctx.feedbackSource = "veto")
  BY <1>4 DEF VetoOK
<1>5. CASE t.tag \notin TurnTags
  BY <1>5 DEF TurnTags
<1>6. CASE /\ e.tag \notin {"AGENT_RAN", "VERIFIED", "SIGNOFF_DECIDED"}
           /\ t.tag = "RUNNING_AGENT"
  BY <1>6 DEF NextIdleVetoes
<1>7. CASE /\ s.tag = "RUNNING_AGENT" /\ e.tag = "AGENT_RAN" /\ e.status \in world.statuses
           /\ t.tag = "VERIFYING" /\ t.ctx = AfterTurn(s.ctx, e)
  <2>1. /\ t.ctx.feedbackSource = s.ctx.feedbackSource
        /\ t.ctx.runStatusHistory = Append(s.ctx.runStatusHistory, e.status)
        /\ t.ctx.iteration = IF e.status = "crashed" THEN s.ctx.iteration
                             ELSE s.ctx.iteration + 1
    BY <1>1, <1>7 DEF AfterTurn, Ctxs
  <2>2. LastRunStatus(t.ctx) = e.status
    <3>1. s.ctx.runStatusHistory \in Seq(world.statuses)
      BY <1>1 DEF Ctxs
    <3>. QED BY <1>7, <2>1, <3>1 DEF LastRunStatus
  <2>3. n = h.idleVetoes \/ n = 0
    BY <1>7 DEF NextIdleVetoes
  <2>. QED BY <1>1, <1>4, <1>7, <2>1, <2>2, <2>3 DEF TurnTags
<1>8. CASE /\ s.tag = "VERIFYING" /\ e.tag = "VERIFIED" /\ e.pass
           /\ t.tag = "AWAIT_SIGNOFF" /\ t.ctx = AfterGreen(s.ctx, e)
  <2>1. /\ t.ctx.feedbackSource = s.ctx.feedbackSource
        /\ t.ctx.runStatusHistory = s.ctx.runStatusHistory
        /\ t.ctx.iteration = s.ctx.iteration
    BY <1>1, <1>8 DEF AfterGreen, Ctxs
  <2>2. LastRunStatus(t.ctx) = LastRunStatus(s.ctx)
    BY <2>1 DEF LastRunStatus
  <2>3. n = h.idleVetoes
    BY <1>8 DEF NextIdleVetoes
  <2>. QED BY <1>4, <1>8, <2>1, <2>2, <2>3 DEF TurnTags, VetoOK
<1>9. CASE /\ s.tag = "VERIFYING" /\ e.tag = "VERIFIED" /\ ~e.pass
           /\ GoesOnTo(s, AfterRed(s.ctx, e), FALSE, "none", t)
  <2>1. n = 0 /\ t.tag = "RUNNING_AGENT"
    BY <1>9 DEF NextIdleVetoes, GoesOnTo
  <2>. QED BY <2>1
<1>10. CASE /\ s.tag = "AWAIT_SIGNOFF" /\ e.tag = "SIGNOFF_DECIDED" /\ e.budget \in BOOLEAN
            /\ GoesOnTo(s, SignedOff(s, e), s.ctx.lastVerdict = "pass", e.approval, t)
  <2> DEFINE ctx  == SignedOff(s, e)
             pass == s.ctx.lastVerdict = "pass"
             d    == Decide(config, s.contract, ctx, pass, e.approval)
  <2>1. pass /\ pass \in BOOLEAN
    BY <1>10 DEF StreaksOK
  <2>2. d.kind = "CONTINUE" /\ t.tag = "RUNNING_AGENT" /\ t.ctx.feedbackSource = d.source
    <3>1. ctx \in Ctxs
      BY <1>1, <1>10, JudgedCtxs
    <3>3. GoesOnTo(s, ctx, pass, e.approval, t)
      BY <1>10
    <3>. HIDE DEF pass, ctx
    <3>4. t.ctx.feedbackSource = d.source
      BY <3>1, <3>3, GoesOnKeeps
    <3>. QED BY <3>3, <3>4 DEF GoesOnTo
  <2>3. ASSUME Watched, IdleTurn(s.ctx)
        PROVE  h.idleVetoes = 0 /\ d.source = "veto"
    <3>1. /\ ctx \in Ctxs /\ ctx.runStatusHistory = s.ctx.runStatusHistory
          /\ ctx.lastNoDiff = s.ctx.lastNoDiff /\ ctx.iteration = s.ctx.iteration
          /\ ctx.feedbackSource = s.ctx.feedbackSource
      BY <1>1, <1>10 DEF SignedOff, Ctxs
    <3>. HIDE DEF ctx
    <3>2. LastRunStatus(ctx) = "completed" /\ ctx.lastNoDiff /\ LastRunStatus(s.ctx) = "completed"
      BY <2>3, <3>1 DEF IdleTurn, LastRunStatus
    <3>3. ctx.iteration >= 1
      BY <1>10, <3>1, <3>2 DEF VetoOK
    <3>4. Trips(config, ctx, "no-diff")
      BY <2>3, <3>2, <3>3 DEF Trips, NoDiffTrips, NoDiffExcusedByRun
    <3>5. DetectStuck(config, ctx) # "none"
      BY <3>4, Masked
    <3>6. ~Remediable(config, ctx, DetectStuck(config, ctx))
      BY <2>3 DEF Remediable
    <3>7. FreshVeto(ctx, pass, e.approval) /\ d.source = "veto"
      <4>1. config \in Configs /\ ctx \in Ctxs
        BY <1>1, <3>1
      <4>2. Decide(config, s.contract, ctx, pass, e.approval).kind = "CONTINUE"
        BY <2>2
      <4>3. pass \in BOOLEAN
        BY <2>1
      <4>. HIDE DEF pass
      <4>4. FreshVeto(ctx, pass, e.approval) /\ d.source = "veto"
        BY <3>5, <3>6, <4>1, <4>2, <4>3, ExcusedVeto
      <4>. QED BY <4>4
    <3>8. s.ctx.feedbackSource # "veto"
      BY <3>1, <3>7 DEF FreshVeto
    <3>9. s.tag \in TurnTags
      BY <1>10 DEF TurnTags
    <3>. QED BY <2>3, <3>7, <3>8, <3>9 DEF VetoOK
  <2>. HIDE DEF d, ctx, pass
  <2>4. ASSUME IdleTurn(s.ctx), Watched
        PROVE  n \in {0, 1} /\ t.ctx.feedbackSource = "veto"
    <3>1. n = h.idleVetoes + 1 \/ n = 0
      BY <1>10 DEF NextIdleVetoes
    <3>2. h.idleVetoes = 0 /\ t.ctx.feedbackSource = "veto"
      BY <2>2, <2>3, <2>4
    <3>. QED BY <3>1, <3>2
  <2>5. ~IdleTurn(s.ctx) => n = 0
    BY <1>10 DEF NextIdleVetoes
  <2>. HIDE DEF n
  <2>. QED BY <2>2, <2>4, <2>5
<1>. QED BY <1>5, <1>6, <1>7, <1>8, <1>9, <1>10 DEF TurnStep
(* The fold off the histories follows the true streak, short of it by one at most. *)
LEMMA TimeoutsKept ==
  ASSUME InScenario, NEW s, StateOK(s), NEW e, NEW t, TurnStep(s, e, t),
         NEW h, TimeoutsOK(s, h)
  PROVE  TimeoutsOK(t, NextHist(h, s, e, t))
<1> DEFINE n == NextIdleTimeouts(h, e, t)
           Fold(ctx, i) ==
             /\ Len(ctx.diffHashHistory) = Len(ctx.runStatusHistory)
             /\ i - Cardinality(IdleTurns(ctx)) \in {0, 1}
             /\ Unknown(ctx.diffHashHistory) => i = 0
<1>1. s.ctx \in Ctxs /\ h.idleTimeouts \in Nat
  BY DEF StateOK, States, TimeoutsOK
<1>2. NextHist(h, s, e, t).idleTimeouts = n
  BY DEF NextHist
<1>3. n \in Nat
  BY <1>1 DEF NextIdleTimeouts
<1>4. SUFFICES /\ t.tag \notin LoopTags => n = 0
               /\ t.tag \in TurnTags /\ ~world.drift =>
                    /\ Fold(t.ctx, n)
                    /\ t.tag = "VERIFYING" => n - TimeoutNoDiffStreak(t.ctx) \in {0, 1}
  BY <1>2, <1>3 DEF TimeoutsOK
<1>5. s.tag \notin LoopTags => h.idleTimeouts = 0
  BY DEF TimeoutsOK
<1>6. s.tag \in TurnTags /\ ~world.drift => Fold(s.ctx, h.idleTimeouts)
  BY DEF TimeoutsOK
<1>7. ASSUME t.ctx.diffHashHistory = s.ctx.diffHashHistory,
             t.ctx.runStatusHistory = s.ctx.runStatusHistory,
             s.tag \in TurnTags, ~world.drift
      PROVE  Fold(t.ctx, h.idleTimeouts)
  <2>1. IdleTurns(t.ctx) = IdleTurns(s.ctx)
    BY <1>7 DEF IdleTurns
  <2>. QED BY <1>6, <1>7, <2>1
<1>8. CASE t.tag \notin TurnTags /\ e.tag # "AGENT_RAN"
  BY <1>8 DEF NextIdleTimeouts, TurnTags
<1>9. CASE /\ s.tag \notin LoopTags /\ e.tag \notin {"AGENT_RAN", "VERIFIED", "SIGNOFF_DECIDED"}
           /\ t.tag = "RUNNING_AGENT" /\ t.ctx = InitialCtx
  <2>1. n = 0 /\ t.tag \in LoopTags
    BY <1>5, <1>9 DEF NextIdleTimeouts, LoopTags
  <2>2. t.ctx.diffHashHistory = << >> /\ t.ctx.runStatusHistory = << >>
    BY <1>9 DEF InitialCtx
  <2>3. IdleTurns(t.ctx) = {}
    BY <2>2 DEF IdleTurns
  <2>4. Cardinality(IdleTurns(t.ctx)) = 0
    BY <2>3, FS_EmptySet
  <2>. QED BY <1>9, <2>1, <2>2, <2>4
<1>10. CASE /\ s.tag = "RUNNING_AGENT" /\ e.tag = "AGENT_RAN" /\ e.status \in world.statuses
            /\ e.hash \in TreeHashes /\ Turned(s, e)
            /\ t.tag = "VERIFYING" /\ t.ctx = AfterTurn(s.ctx, e)
  <2> DEFINE hashes == s.ctx.diffHashHistory
             m      == Len(s.ctx.runStatusHistory)
             tail   == Cardinality(IdleTurns(s.ctx))
  <2>0. t.tag \in LoopTags /\ s.tag \in TurnTags
    BY <1>10 DEF LoopTags, TurnTags
  <2>1. SUFFICES ASSUME ~world.drift
                 PROVE  /\ Fold(t.ctx, n)
                        /\ n - TimeoutNoDiffStreak(t.ctx) \in {0, 1}
    BY <1>10, <2>0
  <2>2. /\ Len(hashes) = m /\ h.idleTimeouts - tail \in {0, 1}
        /\ Unknown(hashes) => h.idleTimeouts = 0
    BY <1>6, <2>0, <2>1
  <2>3. /\ Cardinality(IdleTurns(t.ctx))
             = IF e.status = "timeout" /\ m # 0 /\ e.hash = hashes[m] THEN tail + 1 ELSE 0
        /\ TimeoutNoDiffStreak(t.ctx)
             = IF e.status = "timeout" /\ e.prev = e.hash THEN tail + 1 ELSE 0
        /\ Len(t.ctx.diffHashHistory) = Len(t.ctx.runStatusHistory)
        /\ t.ctx.diffHashHistory # << >>
        /\ t.ctx.diffHashHistory[Len(t.ctx.diffHashHistory)] = e.hash
        /\ LastRunStatus(t.ctx) = e.status
        /\ t.ctx.lastNoDiff = (e.prev = e.hash)
    BY <1>1, <1>10, <2>2, IdleTurnsAfter
  <2>4. n = IF e.status = "timeout" /\ e.prev = e.hash THEN h.idleTimeouts + 1 ELSE 0
    BY <1>10, <2>3 DEF NextIdleTimeouts, IdleTimeout
  <2>5. tail \in Nat /\ m \in Nat /\ hashes \in Seq(TreeHashes)
    BY <1>1, IdleTurnsType DEF Ctxs
  <2>6. hashes = << >> <=> m = 0
    BY <2>2, <2>5
  <2>7. SentinelPostHash \notin world.hashes
    BY SentinelIsNoTree
  <2>8. Unknown(t.ctx.diffHashHistory) => e.status = "crashed"
    BY <1>10, <2>3, <2>7 DEF Unknown, Turned
  <2>9. e.status = "timeout" /\ ~Unknown(hashes) => e.prev = hashes[m]
    BY <1>10, <2>1, <2>2 DEF Unknown, Turned
  <2>10. e.status = "timeout" /\ Unknown(hashes) /\ m # 0 => e.hash # hashes[m]
    BY <1>10, <2>2, <2>6, <2>7 DEF Unknown, Turned
  <2>. HIDE DEF hashes, m, tail, n
  <2>11. n - TimeoutNoDiffStreak(t.ctx) \in {0, 1}
    BY <1>1, <2>2, <2>3, <2>4, <2>5
  <2>12. n - Cardinality(IdleTurns(t.ctx)) \in {0, 1}
    <3>1. CASE e.status # "timeout"
      BY <2>3, <2>4, <3>1
    <3>2. CASE e.status = "timeout" /\ Unknown(hashes)
      <4>1. Cardinality(IdleTurns(t.ctx)) = 0
        BY <2>3, <2>10, <3>2
      <4>2. n \in {0, 1}
        BY <2>2, <2>4, <3>2
      <4>. QED BY <4>1, <4>2
    <3>3. CASE e.status = "timeout" /\ ~Unknown(hashes)
      <4>1. m # 0 /\ e.prev = hashes[m]
        BY <2>6, <2>9, <3>3 DEF Unknown
      <4>. QED BY <1>1, <2>2, <2>3, <2>4, <2>5, <3>3, <4>1
    <3>. QED BY <3>1, <3>2, <3>3
  <2>13. Unknown(t.ctx.diffHashHistory) => n = 0
    BY <2>4, <2>8
  <2>. QED BY <2>3, <2>11, <2>12, <2>13
<1>11. CASE /\ s.tag = "VERIFYING" /\ e.tag = "VERIFIED"
            /\ t.tag = "AWAIT_SIGNOFF" /\ t.ctx = AfterGreen(s.ctx, e)
  <2>1. /\ t.ctx.diffHashHistory = s.ctx.diffHashHistory
        /\ t.ctx.runStatusHistory = s.ctx.runStatusHistory
    BY <1>1, <1>11 DEF AfterGreen, Ctxs
  <2>2. n = h.idleTimeouts /\ t.tag \in LoopTags /\ s.tag \in TurnTags
    BY <1>11 DEF NextIdleTimeouts, LoopTags, TurnTags
  <2>. QED BY <1>7, <1>11, <2>1, <2>2
<1>12. CASE /\ s.tag = "VERIFYING" /\ e.tag = "VERIFIED" /\ e.budget \in BOOLEAN
            /\ e.detail \in world.details /\ e.evaluable \in BOOLEAN
            /\ GoesOnTo(s, AfterRed(s.ctx, e), FALSE, "none", t)
  <2>1. AfterRed(s.ctx, e) \in Ctxs
    BY <1>1, <1>12, JudgedCtxs
  <2>2. /\ t.ctx.diffHashHistory = AfterRed(s.ctx, e).diffHashHistory
        /\ t.ctx.runStatusHistory = AfterRed(s.ctx, e).runStatusHistory
        /\ t.tag = "RUNNING_AGENT"
    <3> DEFINE pass == FALSE
    <3>1. GoesOnTo(s, AfterRed(s.ctx, e), pass, "none", t)
      BY <1>12
    <3>. HIDE DEF pass
    <3>. QED BY <2>1, <3>1, GoesOnKeeps
  <2>3. /\ t.ctx.diffHashHistory = s.ctx.diffHashHistory
        /\ t.ctx.runStatusHistory = s.ctx.runStatusHistory
    BY <1>1, <2>2 DEF AfterRed, Ctxs
  <2>4. n = h.idleTimeouts /\ t.tag \in LoopTags /\ s.tag \in TurnTags
    BY <1>12, <2>2 DEF NextIdleTimeouts, LoopTags, TurnTags
  <2>. QED BY <1>7, <2>2, <2>3, <2>4
<1>13. CASE /\ s.tag = "AWAIT_SIGNOFF" /\ e.tag = "SIGNOFF_DECIDED" /\ e.budget \in BOOLEAN
            /\ GoesOnTo(s, SignedOff(s, e), s.ctx.lastVerdict = "pass", e.approval, t)
  <2> DEFINE pass == s.ctx.lastVerdict = "pass"
  <2>1. SignedOff(s, e) \in Ctxs
    BY <1>1, <1>13, JudgedCtxs
  <2>2. GoesOnTo(s, SignedOff(s, e), pass, e.approval, t)
    BY <1>13
  <2>. HIDE DEF pass
  <2>3. /\ t.ctx.diffHashHistory = SignedOff(s, e).diffHashHistory
        /\ t.ctx.runStatusHistory = SignedOff(s, e).runStatusHistory
        /\ t.tag = "RUNNING_AGENT"
    BY <2>1, <2>2, GoesOnKeeps
  <2>4. /\ t.ctx.diffHashHistory = s.ctx.diffHashHistory
        /\ t.ctx.runStatusHistory = s.ctx.runStatusHistory
    BY <1>1, <2>3 DEF SignedOff, Ctxs
  <2>5. n = h.idleTimeouts /\ t.tag \in LoopTags /\ s.tag \in TurnTags
    BY <1>13, <2>3 DEF NextIdleTimeouts, LoopTags, TurnTags
  <2>. QED BY <1>7, <2>3, <2>4, <2>5
<1>. QED BY <1>8, <1>9, <1>10, <1>11, <1>12, <1>13 DEF TurnStep

-----------------------------------------------------------------------------
(* The theorem. *)

TurnsOK(s, h) == StreaksOK(s) /\ VetoOK(s, h) /\ TimeoutsOK(s, h)

(* No run starts in the loop, or with a streak. *)
LEMMA BackstopInit == Init => BackstopInv
<1> SUFFICES ASSUME Init PROVE BackstopInv
  OBVIOUS
<1>1. TypeOK
  BY InitType
<1>2. st.tag \in {"PLANNING", "COMPILING"}
  BY DEF Init, InitialState, State
<1>3. hist.idleTimeouts = 0
  BY DEF Init, NoHistory
<1>4. StreaksOK(st) /\ VetoOK(st, hist) /\ TimeoutsOK(st, hist)
  BY <1>2, <1>3 DEF StreaksOK, VetoOK, TimeoutsOK, TurnTags
<1>. QED BY <1>1, <1>4 DEF BackstopInv

(* Every answer to a command keeps the streaks below what ends the run. *)
LEMMA BackstopNext == BackstopInv /\ [Next]_vars => BackstopInv'
<1> SUFFICES ASSUME BackstopInv, [Next]_vars PROVE BackstopInv'
  OBVIOUS
<1>1. TypeOK /\ InScenario /\ StateOK(st) /\ TurnsOK(st, hist)
  BY TypeOKFacts DEF BackstopInv, TurnsOK
<1>2. TypeOK'
  BY <1>1, NextType
<1>3. TurnsOK(st', hist') /\ config' = config /\ world' = world
  <2>1. CASE Next
    <3>1. CASE \E e : Apply(e) /\ Answers(st, e)
      <4>1. PICK e : Apply(e) /\ Answers(st, e)
        BY <3>1
      <4>2. /\ st' = Step(config, st, e) /\ hist' = NextHist(hist, st, e, st')
            /\ config' = config /\ world' = world
        BY <4>1 DEF Apply
      <4>3. TurnStep(st, e, st')
        BY <1>1, <4>1, <4>2, StepIsTurnStep
      <4>. QED BY <1>1, <4>2, <4>3, StreaksKept, VetoKept, TimeoutsKept DEF TurnsOK
    <3>2. CASE UNCHANGED vars
      BY <1>1, <3>2 DEF vars
    <3>. QED BY <1>1, <2>1, <3>1, <3>2, NextIsAnswer
  <2>2. CASE UNCHANGED vars
    BY <1>1, <2>2 DEF vars
  <2>. QED BY <2>1, <2>2
<1>4. TurnsOK(st, hist)'
  BY <1>3 DEF TurnsOK, StreaksOK, VetoOK, TimeoutsOK, Bounded, Spare
<1>. QED BY <1>2, <1>4 DEF BackstopInv, TurnsOK

LEMMA BackstopInvariant == Spec => []BackstopInv
<1>1. Init => BackstopInv
  BY BackstopInit
<1>2. BackstopInv /\ [Next]_vars => BackstopInv'
  BY BackstopNext
<1>. QED BY <1>1, <1>2, PTL DEF Spec

(***************************************************************************)
(* The counted backstops bite, for every threshold and every order of      *)
(* turns, verdicts and approvals: no crash, unevaluable or repeated-red    *)
(* streak outgrows what its thresholds and the self-recoveries spent       *)
(* allow; the turns of a contract are bounded by its iterations and the    *)
(* crashes in a row it may cost; a fresh veto excuses one idle turn; and   *)
(* the folded streak of idle timeouts is the true one, or one short.       *)
(***************************************************************************)
THEOREM BackstopsBite == Spec => []BackstopsHold
<1>1. BackstopInv => BackstopsHold
  <2> SUFFICES ASSUME BackstopInv PROVE BackstopsHold
    OBVIOUS
  <2>0. /\ InScenario /\ st.ctx \in Ctxs
        /\ StreaksOK(st) /\ VetoOK(st, hist) /\ TimeoutsOK(st, hist)
    BY TypeOKFacts DEF BackstopInv, StateOK, States
  <2> DEFINE ctx == st.ctx
  <2>1. StreaksBounded
    <3> SUFFICES ASSUME st.tag = "RUNNING_AGENT"
                 PROVE  /\ Crashes(ctx) < config.harnessCrashThreshold + ctx.remediations.crash
                        /\ Unevaluables(ctx)
                             < config.unevaluableThreshold + ctx.remediations.crash
                        /\ SameReds(ctx)
                             < config.repeatFailureThreshold + ctx.remediations.total
      BY DEF StreaksBounded
    <3>1. Bounded(ctx, 0, 0)
      BY <2>0 DEF StreaksOK
    <3> DEFINE crashes == Streak(ctx.runStatusHistory, {"crashed"})
               unevals == Streak(ctx.verifierEvaluableHistory, {FALSE})
               reds    == SameStreak(ctx.verifierDetailHistory)
    <3>2. /\ config.harnessCrashThreshold \in Nat \ {0, 1}
          /\ config.unevaluableThreshold \in Nat \ {0, 1}
          /\ config.repeatFailureThreshold \in Nat \ {0, 1}
          /\ ctx.remediations.total \in Nat /\ ctx.remediations.crash \in Nat
      BY <2>0, BoundTypes
    <3>3. /\ crashes < config.harnessCrashThreshold + ctx.remediations.crash
          /\ unevals < config.unevaluableThreshold + ctx.remediations.crash
          /\ reds < config.repeatFailureThreshold + ctx.remediations.total
      BY <3>1, <3>2 DEF Bounded, Spare
    <3>4. Crashes(ctx) = crashes /\ Unevaluables(ctx) = unevals /\ SameReds(ctx) = reds
      BY <2>0, StreaksOf
    <3>. QED BY <3>3, <3>4
  <2>2. TurnsBounded
    <3> DEFINE turns   == Len(ctx.runStatusHistory)
               crashes == Streak(ctx.runStatusHistory, {"crashed"})
               longest == config.harnessCrashThreshold + ctx.remediations.crash - 1
    <3> SUFFICES ASSUME st.tag = "RUNNING_AGENT"
                 PROVE  turns <= ctx.iteration + (ctx.iteration + 1) * longest
      BY DEF TurnsBounded
    <3>1. Bounded(ctx, 0, 0)
      BY <2>0 DEF StreaksOK
    <3>2. /\ ctx.iteration \in Nat /\ Spare(ctx) \in Nat \ {0, 1} /\ longest = Spare(ctx) - 1
          /\ crashes \in Nat /\ turns \in Nat
      <4>0. config.harnessCrashThreshold \in Nat \ {0, 1} /\ ctx.remediations.crash \in Nat
        BY <2>0, BoundTypes
      <4>1. longest = Spare(ctx) - 1
        BY <4>0 DEF Spare
      <4>. QED BY <2>0, <4>1, BoundTypes
    <3>3. crashes <= longest /\ turns <= ctx.iteration * Spare(ctx) + crashes
      BY <3>1, <3>2 DEF Bounded
    <3>. HIDE DEF turns, crashes, longest
    <3>4. \A i \in Nat, l \in Nat : i * (l + 1) + l = i + (i + 1) * l
      OBVIOUS
    <3>5. longest \in Nat /\ Spare(ctx) = longest + 1
      BY <3>2
    <3>6. ctx.iteration * Spare(ctx) + longest = ctx.iteration + (ctx.iteration + 1) * longest
      BY <3>2, <3>4, <3>5
    <3>7. \A a, b, c, d \in Nat : a <= b + c /\ c <= d => a <= b + d
      OBVIOUS
    <3>8. \A i, x \in Nat : i * x \in Nat
      OBVIOUS
    <3>9. turns <= ctx.iteration * Spare(ctx) + longest
      BY <3>2, <3>3, <3>5, <3>7, <3>8
    <3>. QED BY <3>6, <3>9
  <2>3. VetoExcuseOneShot
    BY <2>0 DEF VetoExcuseOneShot, VetoOK, TurnTags
  <2>4. TimeoutStreakExact
    BY <2>0 DEF TimeoutStreakExact, TimeoutsOK, TurnTags
  <2>. QED BY <2>1, <2>2, <2>3, <2>4 DEF BackstopsHold
<1>. QED BY <1>1, BackstopInvariant, PTL

-----------------------------------------------------------------------------
(***************************************************************************)
(* The walk over the phases, for every plan: no phase before those it depends *)
(* on, none twice, and each accepted behind both keys; so the reducer keeps *)
(* the promise of TwoKeys.                                                 *)
(***************************************************************************)

(* The dependency graph. *)

(* Every edge of a plan points to a phase before the one it leaves. *)
DependsBack(plan) == \A i \in DOMAIN plan : DependenciesOf(plan, i) \subseteq 0 .. (i - 1)

(* A group band starts at the phase or before it. *)
LEMMA BandStartType ==
  ASSUME NEW plan, NEW i \in Nat
  PROVE  BandStart(plan, i) \in 0 .. i
<1> DEFINE starts == { s \in 0 .. i : \A j \in s .. i : plan[j].group = plan[i].group }
<1>1. i \in starts /\ starts \subseteq Nat
  BY SMT
<1>2. Min(starts) \in starts
  BY <1>1, MinOfNats
<1>. QED BY <1>2 DEF BandStart

(* An edge leads to a phase of the plan or, by position, to an earlier one. *)
LEMMA DependenciesType ==
  ASSUME NEW plan, PlanSize(plan) \in Nat, DOMAIN plan = 0 .. (PlanSize(plan) - 1),
         NEW i \in DOMAIN plan
  PROVE  DependenciesOf(plan, i) \subseteq Nat
<1>1. PositionalPrerequisites(plan, i) \subseteq Nat
  BY BandStartType DEF PositionalPrerequisites
<1>2. ASSUME NEW id \in PlanIds(plan) PROVE IndexOfId(plan, id) \in Nat
  <2> DEFINE S == { j \in DOMAIN plan : plan[j].id = id }
  <2>1. S # {} /\ S \subseteq Nat
    BY DEF PlanIds
  <2>2. Min(S) \in S
    BY <2>1, MinOfNats
  <2>. QED BY <2>1, <2>2 DEF IndexOfId
<1>. QED BY <1>1, <1>2 DEF DependenciesOf

(***************************************************************************)
(* A plan the parse accepts has only backward edges: validatePlanGraph     *)
(* refuses an edge to a later phase, and one from a phase to itself as a   *)
(* cycle.                                                                  *)
(***************************************************************************)
LEMMA ValidPlanDependsBack ==
  ASSUME NEW plan, PlanSize(plan) \in Nat, DOMAIN plan = 0 .. (PlanSize(plan) - 1),
         ValidPlan(plan)
  PROVE  DependsBack(plan)
<1> DEFINE deps == PlanDependencies(plan)
<1>1. deps = [i \in DOMAIN plan |-> DependenciesOf(plan, i)]
  BY DEF PlanDependencies
<1>2. ~HasCycle(deps)
  BY DEF ValidPlan, PlanViolations
<1>3. ~ \E i \in DOMAIN plan : \E d \in deps[i] : d > i
  BY DEF ValidPlan, PlanViolations
<1>4. SUFFICES ASSUME NEW i \in DOMAIN plan, NEW d \in DependenciesOf(plan, i)
               PROVE  d \in 0 .. (i - 1)
  BY DEF DependsBack
<1>5. i \in Nat /\ d \in Nat
  BY DependenciesType
<1>6. d <= i
  BY <1>1, <1>3, <1>5
<1>7. d # i
  <2> SUFFICES ASSUME d = i PROVE HasCycle(deps)
    BY <1>2
  <2>1. {i} \in SUBSET DOMAIN deps /\ {i} # {} /\ \A j \in {i} : deps[j] \cap {i} # {}
    BY <1>1
  <2>. QED BY <2>1 DEF HasCycle
<1>. QED BY <1>5, <1>6, <1>7

(* The plan of a run without phases has no edges at all. *)
LEMMA EmptyPlanDependsBack == DependsBack(EmptyPlan)
BY DEF DependsBack, EmptyPlan

-----------------------------------------------------------------------------
(* The inductive invariant. *)

(* The states in which a phase is being worked on. *)
PhaseTags == {"RUNNING_WAVE", "COMPILING", "AWAIT_SEAL", "PREPARING"} \cup LoopTags

(* The phases at or after from that no wave has merged. *)
Left(phase, from) == (from .. PlanSize(phase.plan)) \ phase.skip

(* The members of a wave wait for nothing unfinished and run for the first time. *)
WaveOK(s, todo) ==
  /\ s.phase.index \in s.indices
  /\ s.indices \subseteq todo \ s.phase.waved
  /\ \A i \in s.indices : DependenciesOf(s.phase.plan, i) \cap todo = {}

(***************************************************************************)
(* What is unfinished is what the state's phase says is left: everything   *)
(* from the phase the walk is at, or from the one after it when that one   *)
(* has just been accepted, except what waves have merged.  The code keeps  *)
(* no such set: it is the index and the skip set together that tell.       *)
(***************************************************************************)
WalkOK(s, todo) ==
  /\ DependsBack(s.phase.plan)
  /\ s.tag \in {"PLANNING", "AWAIT_PLAN_SEAL"} => todo = {}
  /\ s.tag = "AWAIT_PLAN_SEAL" => s.phase = [NoPhase EXCEPT !.plan = s.phase.plan]
  /\ s.tag \in PhaseTags => /\ s.phase.index \notin s.phase.skip
                            /\ todo = Left(s.phase, s.phase.index)
  /\ s.tag = "ADVANCING_PHASE" => todo = Left(s.phase, s.phase.index + 1)
  /\ IF s.tag = "RUNNING_WAVE" THEN WaveOK(s, todo) ELSE s.indices = {}
  /\ s.tag = "AWAIT_SIGNOFF" => s.ctx.lastVerdict = "pass"

WalkInv == TypeOK /\ WalkOK(st, hist.todo)

-----------------------------------------------------------------------------
(* Opening a phase. *)

(***************************************************************************)
(* The frontier at an open phase holds the phase itself and only phases    *)
(* whose prerequisites are all behind the walk or merged.                  *)
(***************************************************************************)
LEMMA WaveAtIndex ==
  ASSUME InScenario, NEW phase \in Phases, PhaseOK(phase), DependsBack(phase.plan),
         phase.index \notin phase.skip, PendingWaveAt(config, phase) # {phase.index}
  PROVE  LET wave == PendingWaveAt(config, phase)
             todo == Left(phase, phase.index)
         IN  /\ phase.index \in wave
             /\ wave \subseteq todo \ phase.waved
             /\ \A i \in wave : DependenciesOf(phase.plan, i) \cap todo = {}
<1> DEFINE plan  == phase.plan
           index == phase.index
           done  == phase.skip \cup 0 .. (index - 1)
           ready == ReadyFrontier(plan, done)
           wave  == PendingWaveAt(config, phase)
           at    == WaveIndicesAt(plan, index, phase.skip)
           n     == PlanSize(plan)
<1>1. /\ n \in Nat /\ DOMAIN plan = 0 .. (n - 1) /\ index \in Nat
      /\ phase.skip \subseteq 0 .. (n - 1)
  BY PhaseType DEF PhaseOK
<1>2. /\ wave = at \ (phase.skip \cup phase.waved)
      /\ index < n /\ index \notin phase.waved
  BY <1>1 DEF PendingWaveAt
<1>3. index \in DOMAIN plan
  BY <1>1, <1>2
<1>4. DependenciesOf(plan, index) \subseteq 0 .. (index - 1)
  BY <1>3 DEF DependsBack
<1>5. index \in ready
  BY <1>3, <1>4, <1>1 DEF ReadyFrontier
<1>6. at = {index} \/ at = ready
  BY DEF WaveIndicesAt
<1>7. at \subseteq ready /\ index \in at
  BY <1>5, <1>6
<1>8. \A i \in ready : /\ i \in 0 .. (n - 1) /\ i \notin done
                       /\ DependenciesOf(plan, i) \subseteq done
  BY <1>1 DEF ReadyFrontier
<1>. HIDE DEF at, ready
<1>9. index \in wave
  BY <1>2, <1>7
<1>10. wave \subseteq Left(phase, index) \ phase.waved
  BY <1>1, <1>2, <1>7, <1>8 DEF Left
<1>11. ASSUME NEW i \in wave PROVE DependenciesOf(plan, i) \cap Left(phase, index) = {}
  <2>1. DependenciesOf(plan, i) \subseteq done
    BY <1>2, <1>7, <1>8
  <2>2. done \cap Left(phase, index) = {}
    BY <1>1 DEF Left
  <2>. QED BY <2>1, <2>2
<1>. QED BY <1>9, <1>10, <1>11

(* What opening a phase builds: a compile of its contract, or the wave it leads. *)
LEMMA StartPhaseCompileShape ==
  ASSUME NEW cfg, NEW phase
  PROVE  LET t == StartPhaseCompile(cfg, phase) IN
         /\ t.phase = phase
         /\ \/ t.tag = "COMPILING" /\ t.indices = {}
            \/ /\ t.tag = "RUNNING_WAVE" /\ t.indices = PendingWaveAt(cfg, phase)
               /\ Cardinality(t.indices) > 1
<1> DEFINE wave == PendingWaveAt(cfg, phase)
<1>. HIDE DEF wave
<1>1. CASE Cardinality(wave) > 1
  BY <1>1 DEF StartPhaseCompile, State, wave
<1>2. CASE ~(Cardinality(wave) > 1)
  BY <1>2 DEF StartPhaseCompile, Compiling, State, wave
<1>. QED BY <1>1, <1>2

(* Opening an unfinished phase keeps the walk, alone or as the head of a wave. *)
LEMMA OpenPhaseOK ==
  ASSUME InScenario, NEW phase \in Phases, PhaseOK(phase), DependsBack(phase.plan),
         phase.index \notin phase.skip
  PROVE  WalkOK(StartPhaseCompile(config, phase), Left(phase, phase.index))
<1> DEFINE t    == StartPhaseCompile(config, phase)
           todo == Left(phase, phase.index)
<1>1. /\ t.phase = phase
      /\ \/ t.tag = "COMPILING" /\ t.indices = {}
         \/ /\ t.tag = "RUNNING_WAVE" /\ t.indices = PendingWaveAt(config, phase)
            /\ Cardinality(t.indices) > 1
  BY StartPhaseCompileShape
<1>. HIDE DEF t, todo
<1>2. ASSUME t.tag = "COMPILING", t.indices = {}
      PROVE  WalkOK(t, todo)
  BY <1>1, <1>2 DEF WalkOK, PhaseTags, todo
<1>3. ASSUME t.tag = "RUNNING_WAVE", t.indices = PendingWaveAt(config, phase),
             Cardinality(t.indices) > 1
      PROVE  WalkOK(t, todo)
  <2>1. t.indices # {phase.index}
    <3>1. Cardinality({phase.index}) = 1
      BY FS_Singleton
    <3>. QED BY <1>3, <3>1
  <2>2. WaveOK(t, todo)
    BY <1>1, <1>3, <2>1, WaveAtIndex DEF WaveOK, todo
  <2>. QED BY <1>1, <1>3, <2>2 DEF WalkOK, PhaseTags, todo
<1>4. WalkOK(t, todo)
  BY <1>1, <1>2, <1>3
<1>. QED BY <1>4 DEF t, todo

(* Skipping to the next phase leaves out merged ones only. *)
LEMMA NextPhaseLeft ==
  ASSUME InScenario, NEW phase \in Phases, PhaseOK(phase),
         NEW from \in 0 .. PlanSize(phase.plan)
  PROVE  LET i == NextPhaseIndex(phase, from) IN
         /\ i \in from .. PlanSize(phase.plan)
         /\ i \notin phase.skip
         /\ Left(phase, i) = Left(phase, from)
<1> DEFINE n    == PlanSize(phase.plan)
           left == { i \in from .. n : i \notin phase.skip }
           next == NextPhaseIndex(phase, from)
<1>1. n \in Nat
  BY PhaseType
<1>2. next \in from .. n /\ next \notin phase.skip
  BY NextPhaseIndexType
<1>3. left \subseteq Nat /\ left # {}
  BY <1>1, <1>2
<1>4. \A x \in left : next <= x
  BY <1>3, MinOfNats DEF NextPhaseIndex
<1>. HIDE DEF next
<1>5. Left(phase, next) = Left(phase, from)
  BY <1>1, <1>2, <1>4 DEF Left
<1>. QED BY <1>2, <1>5 DEF next

-----------------------------------------------------------------------------
(* The shapes a step may have in the terms of TwoKeys. *)

WorkTags  == {"PREPARING"} \cup LoopTags
DraftTags == Tags \ (WorkTags \cup TerminalTags)

(* From state s with todo unfinished to state t with left unfinished. *)
PromisedStep(s, todo, t, left) ==
  \/ /\ s.tag \in DraftTags \cup WorkTags /\ t.tag \in {"FAILED", "ABORTED"}
     /\ left = todo
  \/ /\ s.tag \in DraftTags /\ t.tag \in DraftTags /\ left = todo
  \/ /\ s.tag \in DraftTags /\ t.tag \in DraftTags /\ todo = {}
     /\ \E n \in Nat : left = 0 .. n
  \/ /\ s.tag \in DraftTags /\ t.tag \in DraftTags
     /\ left \subseteq todo /\ todo \subseteq Nat
     /\ \E last \in left : \A i \in todo : i <= last
  \/ /\ s.tag \in DraftTags /\ t.tag \in WorkTags \ {"AWAIT_SIGNOFF"}
     /\ t.contract # NoContract /\ todo # {} /\ left = todo
  \/ /\ s.tag \in WorkTags /\ t.tag \in WorkTags
     /\ t.contract = s.contract /\ left = todo
     /\ t.tag = "AWAIT_SIGNOFF" => t.ctx.lastVerdict = "pass"
  \/ /\ s.tag = "AWAIT_SIGNOFF" /\ s.ctx.lastVerdict = "pass"
     /\ todo \subseteq Nat
     /\ \E i \in todo : (\A j \in todo : i <= j) /\ left = todo \ {i}
     /\ \/ left = {} /\ t.tag = "DONE" /\ t.contract = s.contract
        \/ left # {} /\ t.tag \in DraftTags

(* What every handler does: keep the walk, by a step of one of those shapes. *)
Kept(s, todo, t, left) == WalkOK(t, left) /\ PromisedStep(s, todo, t, left)

(* The tags by what they abstract to. *)
LEMMA TagSets ==
  /\ DraftTags = {"PLANNING", "AWAIT_PLAN_SEAL", "ADVANCING_PHASE", "RUNNING_WAVE",
                  "COMPILING", "AWAIT_SEAL"}
  /\ WorkTags = {"PREPARING", "RUNNING_AGENT", "VERIFYING", "AWAIT_SIGNOFF", "ADJUDICATING"}
BY DEF DraftTags, WorkTags, Tags, LoopTags, TerminalTags

(* Giving up is allowed anywhere; nothing is left to walk. *)
LEMMA StoppedKept ==
  ASSUME NEW s, s.tag \in DraftTags \cup WorkTags, NEW todo,
         NEW tag \in {"FAILED", "ABORTED"}, NEW reason, NEW contract, NEW n
  PROVE  Kept(s, todo, Stopped(tag, reason, contract, n), todo)
<1> DEFINE t == Stopped(tag, reason, contract, n)
<1>1. t.tag = tag /\ t.phase = NoPhase /\ t.indices = {}
  BY DEF Stopped, State
<1>2. DependsBack(t.phase.plan)
  BY <1>1, EmptyPlanDependsBack DEF NoPhase
<1>. HIDE DEF t
<1>3. WalkOK(t, todo)
  BY <1>1, <1>2 DEF WalkOK, PhaseTags, LoopTags
<1>4. PromisedStep(s, todo, t, todo)
  BY <1>1 DEF PromisedStep
<1>. QED BY <1>3, <1>4 DEF Kept, t

(* Planning again forgets the plan. *)
LEMMA PlanningKept ==
  ASSUME NEW s, s.tag \in DraftTags, NEW r, NEW n
  PROVE  Kept(s, {}, Planning(r, n), {})
<1> DEFINE t == Planning(r, n)
<1>1. t.tag = "PLANNING" /\ t.phase = NoPhase /\ t.indices = {}
  BY DEF Planning, State
<1>2. DependsBack(t.phase.plan)
  BY <1>1, EmptyPlanDependsBack DEF NoPhase
<1>. HIDE DEF t
<1>3. WalkOK(t, {})
  BY <1>1, <1>2 DEF WalkOK, PhaseTags, LoopTags
<1>4. PromisedStep(s, {}, t, {})
  BY <1>1, TagSets DEF PromisedStep
<1>. QED BY <1>3, <1>4 DEF Kept, t

(* A plan that validates goes to its Seal with nothing walked yet. *)
LEMMA StepPlanningKept ==
  ASSUME InScenario, NEW s, StateOK(s), s.tag = "PLANNING", WalkOK(s, {}),
         NEW e, Answers(s, e)
  PROVE  Kept(s, {}, StepPlanning(config, s, e), {})
<1>1. s.tag \in DraftTags
  BY TagSets
<1>2. \/ e.tag = "PLAN_COMPILED" /\ e.plan \in world.plans /\ ValidPlan(e.plan)
      \/ e.tag = "PLAN_FAILED"
  BY DEF Answers
<1>3. config.maxPlanRetries \in Nat /\ s.planRound \in Nat
  BY ScenarioType DEF Configs, StateOK, States
<1>4. CASE e.tag = "PLAN_COMPILED" /\ e.plan \in world.plans /\ ValidPlan(e.plan)
  <2> DEFINE t == StepPlanning(config, s, e)
  <2>1. /\ t.tag = "AWAIT_PLAN_SEAL" /\ t.indices = {}
        /\ t.phase = [NoPhase EXCEPT !.plan = e.plan]
    BY <1>4 DEF StepPlanning, State
  <2>2. t.phase.plan = e.plan
    BY <2>1 DEF NoPhase
  <2>3. DependsBack(t.phase.plan)
    BY <1>4, <2>2, ScenarioType, ValidPlanDependsBack
  <2>. HIDE DEF t
  <2>4. WalkOK(t, {})
    BY <2>1, <2>2, <2>3 DEF WalkOK, PhaseTags, LoopTags
  <2>5. PromisedStep(s, {}, t, {})
    BY <1>1, <2>1, TagSets DEF PromisedStep
  <2>. QED BY <2>4, <2>5 DEF Kept, t
<1>5. CASE e.tag = "PLAN_FAILED" /\ s.planRound < config.maxPlanRetries
  <2>1. StepPlanning(config, s, e) = Planning(s.reviseRound, s.planRound + 1)
    BY <1>3, <1>5 DEF StepPlanning
  <2>. QED BY <1>1, <2>1, PlanningKept
<1>6. CASE e.tag = "PLAN_FAILED" /\ ~(s.planRound < config.maxPlanRetries)
  <2>1. StepPlanning(config, s, e) = Stopped("FAILED", "plan-failed", NoContract, 0)
    BY <1>3, <1>6 DEF StepPlanning
  <2>. QED BY <1>1, <2>1, StoppedKept
<1>. QED BY <1>2, <1>4, <1>5, <1>6

(* The tags a phase is opened in. *)
LEMMA OpenPhaseTag ==
  ASSUME NEW cfg, NEW phase
  PROVE  StartPhaseCompile(cfg, phase).tag \in DraftTags
BY StartPhaseCompileShape, TagSets

(* Sealing the plan makes every phase of it, and the acceptance, unfinished. *)
LEMMA StepAwaitPlanSealKept ==
  ASSUME InScenario, NEW s, StateOK(s), s.tag = "AWAIT_PLAN_SEAL", NEW h, WalkOK(s, h.todo),
         NEW e, Answers(s, e)
  PROVE  Kept(s, h.todo, StepAwaitPlanSeal(config, s, e), NextTodo(h, s, e))
<1>1. s.tag \in DraftTags /\ h.todo = {}
  BY TagSets DEF WalkOK
<1>2. e.tag = "PLAN_SEAL_DECIDED" /\ e.decision \in {"approve", "reject", "revise"}
  BY DEF Answers
<1>3. config.maxPlanRevisions \in Nat /\ s.reviseRound \in Nat
  BY ScenarioType DEF Configs, StateOK, States
<1>4. CASE e.decision = "approve"
  <2> DEFINE n == PlanSize(s.phase.plan)
             t == StepAwaitPlanSeal(config, s, e)
  <2>1. s.phase \in Phases /\ PhaseOK(s.phase) /\ DependsBack(s.phase.plan)
    BY DEF StateOK, States, WalkOK
  <2>2. n \in Nat
    BY <2>1, PhaseType
  <2>3. s.phase.index = 0 /\ s.phase.skip = {}
    <3>1. s.phase = [NoPhase EXCEPT !.plan = s.phase.plan]
      BY DEF WalkOK
    <3>. QED BY <3>1 DEF NoPhase
  <2>4. Left(s.phase, s.phase.index) = 0 .. n
    BY <2>2, <2>3 DEF Left
  <2>5. NextTodo(h, s, e) = 0 .. n
    BY <1>2, <1>4 DEF NextTodo
  <2>6. t = StartPhaseCompile(config, s.phase)
    BY <1>4 DEF StepAwaitPlanSeal
  <2>. HIDE DEF t, n
  <2>7. WalkOK(t, 0 .. n)
    BY <2>1, <2>3, <2>4, <2>6, OpenPhaseOK
  <2>8. PromisedStep(s, {}, t, 0 .. n)
    BY <1>1, <2>2, <2>6, OpenPhaseTag DEF PromisedStep
  <2>. QED BY <1>1, <2>5, <2>7, <2>8 DEF Kept, t
<1>5. ASSUME e.decision # "approve" PROVE NextTodo(h, s, e) = {}
  BY <1>1, <1>2, <1>5 DEF NextTodo
<1>6. CASE e.decision = "reject"
  <2>1. StepAwaitPlanSeal(config, s, e) = Stopped("ABORTED", "plan-rejected", NoContract, 0)
    BY <1>6 DEF StepAwaitPlanSeal
  <2>. QED BY <1>1, <1>5, <1>6, <2>1, StoppedKept
<1>7. CASE e.decision = "revise" /\ s.reviseRound + 1 > config.maxPlanRevisions
  <2>1. StepAwaitPlanSeal(config, s, e) = Stopped("ABORTED", "plan-revision-cap", NoContract, 0)
    BY <1>3, <1>7 DEF StepAwaitPlanSeal
  <2>. QED BY <1>1, <1>5, <1>7, <2>1, StoppedKept
<1>8. CASE e.decision = "revise" /\ ~(s.reviseRound + 1 > config.maxPlanRevisions)
  <2>1. StepAwaitPlanSeal(config, s, e) = Planning(s.reviseRound + 1, 0)
    BY <1>3, <1>8 DEF StepAwaitPlanSeal
  <2>. QED BY <1>1, <1>5, <1>8, <2>1, PlanningKept
<1>. QED BY <1>2, <1>4, <1>6, <1>7, <1>8

(* After an accepted phase the walk goes to the next one no wave has merged. *)
LEMMA StepAdvancingPhaseKept ==
  ASSUME InScenario, NEW s, StateOK(s), s.tag = "ADVANCING_PHASE", NEW todo, WalkOK(s, todo),
         NEW e
  PROVE  Kept(s, todo, StepAdvancingPhase(config, s, e), todo)
<1> DEFINE i    == NextPhaseIndex(s.phase, s.phase.index + 1)
           next == [s.phase EXCEPT !.index = i]
           t    == StepAdvancingPhase(config, s, e)
<1>1. /\ s.phase \in Phases /\ PhaseOK(s.phase) /\ DependsBack(s.phase.plan)
      /\ s.phase.index < PlanSize(s.phase.plan)
  BY DEF StateOK, States, WalkOK
<1>2. PlanSize(s.phase.plan) \in Nat /\ s.phase.index + 1 \in 0 .. PlanSize(s.phase.plan)
  BY <1>1, PhaseType
<1>3. /\ i \in (s.phase.index + 1) .. PlanSize(s.phase.plan) /\ i \notin s.phase.skip
      /\ Left(s.phase, i) = Left(s.phase, s.phase.index + 1)
  BY <1>1, <1>2, NextPhaseLeft
<1>4. i \in Nat /\ i \in 0 .. PlanSize(s.phase.plan)
  BY <1>1, <1>2, <1>3, PhaseType
<1>5. t = StartPhaseCompile(config, next)
  BY DEF StepAdvancingPhase
<1>6. todo = Left(s.phase, i)
  BY <1>3 DEF WalkOK, PhaseTags, LoopTags
<1>. HIDE DEF i
<1>7. /\ next \in Phases /\ next.plan = s.phase.plan /\ next.skip = s.phase.skip
      /\ next.index = i /\ PhaseOK(next)
  BY <1>1, <1>4 DEF Phases, PhaseOK
<1>. HIDE DEF next, t
<1>8. todo = Left(next, next.index)
  BY <1>6, <1>7 DEF Left
<1>9. WalkOK(t, todo)
  BY <1>1, <1>3, <1>5, <1>7, <1>8, OpenPhaseOK
<1>10. PromisedStep(s, todo, t, todo)
  BY <1>5, OpenPhaseTag, TagSets DEF PromisedStep
<1>. QED BY <1>9, <1>10 DEF Kept, t

(* A wave finishes what it merged; the walk resumes at its first open phase. *)
LEMMA StepRunningWaveKept ==
  ASSUME InScenario, NEW s, StateOK(s), s.tag = "RUNNING_WAVE", NEW h, WalkOK(s, h.todo),
         NEW e, Answers(s, e)
  PROVE  Kept(s, h.todo, StepRunningWave(config, s, e), NextTodo(h, s, e))
<1> DEFINE n    == PlanSize(s.phase.plan)
           next == AfterWave(s, e.merged \cap s.indices)
           i    == NextPhaseIndex(next, s.phase.index)
           last == [next EXCEPT !.index = i]
           t    == StepRunningWave(config, s, e)
           left == h.todo \ e.merged
<1>1. /\ s.phase \in Phases /\ PhaseOK(s.phase) /\ DependsBack(s.phase.plan)
      /\ s.indices \subseteq 0 .. (n - 1) /\ s.indices # {}
  BY DEF StateOK, States, WalkOK
<1>2. n \in Nat /\ s.phase.index \in Nat
  BY <1>1, PhaseType
<1>3. e.tag = "WAVE_RAN" /\ e.merged \subseteq s.indices
  BY DEF Answers
<1>4. NextTodo(h, s, e) = left
  BY <1>3 DEF NextTodo
<1>5. /\ h.todo = Left(s.phase, s.phase.index) /\ s.phase.index \notin s.phase.skip
      /\ s.phase.index \in s.indices /\ s.indices \subseteq h.todo
  BY DEF WalkOK, PhaseTags, WaveOK
<1>6. Min(s.indices) = s.phase.index
  <2>1. s.indices \subseteq Nat
    BY <1>1, <1>2
  <2>2. Min(s.indices) \in s.indices /\ Min(s.indices) <= s.phase.index
    BY <1>1, <1>5, <2>1, MinOfNats
  <2>3. s.phase.index <= Min(s.indices)
    BY <1>2, <1>5, <2>2 DEF Left
  <2>. QED BY <1>2, <2>1, <2>2, <2>3
<1>7. /\ next \in Phases /\ PhaseOK(next) /\ next.plan = s.phase.plan
      /\ next.skip = s.phase.skip \cup e.merged
  <2>1. next = [s.phase EXCEPT !.skip = @ \cup e.merged, !.waved = @ \cup s.indices]
    <3>1. e.merged \cap s.indices = e.merged
      BY <1>3
    <3>. QED BY <3>1 DEF AfterWave
  <2>. HIDE DEF next
  <2>2. /\ next.plan = s.phase.plan /\ next.index = s.phase.index
        /\ next.skip = s.phase.skip \cup e.merged /\ next.waved = s.phase.waved \cup s.indices
    BY <1>1, <2>1 DEF Phases
  <2>3. e.merged \subseteq Nat /\ s.indices \subseteq Nat
    BY <1>1, <1>2, <1>3
  <2>4. next \in Phases
    BY <1>1, <2>1, <2>3 DEF Phases
  <2>5. PhaseOK(next)
    BY <1>1, <1>3, <2>2 DEF PhaseOK
  <2>. QED BY <2>2, <2>4, <2>5
<1>8. t = StartPhaseCompile(config, last)
  BY <1>6 DEF StepRunningWave
<1>. HIDE DEF next
<1>9. /\ i \in s.phase.index .. n /\ i \notin next.skip
      /\ Left(next, i) = Left(next, s.phase.index)
  <2>1. s.phase.index \in 0 .. PlanSize(next.plan)
    BY <1>1, <1>2, <1>7 DEF PhaseOK
  <2>. QED BY <1>7, <2>1, NextPhaseLeft
<1>10. i \in Nat /\ i \in 0 .. n
  BY <1>2, <1>9
<1>11. left = Left(next, i)
  BY <1>5, <1>7, <1>9 DEF Left
<1>. HIDE DEF i
<1>12. /\ last \in Phases /\ last.plan = s.phase.plan /\ last.skip = next.skip
       /\ last.index = i /\ PhaseOK(last)
  BY <1>7, <1>10 DEF Phases, PhaseOK
<1>. HIDE DEF last, t
<1>13. left = Left(last, last.index)
  BY <1>7, <1>11, <1>12 DEF Left
<1>. HIDE DEF left
<1>14. WalkOK(t, left)
  BY <1>1, <1>8, <1>9, <1>12, <1>13, OpenPhaseOK
<1>15. PromisedStep(s, h.todo, t, left)
  <2>1. left \subseteq h.todo /\ h.todo \subseteq Nat
    BY <1>2, <1>5 DEF left, Left
  <2>2. n \in left /\ \A j \in h.todo : j <= n
    BY <1>1, <1>2, <1>3, <1>5 DEF left, Left, PhaseOK
  <2>3. s.tag \in DraftTags /\ t.tag \in DraftTags
    BY <1>8, OpenPhaseTag, TagSets
  <2>. QED BY <2>1, <2>2, <2>3 DEF PromisedStep
<1>. QED BY <1>4, <1>14, <1>15 DEF Kept, t

(* The phase being worked on is itself unfinished. *)
LEMMA OpenPhaseUnfinished ==
  ASSUME InScenario, NEW s, StateOK(s), s.tag \in PhaseTags, NEW todo, WalkOK(s, todo)
  PROVE  s.phase.index \in todo
<1>1. s.phase \in Phases /\ PhaseOK(s.phase)
  BY DEF StateOK, States
<1>2. PlanSize(s.phase.plan) \in Nat /\ s.phase.index \in Nat
      /\ s.phase.index <= PlanSize(s.phase.plan)
  BY <1>1, PhaseType
<1>. QED BY <1>2 DEF WalkOK, Left

(* A state of the same phase with the same work left keeps the walk. *)
LEMMA SamePhaseWalk ==
  ASSUME NEW s, NEW t, NEW todo, WalkOK(s, todo),
         s.tag \in PhaseTags \ {"RUNNING_WAVE"}, t.tag \in PhaseTags \ {"RUNNING_WAVE"},
         t.phase = s.phase, t.indices = {},
         t.tag = "AWAIT_SIGNOFF" => t.ctx.lastVerdict = "pass"
  PROVE  WalkOK(t, todo)
BY DEF WalkOK, PhaseTags, LoopTags

(* Compiling again, for whatever reason, is for the same phase. *)
LEMMA CompilingKept ==
  ASSUME NEW s, s.tag \in {"COMPILING", "AWAIT_SEAL"}, NEW todo, WalkOK(s, todo),
         NEW cmd, NEW r, NEW n
  PROVE  Kept(s, todo, Compiling(cmd, s.phase, r, n), todo)
<1> DEFINE t == Compiling(cmd, s.phase, r, n)
<1>1. t.tag = "COMPILING" /\ t.phase = s.phase /\ t.indices = {}
  BY DEF Compiling, State
<1>. HIDE DEF t
<1>2. WalkOK(t, todo)
  BY <1>1, SamePhaseWalk DEF PhaseTags
<1>3. PromisedStep(s, todo, t, todo)
  BY <1>1, TagSets DEF PromisedStep
<1>. QED BY <1>2, <1>3 DEF Kept, t

(* A turn starts against the contract the state holds, for the same phase. *)
LEMMA StartIterationKept ==
  ASSUME InScenario, NEW s, StateOK(s), s.tag \in {"AWAIT_SEAL"} \cup WorkTags,
         NEW todo, WalkOK(s, todo), NEW ctx
  PROVE  Kept(s, todo, StartIteration(config, s.contract, s.phase, ctx), todo)
<1> DEFINE t == StartIteration(config, s.contract, s.phase, ctx)
<1>1. /\ t.tag = "RUNNING_AGENT" /\ t.phase = s.phase /\ t.indices = {}
      /\ t.contract = s.contract
  BY DEF StartIteration, State
<1>2. s.tag \in PhaseTags \ {"RUNNING_WAVE"}
  BY TagSets DEF PhaseTags, LoopTags
<1>3. s.contract # NoContract
  BY TagSets DEF StateOK, LoopTags
<1>4. todo # {}
  BY <1>2, OpenPhaseUnfinished
<1>. HIDE DEF t
<1>5. WalkOK(t, todo)
  BY <1>1, <1>2, SamePhaseWalk DEF PhaseTags, LoopTags
<1>6. PromisedStep(s, todo, t, todo)
  BY <1>1, <1>3, <1>4, TagSets DEF PromisedStep
<1>. QED BY <1>5, <1>6 DEF Kept, t

(* A compiled contract is sealed for the phase it was compiled for. *)
LEMMA StepCompilingKept ==
  ASSUME InScenario, NEW s, StateOK(s), s.tag = "COMPILING", NEW todo, WalkOK(s, todo),
         NEW e, Answers(s, e)
  PROVE  Kept(s, todo, StepCompiling(config, s, e), todo)
<1>1. s.tag \in DraftTags
  BY TagSets
<1>2. config.maxCompileRetries \in Nat /\ s.compileRound \in Nat
  BY ScenarioType DEF Configs, StateOK, States
<1>3. e.tag \in {"CONTRACT_COMPILED", "COMPILE_FAILED"}
  BY DEF Answers
<1>4. CASE e.tag = "CONTRACT_COMPILED"
  <2> DEFINE t == StepCompiling(config, s, e)
  <2>1. t.tag = "AWAIT_SEAL" /\ t.phase = s.phase /\ t.indices = {}
    BY <1>4 DEF StepCompiling, State
  <2>. HIDE DEF t
  <2>2. WalkOK(t, todo)
    BY <2>1, SamePhaseWalk DEF PhaseTags
  <2>3. PromisedStep(s, todo, t, todo)
    BY <1>1, <2>1, TagSets DEF PromisedStep
  <2>. QED BY <2>2, <2>3 DEF Kept, t
<1>5. CASE e.tag = "COMPILE_FAILED" /\ s.compileRound < config.maxCompileRetries
  <2>1. StepCompiling(config, s, e)
          = Compiling("COMPILE_VERIFIER", s.phase, s.reviseRound, s.compileRound + 1)
    BY <1>2, <1>5 DEF StepCompiling
  <2>. QED BY <2>1, CompilingKept
<1>6. CASE e.tag = "COMPILE_FAILED" /\ ~(s.compileRound < config.maxCompileRetries)
  <2>1. StepCompiling(config, s, e) = Stopped("FAILED", "compile-failed", NoContract, 0)
    BY <1>2, <1>6 DEF StepCompiling
  <2>. QED BY <1>1, <2>1, StoppedKept
<1>. QED BY <1>3, <1>4, <1>5, <1>6

(* An approved contract is the one the work starts against. *)
LEMMA StepAwaitSealKept ==
  ASSUME InScenario, NEW s, StateOK(s), s.tag = "AWAIT_SEAL", NEW todo, WalkOK(s, todo),
         NEW e, Answers(s, e)
  PROVE  Kept(s, todo, StepAwaitSeal(config, s, e), todo)
<1>1. s.tag \in DraftTags
  BY TagSets
<1>2. config.maxSealRevisions \in Nat /\ s.reviseRound \in Nat
  BY ScenarioType DEF Configs, StateOK, States
<1>3. e.decision \in {"approve", "reject", "revise", "edited"}
  BY DEF Answers
<1>4. CASE e.decision = "approve" /\ NeedsPreparation(s.contract)
  <2> DEFINE t == StepAwaitSeal(config, s, e)
  <2>1. /\ t.tag = "PREPARING" /\ t.phase = s.phase /\ t.indices = {}
        /\ t.contract = s.contract
    BY <1>4 DEF StepAwaitSeal, State
  <2>2. s.contract # NoContract
    BY DEF StateOK
  <2>3. todo # {}
    BY OpenPhaseUnfinished DEF PhaseTags
  <2>. HIDE DEF t
  <2>4. WalkOK(t, todo)
    BY <2>1, SamePhaseWalk DEF PhaseTags
  <2>5. PromisedStep(s, todo, t, todo)
    BY <1>1, <2>1, <2>2, <2>3, TagSets DEF PromisedStep
  <2>. QED BY <2>4, <2>5 DEF Kept, t
<1>5. CASE e.decision = "approve" /\ ~NeedsPreparation(s.contract)
  <2>1. StepAwaitSeal(config, s, e) = StartIteration(config, s.contract, s.phase, InitialCtx)
    BY <1>5 DEF StepAwaitSeal
  <2>. QED BY <2>1, StartIterationKept
<1>6. CASE e.decision = "reject"
  <2>1. StepAwaitSeal(config, s, e) = Stopped("ABORTED", "seal-rejected", s.contract, 0)
    BY <1>6 DEF StepAwaitSeal
  <2>. QED BY <1>1, <2>1, StoppedKept
<1>7. CASE e.decision = "revise" /\ s.reviseRound + 1 > config.maxSealRevisions
  <2>1. StepAwaitSeal(config, s, e) = Stopped("ABORTED", "seal-revision-cap", s.contract, 0)
    BY <1>2, <1>7 DEF StepAwaitSeal
  <2>. QED BY <1>1, <2>1, StoppedKept
<1>8. CASE e.decision = "revise" /\ ~(s.reviseRound + 1 > config.maxSealRevisions)
  <2>1. StepAwaitSeal(config, s, e) = Compiling("COMPILE_VERIFIER", s.phase, s.reviseRound + 1, 0)
    BY <1>2, <1>8 DEF StepAwaitSeal
  <2>. QED BY <2>1, CompilingKept
<1>9. CASE e.decision = "edited"
  <2>1. StepAwaitSeal(config, s, e) = Compiling("REFREEZE_CONTRACT", s.phase, s.reviseRound, 0)
    BY <1>9 DEF StepAwaitSeal
  <2>. QED BY <2>1, CompilingKept
<1>. QED BY <1>3, <1>4, <1>5, <1>6, <1>7, <1>8, <1>9

(* A prepared workspace starts the first turn of the same contract. *)
LEMMA StepPreparingKept ==
  ASSUME InScenario, NEW s, StateOK(s), s.tag = "PREPARING", NEW todo, WalkOK(s, todo), NEW e
  PROVE  Kept(s, todo, StepPreparing(config, s, e), todo)
<1>1. s.tag \in WorkTags
  BY TagSets
<1>2. CASE e.prepared = "proceed"
  BY <1>1, <1>2, StartIterationKept DEF StepPreparing
<1>3. CASE e.prepared # "proceed"
  BY <1>1, <1>3, StoppedKept DEF StepPreparing
<1>. QED BY <1>2, <1>3

-----------------------------------------------------------------------------
(* The loop stays with its phase and its contract until both keys turn. *)

(* Moving within the loop keeps the phase, the contract and what is left. *)
LEMMA LoopMoveKept ==
  ASSUME NEW s \in States, s.tag \in LoopTags, NEW todo, WalkOK(s, todo),
         NEW tag \in LoopTags, NEW cmd, NEW ctx,
         tag = "AWAIT_SIGNOFF" => ctx.lastVerdict = "pass"
  PROVE  Kept(s, todo, [s EXCEPT !.tag = tag, !.cmd = cmd, !.ctx = ctx], todo)
<1> DEFINE t == [s EXCEPT !.tag = tag, !.cmd = cmd, !.ctx = ctx]
<1>1. /\ t.tag = tag /\ t.ctx = ctx /\ t.phase = s.phase /\ t.indices = s.indices
      /\ t.contract = s.contract
  BY DEF States
<1>2. s.indices = {}
  BY DEF WalkOK, LoopTags
<1>3. s.tag \in PhaseTags \ {"RUNNING_WAVE"} /\ tag \in PhaseTags \ {"RUNNING_WAVE"}
  BY DEF PhaseTags, LoopTags
<1>. HIDE DEF t
<1>4. WalkOK(t, todo)
  BY <1>1, <1>2, <1>3, SamePhaseWalk
<1>5. PromisedStep(s, todo, t, todo)
  BY <1>1 DEF PromisedStep, WorkTags
<1>. QED BY <1>4, <1>5 DEF Kept, t

(* A turn makes the verdict on the tree before it void. *)
LEMMA StepRunningAgentKept ==
  ASSUME InScenario, NEW s, StateOK(s), s.tag = "RUNNING_AGENT", NEW todo, WalkOK(s, todo), NEW e
  PROVE  Kept(s, todo, StepRunningAgent(config, s, e), todo)
<1>1. s \in States /\ s.tag \in LoopTags /\ "VERIFYING" \in LoopTags
  BY DEF StateOK, LoopTags
<1> DEFINE next == AfterTurn(s.ctx, e)
<1>2. StepRunningAgent(config, s, e)
        = [s EXCEPT !.tag = "VERIFYING", !.cmd = "RUN_VERIFIER", !.ctx = next]
  BY DEF StepRunningAgent
<1>. HIDE DEF next
<1>3. Kept(s, todo, [s EXCEPT !.tag = "VERIFYING", !.cmd = "RUN_VERIFIER", !.ctx = next], todo)
  BY <1>1, LoopMoveKept
<1>. QED BY <1>2, <1>3

(* Only both keys end a contract well: without them no decision says DONE. *)
LEMMA DoneNeedsBothKeys ==
  ASSUME NEW cfg \in Configs, NEW contract, NEW ctx \in Ctxs,
         NEW pass \in BOOLEAN, NEW approval
  PROVE  Decide(cfg, contract, ctx, pass, approval).kind = "DONE"
           => pass /\ approval = "approve"
<1> DEFINE kind    == DetectStuck(cfg, ctx)
           stuck   == kind # "none" /\ ~(kind = "no-diff" /\ FreshVeto(ctx, pass, approval))
<1>0. ctx.iteration \in Int /\ IterationCap(cfg, ctx) \in Int
  BY CapType
<1>1. CASE pass /\ approval = "approve"
  BY <1>1, Zenon
<1>2. CASE ~(pass /\ approval = "approve") /\ stuck
  BY <1>2 DEF Decide, Decision
<1>3. CASE ~(pass /\ approval = "approve") /\ ~stuck
  BY <1>0, <1>3 DEF Decide, Decision
<1>. QED BY <1>1, <1>2, <1>3

(* Both keys say DONE before any backstop is consulted. *)
LEMMA BothKeysAreDone ==
  ASSUME NEW cfg, NEW contract, NEW ctx, NEW pass \in BOOLEAN, NEW approval,
         pass /\ approval = "approve"
  PROVE  Decide(cfg, contract, ctx, pass, approval)
           = Decision("DONE", "none", ctx.remediations, "both-keys")
BY Zenon DEF Decide

(* Without both keys the contract goes on, is adjudicated, or ends badly. *)
LEMMA OneKeyKept ==
  ASSUME InScenario, NEW s, StateOK(s), s.tag \in LoopTags, NEW todo, WalkOK(s, todo),
         NEW ctx \in Ctxs, NEW pass \in BOOLEAN, NEW approval,
         ~(pass /\ approval = "approve")
  PROVE  Kept(s, todo,
              ApplyDecision(config, s, ctx, Decide(config, s.contract, ctx, pass, approval)),
              todo)
<1> DEFINE d == Decide(config, s.contract, ctx, pass, approval)
           t == ApplyDecision(config, s, ctx, d)
<1>1. s \in States /\ config \in Configs /\ s.tag \in WorkTags
  BY ScenarioType DEF StateOK, WorkTags
<1>2. d \in Decisions /\ d.kind # "DONE"
  BY <1>1, DecideType, DoneNeedsBothKeys
<1>. HIDE DEF d
<1>3. d.kind \in {"CONTINUE", "ADJUDICATE", "FAILED", "ABORTED"}
  BY <1>2 DEF Decisions
<1>4. ASSUME d.kind = "CONTINUE" PROVE Kept(s, todo, t, todo)
  <2> DEFINE next == [ctx EXCEPT !.feedbackSource = d.source, !.remediations = d.ledger]
  <2>1. t = StartIteration(config, s.contract, s.phase, next)
    BY <1>4 DEF ApplyDecision
  <2>. HIDE DEF next, t
  <2>. QED BY <1>1, <2>1, StartIterationKept
<1>5. ASSUME d.kind = "ADJUDICATE" PROVE Kept(s, todo, t, todo)
  <2> DEFINE next == [ctx EXCEPT !.adjudicated = TRUE]
  <2>1. t = [s EXCEPT !.tag = "ADJUDICATING", !.cmd = "ADJUDICATE_CONTRACT", !.ctx = next]
    BY <1>5 DEF ApplyDecision
  <2>2. "ADJUDICATING" \in LoopTags /\ "ADJUDICATING" # "AWAIT_SIGNOFF"
    BY DEF LoopTags
  <2>. HIDE DEF next, t
  <2>3. Kept(s, todo,
             [s EXCEPT !.tag = "ADJUDICATING", !.cmd = "ADJUDICATE_CONTRACT", !.ctx = next],
             todo)
    BY <1>1, <2>2, LoopMoveKept
  <2>. QED BY <2>1, <2>3
<1>6. ASSUME d.kind \in {"FAILED", "ABORTED"} PROVE Kept(s, todo, t, todo)
  <2>1. t = Stopped(d.kind, d.reason, s.contract, ctx.iteration)
    BY <1>6 DEF ApplyDecision
  <2>. HIDE DEF t
  <2>. QED BY <1>1, <1>6, <2>1, StoppedKept
<1>7. Kept(s, todo, t, todo)
  BY <1>3, <1>4, <1>5, <1>6
<1>. QED BY <1>7 DEF t, d

(* A green ladder passes; a red one is one key at most. *)
LEMMA StepVerifyingKept ==
  ASSUME InScenario, NEW s, StateOK(s), s.tag = "VERIFYING", NEW todo, WalkOK(s, todo),
         NEW e, Answers(s, e)
  PROVE  Kept(s, todo, StepVerifying(config, s, e), todo)
<1>1. s \in States /\ s.ctx \in Ctxs /\ s.tag \in LoopTags /\ "AWAIT_SIGNOFF" \in LoopTags
  BY DEF StateOK, States, LoopTags
<1>2. /\ e.pass \in BOOLEAN /\ e.budget \in BOOLEAN
      /\ ~e.pass => e.detail \in world.details /\ e.evaluable \in BOOLEAN
  BY DEF Answers
<1>3. CASE e.pass
  <2> DEFINE next == AfterGreen(s.ctx, e)
  <2>1. StepVerifying(config, s, e)
          = [s EXCEPT !.tag = "AWAIT_SIGNOFF", !.cmd = "REQUEST_SIGNOFF", !.ctx = next]
    BY <1>3 DEF StepVerifying
  <2>2. next.lastVerdict = "pass"
    BY <1>1 DEF AfterGreen, Ctxs
  <2>. HIDE DEF next
  <2>3. Kept(s, todo,
             [s EXCEPT !.tag = "AWAIT_SIGNOFF", !.cmd = "REQUEST_SIGNOFF", !.ctx = next], todo)
    BY <1>1, <2>2, LoopMoveKept
  <2>. QED BY <2>1, <2>3
<1>4. CASE ~e.pass
  <2> DEFINE next == AfterRed(s.ctx, e)
  <2>1. next \in Ctxs
    BY <1>1, <1>2, <1>4, CtxTypes
  <2>2. StepVerifying(config, s, e)
          = ApplyDecision(config, s, next, Decide(config, s.contract, next, FALSE, "none"))
    BY <1>4 DEF StepVerifying
  <2>. HIDE DEF next
  <2>. QED BY <1>1, <2>1, <2>2, OneKeyKept
<1>. QED BY <1>2, <1>3, <1>4

(***************************************************************************)
(* An approval accepts the first unfinished phase: the walk never stands   *)
(* behind one that is left, and the acceptance is the last of them all.    *)
(***************************************************************************)
LEMMA StepAwaitSignoffKept ==
  ASSUME InScenario, NEW s, StateOK(s), s.tag = "AWAIT_SIGNOFF", NEW h, WalkOK(s, h.todo),
         NEW e, Answers(s, e)
  PROVE  Kept(s, h.todo, StepAwaitSignoff(config, s, e), NextTodo(h, s, e))
<1> DEFINE next == [s.ctx EXCEPT !.lastBudget = e.budget]
           pass == next.lastVerdict = "pass"
           d    == Decide(config, s.contract, next, pass, e.approval)
           t    == StepAwaitSignoff(config, s, e)
<1>1. s \in States /\ s.ctx \in Ctxs /\ s.tag \in LoopTags
  BY DEF StateOK, States, LoopTags
<1>2. /\ e.tag = "SIGNOFF_DECIDED" /\ e.approval \in {"approve", "veto"}
      /\ e.budget \in BOOLEAN
  BY DEF Answers
<1>3. next \in Ctxs
  BY <1>1, <1>2 DEF Ctxs
<1>4. pass /\ pass \in BOOLEAN
  BY <1>1 DEF WalkOK, Ctxs
<1>5. t = ApplyDecision(config, s, next, d)
  BY DEF StepAwaitSignoff
<1>. HIDE DEF next, pass
<1>6. CASE e.approval = "veto"
  <2>1. NextTodo(h, s, e) = h.todo
    BY <1>2, <1>6 DEF NextTodo
  <2>2. Kept(s, h.todo, ApplyDecision(config, s, next, d), h.todo)
    BY <1>1, <1>3, <1>4, <1>6, OneKeyKept
  <2>. QED BY <1>5, <2>1, <2>2 DEF t
<1>7. CASE e.approval = "approve"
  <2> DEFINE index == s.phase.index
             n     == PlanSize(s.phase.plan)
             left  == h.todo \ {index}
  <2>1. NextTodo(h, s, e) = left
    BY <1>2, <1>7 DEF NextTodo
  <2>2. d.kind = "DONE"
    <3>1. pass /\ e.approval = "approve"
      BY <1>4, <1>7
    <3>2. d = Decision("DONE", "none", next.remediations, "both-keys")
      BY <1>4, <3>1, BothKeysAreDone, Zenon
    <3>. HIDE DEF d
    <3>. QED BY <3>2 DEF Decision
  <2>. HIDE DEF d
  <2>3. t = PhaseDone(s, next)
    BY <1>5, <2>2 DEF ApplyDecision
  <2>4. s.phase \in Phases /\ PhaseOK(s.phase) /\ DependsBack(s.phase.plan)
    BY <1>1 DEF StateOK, States, WalkOK
  <2>5. n \in Nat /\ index \in Nat /\ index <= n
    BY <2>4, PhaseType
  <2>6. h.todo = Left(s.phase, index)
    BY DEF WalkOK, PhaseTags, LoopTags
  <2>7. index \in h.todo
    BY <1>1, OpenPhaseUnfinished DEF PhaseTags
  <2>8. left = Left(s.phase, index + 1)
    BY <2>5, <2>6 DEF Left
  <2>9. h.todo \subseteq Nat /\ \A j \in h.todo : index <= j
    BY <2>5, <2>6 DEF Left
  <2>10. s.ctx.lastVerdict = "pass"
    BY DEF WalkOK
  <2>. HIDE DEF t
  <2>11. CASE index < n
    <3>1. t = [State("ADVANCING_PHASE", "CHECKPOINT_AND_ADVANCE") EXCEPT
                 !.phase = s.phase, !.iterations = next.iteration]
      BY <2>3, <2>11 DEF PhaseDone
    <3>2. t.tag = "ADVANCING_PHASE" /\ t.phase = s.phase /\ t.indices = {}
      BY <3>1 DEF State
    <3>3. WalkOK(t, left)
      BY <2>4, <2>8, <3>2 DEF WalkOK, PhaseTags, LoopTags
    <3>4. left # {}
      <4>1. n \notin s.phase.skip
        BY <2>4, <2>5 DEF PhaseOK
      <4>. QED BY <2>5, <2>8, <2>11, <4>1 DEF Left
    <3>5. PromisedStep(s, h.todo, t, left)
      BY <2>7, <2>9, <2>10, <3>2, <3>4, TagSets DEF PromisedStep
    <3>. QED BY <2>1, <3>3, <3>5 DEF Kept, t
  <2>12. CASE ~(index < n)
    <3>1. t = Stopped("DONE", "both-keys", s.contract, next.iteration)
      BY <2>3, <2>12 DEF PhaseDone
    <3>2. /\ t.tag = "DONE" /\ t.phase = NoPhase /\ t.indices = {}
          /\ t.contract = s.contract
      BY <3>1 DEF Stopped, State
    <3>3. DependsBack(t.phase.plan)
      BY <3>2, EmptyPlanDependsBack DEF NoPhase
    <3>4. WalkOK(t, left)
      BY <3>2, <3>3 DEF WalkOK, PhaseTags, LoopTags
    <3>5. left = {}
      BY <2>5, <2>8, <2>12 DEF Left
    <3>6. PromisedStep(s, h.todo, t, left)
      BY <2>7, <2>9, <2>10, <3>2, <3>5 DEF PromisedStep
    <3>. QED BY <2>1, <3>4, <3>6 DEF Kept, t
  <2>. QED BY <2>11, <2>12
<1>. QED BY <1>2, <1>6, <1>7

-----------------------------------------------------------------------------
(* The theorems. *)

(* Whatever an answer to the command at hand is, the reducer keeps the walk. *)
LEMMA StepKept ==
  ASSUME InScenario, NEW s, StateOK(s), NEW h, WalkOK(s, h.todo), NEW e, Answers(s, e)
  PROVE  Kept(s, h.todo, Step(config, s, e), NextTodo(h, s, e))
<1>1. ASSUME e.tag \notin {"PLAN_SEAL_DECIDED", "WAVE_RAN", "SIGNOFF_DECIDED"}
      PROVE  NextTodo(h, s, e) = h.todo
  BY <1>1 DEF NextTodo
<1>2. CASE s.tag = "PLANNING"
  <2>1. Step(config, s, e) = StepPlanning(config, s, e)
    BY <1>2 DEF Step
  <2>2. e.tag \in {"PLAN_COMPILED", "PLAN_FAILED"} /\ h.todo = {}
    BY <1>2 DEF Answers, WalkOK
  <2>. QED BY <1>1, <1>2, <2>1, <2>2, StepPlanningKept
<1>3. CASE s.tag = "AWAIT_PLAN_SEAL"
  <2>1. Step(config, s, e) = StepAwaitPlanSeal(config, s, e)
    BY <1>3 DEF Step
  <2>. QED BY <1>3, <2>1, StepAwaitPlanSealKept
<1>4. CASE s.tag = "ADVANCING_PHASE"
  <2>1. Step(config, s, e) = StepAdvancingPhase(config, s, e)
    BY <1>4 DEF Step
  <2>2. e.tag = "PHASE_ADVANCED"
    BY <1>4 DEF Answers
  <2>. QED BY <1>1, <1>4, <2>1, <2>2, StepAdvancingPhaseKept
<1>5. CASE s.tag = "RUNNING_WAVE"
  <2>1. Step(config, s, e) = StepRunningWave(config, s, e)
    BY <1>5 DEF Step
  <2>. QED BY <1>5, <2>1, StepRunningWaveKept
<1>6. CASE s.tag = "COMPILING"
  <2>1. Step(config, s, e) = StepCompiling(config, s, e)
    BY <1>6 DEF Step
  <2>2. e.tag \in {"CONTRACT_COMPILED", "COMPILE_FAILED"}
    BY <1>6 DEF Answers
  <2>. QED BY <1>1, <1>6, <2>1, <2>2, StepCompilingKept
<1>7. CASE s.tag = "AWAIT_SEAL"
  <2>1. Step(config, s, e) = StepAwaitSeal(config, s, e)
    BY <1>7 DEF Step
  <2>2. e.tag = "SEAL_DECIDED"
    BY <1>7 DEF Answers
  <2>. QED BY <1>1, <1>7, <2>1, <2>2, StepAwaitSealKept
<1>8. CASE s.tag = "PREPARING"
  <2>1. Step(config, s, e) = StepPreparing(config, s, e)
    BY <1>8 DEF Step
  <2>2. e.tag = "WORKSPACE_PREPARED"
    BY <1>8 DEF Answers
  <2>. QED BY <1>1, <1>8, <2>1, <2>2, StepPreparingKept
<1>9. CASE s.tag = "RUNNING_AGENT"
  <2>1. Step(config, s, e) = StepRunningAgent(config, s, e)
    BY <1>9 DEF Step
  <2>2. e.tag = "AGENT_RAN"
    BY <1>9 DEF Answers
  <2>. QED BY <1>1, <1>9, <2>1, <2>2, StepRunningAgentKept
<1>10. CASE s.tag = "VERIFYING"
  <2>1. Step(config, s, e) = StepVerifying(config, s, e)
    BY <1>10 DEF Step
  <2>2. e.tag = "VERIFIED"
    BY <1>10 DEF Answers
  <2>. QED BY <1>1, <1>10, <2>1, <2>2, StepVerifyingKept
<1>11. CASE s.tag = "AWAIT_SIGNOFF"
  <2>1. Step(config, s, e) = StepAwaitSignoff(config, s, e)
    BY <1>11 DEF Step
  <2>. QED BY <1>11, <2>1, StepAwaitSignoffKept
<1>12. CASE s.tag = "ADJUDICATING"
  <2>1. Step(config, s, e) = StepAdjudicating(config, s, e)
    BY <1>12 DEF Step
  <2>2. e.tag = "CONTRACT_ADJUDICATED" /\ s.tag \in WorkTags
    BY <1>12, TagSets DEF Answers
  <2>3. Kept(s, h.todo, StepAdjudicating(config, s, e), h.todo)
    BY <2>2, StoppedKept DEF StepAdjudicating
  <2>. QED BY <1>1, <2>1, <2>2, <2>3
<1>. QED BY <1>2, <1>3, <1>4, <1>5, <1>6, <1>7, <1>8, <1>9, <1>10, <1>11, <1>12 DEF Answers

(* So does every action; the others change nothing. *)
LEMMA NextKept ==
  ASSUME WalkInv, Next
  PROVE  Kept(st, hist.todo, st', hist'.todo) \/ UNCHANGED vars
<1>1. TypeOK /\ InScenario /\ StateOK(st) /\ WalkOK(st, hist.todo)
  BY TypeOKFacts DEF WalkInv
<1>2. CASE UNCHANGED vars
  BY <1>2
<1>3. CASE \E e : Apply(e) /\ Answers(st, e)
  <2>1. PICK e : Apply(e) /\ Answers(st, e)
    BY <1>3
  <2>2. st' = Step(config, st, e) /\ hist'.todo = NextTodo(hist, st, e)
    BY <2>1 DEF Apply, NextHist
  <2>3. Kept(st, hist.todo, Step(config, st, e), NextTodo(hist, st, e))
    BY <1>1, <2>1, StepKept
  <2>. QED BY <2>2, <2>3
<1>. QED BY <1>1, <1>2, <1>3, NextIsAnswer

(* Before the plan is sealed nothing is unfinished; without one, the acceptance is. *)
LEMMA WalkInvInit == Init => WalkInv
<1> SUFFICES ASSUME Init PROVE WalkInv
  OBVIOUS
<1>1. st.phase = NoPhase /\ st.indices = {} /\ st.tag \in {"PLANNING", "COMPILING"}
  BY DEF Init, InitialState, State
<1>2. DependsBack(st.phase.plan)
  BY <1>1, EmptyPlanDependsBack DEF NoPhase
<1>3. CASE config.phased
  <2>1. st.tag = "PLANNING" /\ hist.todo = {}
    BY <1>3 DEF Init, InitialState, State, NoHistory
  <2>2. WalkOK(st, hist.todo)
    BY <1>1, <1>2, <2>1 DEF WalkOK, PhaseTags, LoopTags
  <2>. QED BY <2>2, InitType DEF WalkInv
<1>4. CASE ~config.phased
  <2>1. st.tag = "COMPILING" /\ hist.todo = {0}
    BY <1>4 DEF Init, InitialState, State, NoHistory
  <2>2. st.phase.index \notin st.phase.skip /\ Left(st.phase, st.phase.index) = {0}
    BY <1>1, EmptyPlanSize DEF Left, NoPhase
  <2>3. WalkOK(st, hist.todo)
    BY <1>1, <1>2, <2>1, <2>2 DEF WalkOK, PhaseTags, LoopTags
  <2>. QED BY <2>3, InitType DEF WalkInv
<1>. QED BY <1>3, <1>4

(* Every action keeps the walk. *)
LEMMA WalkInvNext == WalkInv /\ [Next]_vars => WalkInv'
<1> SUFFICES ASSUME WalkInv, [Next]_vars PROVE WalkInv'
  OBVIOUS
<1>1. TypeOK'
  BY NextType DEF WalkInv
<1>2. WalkOK(st', hist'.todo)
  <2>1. CASE UNCHANGED vars
    BY <2>1 DEF WalkInv, vars
  <2>2. CASE Next
    BY <2>1, <2>2, NextKept DEF Kept
  <2>. QED BY <2>1, <2>2
<1>3. WalkOK(st, hist.todo)'
  BY <1>2
<1>. QED BY <1>1, <1>3 DEF WalkInv

(* The walk is in order throughout every run. *)
LEMMA WalkInvariant == Spec => []WalkInv
<1>1. Init => WalkInv
  BY WalkInvInit
<1>2. WalkInv /\ [Next]_vars => WalkInv'
  BY WalkInvNext
<1>. QED BY <1>1, <1>2, PTL DEF Spec

(***************************************************************************)
(* Whatever the plan, its edges and its bands, no phase is worked on, in a *)
(* wave or alone, before those it depends on are accepted or merged, and   *)
(* none is worked on again after that or fanned out twice.                 *)
(***************************************************************************)
THEOREM PhasesAreInOrder == Spec => []PhasesInOrder
<1>1. WalkInv => PhasesInOrder
  <2> SUFFICES ASSUME WalkInv, Active PROVE PhasesInOrder
    BY DEF PhasesInOrder, PrerequisitesComplete, NoCompletedPhaseRepeats
  <2>1. /\ InScenario /\ StateOK(st) /\ WalkOK(st, hist.todo) /\ st.tag \in PhaseTags
        /\ DependsBack(st.phase.plan)
    BY TypeOKFacts DEF WalkInv, Active, PhaseTags, WalkOK
  <2>2. CASE st.tag = "RUNNING_WAVE"
    <3>1. WaveOK(st, hist.todo)
      BY <2>1, <2>2 DEF WalkOK
    <3>. QED BY <2>2, <3>1 DEF WaveOK, PhasesInOrder, PrerequisitesComplete,
                               NoCompletedPhaseRepeats, ActivePhases
  <2>3. CASE st.tag # "RUNNING_WAVE"
    <3> DEFINE index == st.phase.index
    <3>1. ActivePhases = {index} /\ st.indices = {}
      BY <2>1, <2>3 DEF ActivePhases, WalkOK
    <3>2. index \in hist.todo
      BY <2>1, OpenPhaseUnfinished
    <3>3. ASSUME index \in DOMAIN st.phase.plan
          PROVE  DependenciesOf(st.phase.plan, index) \cap hist.todo = {}
      <4>1. DependenciesOf(st.phase.plan, index) \subseteq 0 .. (index - 1)
        BY <2>1, <3>3 DEF DependsBack
      <4>2. index \in Nat /\ PlanSize(st.phase.plan) \in Nat
        BY <2>1, PhaseType DEF StateOK, States
      <4>3. hist.todo \subseteq index .. PlanSize(st.phase.plan)
        BY <2>1 DEF WalkOK, Left
      <4>. QED BY <4>1, <4>2, <4>3
    <3>. QED BY <3>1, <3>2, <3>3 DEF PhasesInOrder, PrerequisitesComplete,
                                     NoCompletedPhaseRepeats
  <2>. QED BY <2>2, <2>3
<1>. QED BY <1>1, WalkInvariant, PTL

-----------------------------------------------------------------------------
(* The reducer implements TwoKeys. *)

(* What the state is in the terms of TwoKeys. *)
LEMMA Abstracted ==
  ASSUME st.tag \in Tags
  PROVE  /\ st.tag \in DraftTags => AbstractStage = "drafting"
         /\ st.tag \in WorkTags => AbstractStage = "working"
         /\ st.tag \in {"FAILED", "ABORTED"} => AbstractStage = "stopped"
         /\ st.tag = "DONE" => AbstractStage = "accepted"
         /\ st.tag \in DraftTags \cup WorkTags \cup {"FAILED", "ABORTED", "DONE"}
BY DEF AbstractStage, DraftTags, WorkTags, LoopTags, TerminalTags

(* So is the next state. *)
LEMMA AbstractedNext ==
  ASSUME st'.tag \in Tags
  PROVE  /\ st'.tag \in DraftTags => AbstractStage' = "drafting"
         /\ st'.tag \in WorkTags => AbstractStage' = "working"
         /\ st'.tag \in {"FAILED", "ABORTED"} => AbstractStage' = "stopped"
         /\ st'.tag = "DONE" => AbstractStage' = "accepted"
         /\ st'.tag \in DraftTags \cup WorkTags \cup {"FAILED", "ABORTED", "DONE"}
BY DEF AbstractStage, DraftTags, WorkTags, LoopTags, TerminalTags

(* The initial states promise nothing yet. *)
LEMMA InitIsPromised == Init => Promise!Init
<1> SUFFICES ASSUME Init PROVE Promise!Init
  OBVIOUS
<1>1. st.tag \in {"PLANNING", "COMPILING"} /\ hist.todo \in { {}, {0} }
  BY DEF Init, InitialState, State, NoHistory
<1>2. AbstractStage = "drafting"
  BY <1>1 DEF AbstractStage, LoopTags
<1>. QED BY <1>1, <1>2 DEF Promise!Init

(* A set's greatest element is its Max, and its least one its Min. *)
LEMMA ExtremesAre ==
  ASSUME NEW S, S \subseteq Nat, NEW m \in S
  PROVE  /\ (\A x \in S : x <= m) => Promise!Max(S) = m
         /\ (\A x \in S : m <= x) => Promise!Min(S) = m
<1>1. \A x, y \in S : x <= y /\ y <= x => x = y
  OBVIOUS
<1>. QED BY <1>1 DEF Promise!Max, Promise!Min

(* A step of one of the shapes is a step of TwoKeys. *)
LEMMA ShapesArePromised ==
  ASSUME st.tag \in Tags, st'.tag \in Tags, PromisedStep(st, hist.todo, st', hist'.todo)
  PROVE  [Promise!Next]_(Promise!vars)
<1> DEFINE todo == hist.todo
           left == hist'.todo
<1>0. /\ st.tag \in WorkTags => st.tag \notin DraftTags
      /\ st'.tag \in WorkTags => st'.tag \notin DraftTags
      /\ st.tag = "AWAIT_SIGNOFF" => st.tag \in WorkTags
      /\ st'.tag = "AWAIT_SIGNOFF" => st'.tag \in WorkTags
  BY TagSets
<1>1. ASSUME st.tag \in DraftTags \cup WorkTags, st'.tag \in {"FAILED", "ABORTED"}, left = todo
      PROVE  Promise!Stop
  BY <1>1, Abstracted, AbstractedNext DEF Promise!Stop
<1>2. ASSUME st.tag \in DraftTags, st'.tag \in DraftTags, left = todo
      PROVE  UNCHANGED Promise!vars
  BY <1>0, <1>2, Abstracted, AbstractedNext DEF Promise!vars
<1>3. ASSUME st.tag \in DraftTags, st'.tag \in DraftTags, todo = {}, NEW n \in Nat, left = 0 .. n
      PROVE  Promise!SealPlan
  <2>1. left # {} /\ left \subseteq Nat /\ n \in left /\ \A x \in left : x <= n
    BY <1>3
  <2>2. left = 0 .. Promise!Max(left)
    BY <1>3, <2>1, ExtremesAre
  <2>3. UNCHANGED AbstractStage /\ AbstractStage = "drafting"
    BY <1>3, Abstracted, AbstractedNext
  <2>. QED BY <1>0, <1>3, <2>1, <2>2, <2>3 DEF Promise!SealPlan
<1>4. ASSUME st.tag \in DraftTags, st'.tag \in DraftTags, left \subseteq todo, todo \subseteq Nat,
             NEW last \in left, \A i \in todo : i <= last
      PROVE  Promise!Merge
  <2>1. Promise!Max(todo) = last
    BY <1>4, ExtremesAre
  <2>2. UNCHANGED AbstractStage /\ AbstractStage = "drafting"
    BY <1>4, Abstracted, AbstractedNext
  <2>. QED BY <1>0, <1>4, <2>1, <2>2 DEF Promise!Merge
<1>5. ASSUME st.tag \in DraftTags, st'.tag \in WorkTags \ {"AWAIT_SIGNOFF"},
             st'.contract # NoContract, todo # {}, left = todo
      PROVE  Promise!Freeze
  <2>1. AbstractStage = "drafting" /\ AbstractStage' = "working"
    BY <1>5, Abstracted, AbstractedNext
  <2>. QED BY <1>5, <2>1 DEF Promise!Freeze
<1>6. ASSUME st.tag \in WorkTags, st'.tag \in WorkTags, st'.contract = st.contract, left = todo,
             st'.tag = "AWAIT_SIGNOFF" => st'.ctx.lastVerdict = "pass"
      PROVE  Promise!Work \/ Promise!Pass
  <2>1. AbstractStage = "working" /\ AbstractStage' = "working"
    BY <1>6, Abstracted, AbstractedNext
  <2>2. CASE st'.tag = "AWAIT_SIGNOFF"
    BY <1>6, <2>1, <2>2 DEF Promise!Pass
  <2>3. CASE st'.tag # "AWAIT_SIGNOFF"
    BY <1>6, <2>1, <2>3 DEF Promise!Work
  <2>. QED BY <2>2, <2>3
<1>7. ASSUME st.tag = "AWAIT_SIGNOFF", st.ctx.lastVerdict = "pass", todo \subseteq Nat,
             NEW i \in todo, \A j \in todo : i <= j, left = todo \ {i},
             \/ left = {} /\ st'.tag = "DONE" /\ st'.contract = st.contract
             \/ left # {} /\ st'.tag \in DraftTags
      PROVE  Promise!Accept
  <2>1. Promise!Min(todo) = i
    BY <1>7, ExtremesAre
  <2>2. AbstractStage = "working"
    BY <1>0, <1>7, Abstracted
  <2>3. CASE left = {} /\ st'.tag = "DONE" /\ st'.contract = st.contract
    <3>1. AbstractStage' = "accepted"
      BY <2>3, AbstractedNext
    <3>. QED BY <1>7, <2>1, <2>2, <2>3, <3>1 DEF Promise!Accept
  <2>4. CASE left # {} /\ st'.tag \in DraftTags
    <3>1. AbstractStage' = "drafting"
      BY <2>4, AbstractedNext
    <3>. QED BY <1>0, <1>7, <2>1, <2>2, <2>4, <3>1 DEF Promise!Accept
  <2>. QED BY <1>7, <2>3, <2>4
<1>. QED BY <1>1, <1>2, <1>3, <1>4, <1>5, <1>6, <1>7 DEF PromisedStep, Promise!Next

(***************************************************************************)
(* The reducer keeps the promise of TwoKeys for every configuration, plan  *)
(* and result of a command: a contract is frozen before the work and never *)
(* changed during it, nothing is accepted without a green ladder over the  *)
(* tree as it stands, phases are accepted in order, the acceptance last.   *)
(***************************************************************************)
THEOREM PromiseKept == Spec => KeepsPromise
<1>1. Init => Promise!Init
  BY InitIsPromised
<1>2. WalkInv /\ WalkInv' /\ [Next]_vars => [Promise!Next]_(Promise!vars)
  <2> SUFFICES ASSUME WalkInv, WalkInv', [Next]_vars PROVE [Promise!Next]_(Promise!vars)
    OBVIOUS
  <2>1. st.tag \in Tags /\ st'.tag \in Tags
    BY DEF WalkInv, TypeOK, StateOK, States
  <2>2. CASE UNCHANGED vars
    BY <2>2 DEF vars, Promise!vars, AbstractStage
  <2>3. CASE Kept(st, hist.todo, st', hist'.todo)
    BY <2>1, <2>3, ShapesArePromised DEF Kept
  <2>. QED BY <2>2, <2>3, NextKept
<1>. QED BY <1>1, <1>2, WalkInvariant, PTL DEF Spec, KeepsPromise, Promise!Spec
=============================================================================
