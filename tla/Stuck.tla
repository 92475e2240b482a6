------------------------------- MODULE Stuck -------------------------------
(***************************************************************************)
(* Stuck detection (src/src/orchestrator/stuck.ts): pure functions of the  *)
(* histories the loop context carries.  A loop context is a record with    *)
(* the fields of LoopCtx in state.ts; a configuration is a record with the *)
(* loop policy of RunConfig (the stuck policy is flattened into it).       *)
(*                                                                         *)
(* Message texts are left out: a stuck reason is its kind.                 *)
(***************************************************************************)
EXTENDS Integers, Sequences, FiniteSets, FiniteSetsExt

RunStatuses == {"completed", "crashed", "truncated", "timeout"}

BrokenStuckOrder == << "crash", "unevaluable", "timeout-no-diff",
                       "no-diff", "oscillation", "repeat", "budget" >>

(***************************************************************************)
(* The detectors in the order detectStuck consults them: the first one     *)
(* that trips names the reason.                                            *)
(***************************************************************************)
StuckOrder == << "budget", "crash", "unevaluable", "timeout-no-diff",
                 "no-diff", "oscillation", "repeat" >>

MaxOscillationPeriod == 4

(***************************************************************************)
(* A failing verdict's detail carries run-to-run noise (timestamps, pids,  *)
(* temp paths); normalisation scrubs it and keeps the failure signature.   *)
(***************************************************************************)
NormalizeDetail(detail) == detail.signature

LastRunStatus(ctx) ==
  IF ctx.runStatusHistory = << >> THEN "none"
  ELSE ctx.runStatusHistory[Len(ctx.runStatusHistory)]

(* Positions of the last n entries of a history. *)
TailPositions(history, n) == (Len(history) - n + 1) .. Len(history)

IsCrashStreak(history, threshold) ==
  /\ Len(history) >= threshold
  /\ \A i \in TailPositions(history, threshold) : history[i] = "crashed"

IsUnevaluableStreak(history, threshold) ==
  /\ Len(history) >= threshold
  /\ \A i \in TailPositions(history, threshold) : history[i] = FALSE

IsRepeating(history, threshold) ==
  /\ Len(history) >= threshold
  /\ \A i \in TailPositions(history, threshold) : history[i] = history[Len(history)]

(***************************************************************************)
(* Consecutive turns, ending with the current one, that timed out and left *)
(* the tree unchanged.  The current turn is read from lastNoDiff; earlier  *)
(* ones from the parallel histories, where the first turn never counts     *)
(* because the hash before it was not recorded.                            *)
(***************************************************************************)
TimeoutNoDiffStreak(ctx) ==
  LET statuses == ctx.runStatusHistory
      hashes   == ctx.diffHashHistory
      idle(i)  == statuses[i] = "timeout" /\ hashes[i] = hashes[i - 1]
      earlier  == 2 .. (Len(statuses) - 1)
  IN  IF LastRunStatus(ctx) # "timeout" \/ ~ctx.lastNoDiff THEN 0
      ELSE 1 + Cardinality({ i \in earlier :
                               \A j \in i .. (Len(statuses) - 1) : idle(j) })

NoDiffExcusedByRun(cfg, ctx) ==
  \/ LastRunStatus(ctx) \in {"crashed", "truncated"}
  \/ /\ LastRunStatus(ctx) = "timeout"
     /\ TimeoutNoDiffStreak(ctx) < cfg.timeoutNoDiffThreshold

(* The last 2p hashes are two equal blocks of length p that are not constant. *)
IsRepeatingBlock(history, p) ==
  LET n == Len(history) IN
  /\ n >= 2 * p
  /\ \A i \in 1 .. p : history[n - 2 * p + i] = history[n - p + i]
  /\ \E i \in 1 .. p : history[n - p + i] # history[n - p + 1]

Oscillates(history) ==
  \E p \in 2 .. MaxOscillationPeriod : IsRepeatingBlock(history, p)

CrashThreshold(cfg, ctx)  == cfg.harnessCrashThreshold + ctx.remediations.crash
RepeatThreshold(cfg, ctx) == cfg.repeatFailureThreshold + ctx.remediations.repeat

NoDiffTrips(cfg, ctx) ==
  /\ cfg.noDiff
  /\ ctx.lastNoDiff
  /\ ctx.iteration >= 1
  /\ ~NoDiffExcusedByRun(cfg, ctx)

Trips(cfg, ctx, kind) ==
  \/ kind = "budget"          /\ ctx.lastBudget
  \/ kind = "crash"           /\ IsCrashStreak(ctx.runStatusHistory, CrashThreshold(cfg, ctx))
  \/ kind = "unevaluable"     /\ IsUnevaluableStreak(ctx.verifierEvaluableHistory,
                                                     cfg.unevaluableThreshold)
  \/ kind = "timeout-no-diff" /\ TimeoutNoDiffStreak(ctx) >= cfg.timeoutNoDiffThreshold
  \/ kind = "no-diff"         /\ NoDiffTrips(cfg, ctx)
  \/ kind = "oscillation"     /\ cfg.oscillation /\ Oscillates(ctx.diffHashHistory)
  \/ kind = "repeat"          /\ IsRepeating(ctx.verifierDetailHistory, RepeatThreshold(cfg, ctx))

(* The kind of the first detector that trips, "none" when the run is not stuck. *)
DetectStuck(cfg, ctx) ==
  LET tripped == { i \in 1 .. Len(StuckOrder) : Trips(cfg, ctx, StuckOrder[i]) }
  IN  IF tripped = {} THEN "none" ELSE StuckOrder[Min(tripped)]
=============================================================================
