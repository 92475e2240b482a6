------------------------------- MODULE Replay -------------------------------
(***************************************************************************)
(* Replay (src/src/runlog/replay.ts): the state a run reached, as a fold   *)
(* of the reducer over its logged events, under a configuration the log's  *)
(* own RUN_EXTENDED markers may have overlaid since; and the relief a      *)
(* resume of an aborted run grants itself.                                 *)
(*                                                                         *)
(* An entry is [seq, event, after].  A configuration has, besides the loop *)
(* policy, tokens: the token cap.  An overlay is a function on the fields  *)
(* it replaces.  Events that read the meter carry the flag it raised and   *)
(* the spend it saw.                                                       *)
(***************************************************************************)
EXTENDS Step, SequencesExt

(* Markers the Driver writes for itself; the reducer never sees them. *)
DriverOnlyTags ==
  {"CHECKPOINTED", "CANDIDATE_RAN", "CANDIDATE_SELECTED", "RUN_EXTENDED",
   "DEGRADED_ESCALATED"}

Folded(log) == { i \in DOMAIN log : log[i].event.tag \notin DriverOnlyTags }

Markers(log) == { i \in DOMAIN log : log[i].event.tag = "RUN_EXTENDED" }

-----------------------------------------------------------------------------
(* Extensions. *)

(* The knobs of a RunConfig and the values its schema lets through. *)
Knobs ==
  [phased |-> BOOLEAN, parallelPhases |-> BOOLEAN, autoRemediate |-> BOOLEAN,
   deltaVerify |-> BOOLEAN, noDiff |-> BOOLEAN, oscillation |-> BOOLEAN, collapse |-> BOOLEAN,
   maxPlanRetries |-> Nat, maxPlanRevisions |-> Nat, maxCompileRetries |-> Nat,
   maxSealRevisions |-> Nat, tokens |-> Nat,
   maxIterations |-> Nat \ {0}, candidates |-> Nat \ {0},
   repeatFailureThreshold |-> Nat \ {0, 1}, harnessCrashThreshold |-> Nat \ {0, 1},
   unevaluableThreshold |-> Nat \ {0, 1}, timeoutNoDiffThreshold |-> Nat \ {0, 1}]

(* The ones a RUN_EXTENDED marker may replace: operational, never the contract's. *)
Extendable ==
  {"maxIterations", "candidates", "tokens", "noDiff", "oscillation", "repeatFailureThreshold",
   "harnessCrashThreshold", "unevaluableThreshold", "timeoutNoDiffThreshold"}

ConfigOK(c) ==
  c = [k \in DOMAIN Knobs |-> c[k]] /\ \A k \in DOMAIN Knobs : c[k] \in Knobs[k]

OverlayOK(o) == DOMAIN o \subseteq Extendable /\ \A k \in DOMAIN o : o[k] \in Knobs[k]

NoOverlay == << >>

(* The fields of f, with those of over laid over them. *)
Overlaid(f, over) ==
  [k \in DOMAIN f \cup DOMAIN over |-> IF k \in DOMAIN over THEN over[k] ELSE f[k]]

(* Each field has the value the last marker that carries it gave it. *)
ExtendedRunConfig(cfg, log) ==
  LET carrying(k) == { i \in Markers(log) : k \in DOMAIN log[i].event.overlay }
  IN  IF Markers(log) = {} THEN cfg
      ELSE [k \in DOMAIN cfg |-> IF carrying(k) = {} THEN cfg[k]
                                 ELSE log[Max(carrying(k))].event.overlay[k]]

(***************************************************************************)
(* d lets a run under c go on where it did, and maybe further: no bound    *)
(* that is consulted in the past is lower, no detector is switched on, and *)
(* the no-diff detector stays, or the oscillation detector it stands       *)
(* before is off.                                                          *)
(***************************************************************************)
Furthers(c, d) ==
  /\ \A k \in {"maxIterations", "repeatFailureThreshold", "harnessCrashThreshold",
             "unevaluableThreshold"} : d[k] >= c[k]
  /\ d.noDiff => c.noDiff
  /\ d.oscillation => c.oscillation
  /\ d.noDiff = c.noDiff \/ ~d.oscillation

BudgetExtended(log) == \E i \in Markers(log) : "tokens" \in DOMAIN log[i].event.overlay

(* Only a turn's own reading is judged again by the extended cap. *)
RejudgeBudget(cfg, e) ==
  IF e.tag = "AGENT_RAN" THEN [e EXCEPT !.budget = e.spent >= cfg.tokens] ELSE e

-----------------------------------------------------------------------------
(* Thresholds each entry is folded with. *)

(* The repeat detector is known to have tripped at i: an adjudication comes next. *)
AdjudicationPrecursor(log, i) ==
  \E j \in Folded(log) :
    /\ log[j].event.tag = "CONTRACT_ADJUDICATED"
    /\ i < j /\ \A k \in Folded(log) : ~(i < k /\ k < j)

BrokenLastFoldedIndex(log) == Len(log)

(* The last entry the reducer sees; the markers after it do not count. *)
LastFoldedIndex(log) == Max(Folded(log))

(* A known repeat keeps the threshold it tripped at; a timeout trips at the tail only. *)
ConfigAt(cfg, effective, log, i) ==
  LET inForce == ExtendedRunConfig(cfg, SubSeq(log, 1, i)) IN
  [effective EXCEPT
     !.timeoutNoDiffThreshold = IF i = LastFoldedIndex(log) THEN @ ELSE Len(log) + 1,
     !.repeatFailureThreshold = IF AdjudicationPrecursor(log, i)
                                THEN inForce.repeatFailureThreshold ELSE @]

-----------------------------------------------------------------------------
(* The fold. *)

(* The events each state takes; step() throws on any other. *)
EventsOf(tag) ==
  CASE tag = "PLANNING"        -> {"PLAN_COMPILED", "PLAN_FAILED"}
    [] tag = "AWAIT_PLAN_SEAL" -> {"PLAN_SEAL_DECIDED"}
    [] tag = "ADVANCING_PHASE" -> {"PHASE_ADVANCED"}
    [] tag = "RUNNING_WAVE"    -> {"WAVE_RAN"}
    [] tag = "COMPILING"       -> {"CONTRACT_COMPILED", "COMPILE_FAILED"}
    [] tag = "AWAIT_SEAL"      -> {"SEAL_DECIDED"}
    [] tag = "PREPARING"       -> {"WORKSPACE_PREPARED"}
    [] tag = "RUNNING_AGENT"   -> {"AGENT_RAN"}
    [] tag = "VERIFYING"       -> {"VERIFIED"}
    [] tag = "AWAIT_SIGNOFF"   -> {"SIGNOFF_DECIDED"}
    [] tag = "ADJUDICATING"    -> {"CONTRACT_ADJUDICATED"}
    [] OTHER                   -> {}

(* A fold that threw; it takes no event either. *)
Invalid == State("INVALID", "none")

StepOrThrow(cfg, s, e) == IF e.tag \in EventsOf(s.tag) THEN Step(cfg, s, e) ELSE Invalid

(* What the entry at i makes of the state s before it. *)
FoldEntry(cfg, log, i, s) ==
  LET effective == ExtendedRunConfig(cfg, log)
      event     == log[i].event
      judged    == IF BudgetExtended(log) THEN RejudgeBudget(effective, event) ELSE event
  IN  IF event.tag \in DriverOnlyTags THEN s
      ELSE StepOrThrow(ConfigAt(cfg, effective, log, i), s, judged)

(***************************************************************************)
(* after[i] is the state after the first i entries.  It is drawn from a    *)
(* singleton, so that TLC evaluates the state before it only once.         *)
(***************************************************************************)
Fold(cfg, log) ==
  LET after[i \in 0 .. Len(log)] ==
        IF i = 0 THEN InitialState(ExtendedRunConfig(cfg, log))
        ELSE CHOOSE t \in { FoldEntry(cfg, log, i, s) : s \in {after[i - 1]} } : TRUE
  IN  after

Replay(cfg, log) == Fold(cfg, log)[Len(log)]

(* The tree the last entry with one of the tags recorded. *)
LastTree(log, tags, runStart) ==
  LET recorded == { i \in DOMAIN log : log[i].event.tag \in tags }
  IN  IF recorded = {} THEN runStart ELSE log[Max(recorded)].event.tree

Baseline(log, runStart) ==
  LastTree(log, {"CHECKPOINTED", "PHASE_ADVANCED", "WAVE_RAN"}, runStart)

PhaseBaseline(log, runStart) == LastTree(log, {"PHASE_ADVANCED", "WAVE_RAN"}, runStart)

(* An operator's note is pending until a turn is logged after it. *)
PendingNote(log) ==
  \E i \in Markers(log) :
    /\ log[i].event.note
    /\ \A j \in (i + 1) .. Len(log) : log[j].event.tag # "AGENT_RAN"

-----------------------------------------------------------------------------
(* Streak relief. *)

(* How many of the last entries with the tag, back to back, satisfy test. *)
TrailingStreak(log, tag, test(_)) ==
  LET turns == { i \in DOMAIN log : log[i].event.tag = tag }
  IN  Cardinality({ i \in turns : \A j \in turns : i <= j => test(log[j].event) })

TrailingCrashStreak(log) ==
  TrailingStreak(log, "AGENT_RAN", LAMBDA e : e.status = "crashed")

TrailingUnevaluableStreak(log) ==
  TrailingStreak(log, "VERIFIED", LAMBDA e : ~e.pass /\ ~e.evaluable)

TrailingRepeatStreak(log) ==
  LET verdicts == { i \in DOMAIN log : log[i].event.tag = "VERIFIED" }
      last     == log[Max(verdicts)].event
  IN  IF verdicts = {} \/ last.pass THEN 0
      ELSE TrailingStreak(log, "VERIFIED",
             LAMBDA e : ~e.pass /\ NormalizeDetail(e.detail) = NormalizeDetail(last.detail))

Adjudicated(log) == \E i \in DOMAIN log : log[i].event.tag = "CONTRACT_ADJUDICATED"

BrokenResumeStreakRelief(cfg, log) ==
  LET crash == TrailingCrashStreak(log)
  IN  IF crash > 0 THEN [k \in {"harnessCrashThreshold"} |-> crash] ELSE NoOverlay

(***************************************************************************)
(* A resume of an aborted run raises each counted threshold, measured off  *)
(* the header's, by the streak the log has banked.                         *)
(***************************************************************************)
ResumeStreakRelief(cfg, log) ==
  LET crash  == TrailingCrashStreak(log)
      uneval == TrailingUnevaluableStreak(log)
      repeat == IF Adjudicated(log) THEN 0 ELSE TrailingRepeatStreak(log)
      raised == [harnessCrashThreshold  |-> cfg.harnessCrashThreshold + crash,
                 unevaluableThreshold   |-> cfg.unevaluableThreshold + uneval,
                 repeatFailureThreshold |-> cfg.repeatFailureThreshold + repeat]
      fields == { k \in DOMAIN raised :
                    \/ k = "harnessCrashThreshold"  /\ crash > 0
                    \/ k = "unevaluableThreshold"   /\ uneval > 0
                    \/ k = "repeatFailureThreshold" /\ repeat > 1 }
  IN  IF log # << >> /\ log[Len(log)].after = "ABORTED"
      THEN [k \in fields |-> raised[k]] ELSE NoOverlay
=============================================================================
