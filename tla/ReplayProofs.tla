---------------------------- MODULE ReplayProofs -----------------------------
(***************************************************************************)
(* Lemmas about the fold of a log (Replay, Step), for the theorems about   *)
(* the machines that write one: what the reducer returns is well formed,   *)
(* and an entry that is appended leaves the fold of those before it as it  *)
(* was, although the thresholds they are folded with move.                 *)
(***************************************************************************)
EXTENDS Replay, FiniteSetTheorems, SequenceTheorems, TLAPS

-----------------------------------------------------------------------------
(* Positions, and induction over them. *)

(***************************************************************************)
(* A non-empty set of naturals has a least element: the sets of smaller    *)
(* members are finite, so strict inclusion among them is well founded.     *)
(***************************************************************************)
LEMMA LeastNat ==
  ASSUME NEW S, S \subseteq Nat, S # {}
  PROVE  \E m \in S : \A x \in S : m <= x
<1> DEFINE Below(m) == { y \in S : y < m }
           T        == { Below(m) : m \in S }
<1>0. \A x \in S : x \in Nat
  OBVIOUS
<1>1. T \subseteq FiniteSubsetsOf(Nat) /\ T # {}
  <2>1. ASSUME NEW x \in S PROVE IsFiniteSet(Below(x))
    <3>1. \A y \in Below(x) : y \in 0 .. x
      BY <1>0
    <3>2. IsFiniteSet(0 .. x)
      BY <1>0, FS_Interval
    <3>. QED BY <3>1, <3>2, FS_Subset
  <2>. QED BY <2>1 DEF FiniteSubsetsOf
<1>2. PICK x \in S : \A y \in S : ~ (<<Below(y), Below(x)>> \in StrictSubsetOrdering(Nat))
  <2>1. \E U \in T : \A V \in T : ~ (<<V, U>> \in StrictSubsetOrdering(Nat))
    <3> HIDE DEF T
    <3>. QED BY <1>1, FS_StrictSubsetOrderingWellFounded, WFMin
  <2>. QED BY <2>1
<1>3. ASSUME NEW y \in S, y < x PROVE FALSE
  <2>1. y \in Below(x) /\ y \notin Below(y)
    BY <1>0, <1>3
  <2>2. ASSUME NEW z \in Below(y) PROVE z \in Below(x)
    BY <1>0, <1>3
  <2>3. Below(y) \in SUBSET Nat /\ Below(x) \in SUBSET Nat
    BY <1>0
  <2>. QED BY <1>2, <2>1, <2>2, <2>3 DEF StrictSubsetOrdering
<1>4. \A y \in S : x <= y
  BY <1>0, <1>3
<1>. QED BY <1>4

(* What holds at 0 and passes from each position to the next holds up to n. *)
LEMMA PositionInduction ==
  ASSUME NEW n \in Nat, NEW T, 0 \in T,
         ASSUME NEW i \in 1 .. n, i - 1 \in T PROVE i \in T
  PROVE  0 .. n \subseteq T
<1> DEFINE S == (0 .. n) \ T
<1>1. CASE S # {}
  <2>1. S \subseteq Nat
    OBVIOUS
  <2>2. PICK m \in S : \A x \in S : m <= x
    <3> HIDE DEF S
    <3>. QED BY <1>1, <2>1, LeastNat
  <2>3. m \in 1 .. n /\ m - 1 \in 0 .. n /\ m - 1 \notin S
    BY <2>2
  <2>. QED BY <2>2, <2>3
<1>2. CASE S = {}
  BY <1>2
<1>. QED BY <1>1, <1>2

(* A non-empty set of positions has a greatest element, and Max is it. *)
LEMMA MaxOfPositions ==
  ASSUME NEW n \in Nat, NEW S, S \subseteq 0 .. n, S # {}
  PROVE  Max(S) \in S /\ \A x \in S : x <= Max(S)
<1> DEFINE T == { n - x : x \in S }
<1>0. \A x \in S : x \in 0 .. n
  OBVIOUS
<1>1. T \subseteq Nat /\ T # {}
  <2>1. PICK x : x \in S
    OBVIOUS
  <2>2. n - x \in T
    BY <2>1
  <2>. QED BY <1>0, <2>2
<1>2. PICK m \in T : \A x \in T : m <= x
  <2> HIDE DEF T
  <2>. QED BY <1>1, LeastNat
<1>3. PICK y \in S : m = n - y
  BY <1>2
<1>4. \A x \in S : y >= x
  BY <1>0, <1>2, <1>3
<1>. QED BY <1>0, <1>4 DEF Max

(* A member above all others is the greatest. *)
LEMMA MaxIs ==
  ASSUME NEW S, S \subseteq Int, NEW m \in S, \A x \in S : m >= x
  PROVE  Max(S) = m
<1>1. Max(S) \in S /\ \A x \in S : Max(S) >= x
  BY DEF Max
<1>2. Max(S) \in Int /\ m \in Int
  BY <1>1
<1>. QED BY <1>1, <1>2

(* A sequence, of whatever it holds. *)
IsSequence(h) == h \in Seq({ h[i] : i \in DOMAIN h })

(* A sequence is a function on its positions. *)
LEMMA SequenceShape ==
  ASSUME NEW h, IsSequence(h)
  PROVE  Len(h) \in Nat /\ DOMAIN h = 1 .. Len(h)
BY LenProperties DEF IsSequence

(* Appending adds one position. *)
LEMMA SequenceAppend ==
  ASSUME NEW h, IsSequence(h), NEW x
  PROVE  /\ IsSequence(Append(h, x))
         /\ Len(Append(h, x)) = Len(h) + 1
         /\ DOMAIN Append(h, x) = 1 .. (Len(h) + 1)
         /\ \A i \in 1 .. Len(h) : Append(h, x)[i] = h[i]
         /\ Append(h, x)[Len(h) + 1] = x
<1> DEFINE S == { h[i] : i \in DOMAIN h }
           T == S \cup {x}
           g == Append(h, x)
           R == { g[i] : i \in DOMAIN g }
<1>1. h \in Seq(T) /\ x \in T
  <2>1. h \in Seq(S) /\ S \subseteq T
    BY DEF IsSequence
  <2>. QED BY <2>1, SeqMonotonic, Zenon
<1>2. /\ g \in Seq(T) /\ Len(g) = Len(h) + 1
      /\ \A i \in 1 .. Len(h) : g[i] = h[i]
      /\ g[Len(h) + 1] = x
  <2> HIDE DEF T
  <2>. QED BY <1>1, AppendProperties
<1>3. DOMAIN g = 1 .. (Len(h) + 1)
  <2> HIDE DEF T, g
  <2>. QED BY <1>2, LenProperties
<1>4. \A i \in DOMAIN g : g[i] \in R
  OBVIOUS
<1>5. g \in Seq(R)
  <2> HIDE DEF T, g, R
  <2>1. Len(h) \in Nat
    BY SequenceShape
  <2>2. g \in [1 .. Len(g) -> R]
    <3>1. g \in [1 .. Len(g) -> T]
      BY <1>2, LenProperties
    <3>. QED BY <1>2, <1>3, <1>4, <3>1
  <2>3. Len(g) \in Nat
    BY <1>2, <2>1
  <2>. QED BY <2>2, <2>3, SeqDef
<1>. QED BY <1>2, <1>3, <1>5 DEF IsSequence

(* The empty log is a sequence. *)
LEMMA EmptySequence == IsSequence(<< >>) /\ Len(<< >>) = 0
<1>1. << >> \in Seq({ << >>[i] : i \in DOMAIN << >> })
  BY EmptySeq
<1>. QED BY <1>1, EmptySeq DEF IsSequence
-----------------------------------------------------------------------------
(* Configurations and the markers that overlay them. *)

(* The knobs the proofs reason about are numbers and flags. *)
LEMMA KnobTypes ==
  ASSUME NEW c, ConfigOK(c)
  PROVE  /\ c.phased \in BOOLEAN /\ c.parallelPhases \in BOOLEAN
         /\ c.autoRemediate \in BOOLEAN /\ c.deltaVerify \in BOOLEAN
         /\ c.maxPlanRetries \in Nat /\ c.maxPlanRevisions \in Nat
         /\ c.maxCompileRetries \in Nat /\ c.maxSealRevisions \in Nat
         /\ c.tokens \in Nat /\ c.maxIterations \in Nat
         /\ c.repeatFailureThreshold \in Nat /\ c.harnessCrashThreshold \in Nat
         /\ c.unevaluableThreshold \in Nat /\ c.timeoutNoDiffThreshold \in Nat
BY DEF ConfigOK, Knobs

(* The events the reducer takes. *)
ResultTags ==
  {"PLAN_COMPILED", "PLAN_FAILED", "PLAN_SEAL_DECIDED", "PHASE_ADVANCED", "WAVE_RAN",
   "CONTRACT_COMPILED", "COMPILE_FAILED", "SEAL_DECIDED", "WORKSPACE_PREPARED", "AGENT_RAN",
   "VERIFIED", "SIGNOFF_DECIDED", "CONTRACT_ADJUDICATED"}

(* An event the reducer takes, as far as the fold looks at it. *)
ReadingOK(e) ==
  /\ e.tag \in ResultTags
  /\ e.tag = "PLAN_SEAL_DECIDED" => e.decision \in {"approve", "reject", "revise"}
  /\ e.tag = "SEAL_DECIDED" => e.decision \in {"approve", "reject", "revise", "edited"}
  /\ e.tag = "AGENT_RAN" =>
       /\ {"tag", "status", "prev", "hash", "budget"} \subseteq DOMAIN e
       /\ e.status \in RunStatuses /\ e.budget \in BOOLEAN
  /\ e.tag = "VERIFIED" => e.pass \in BOOLEAN
  /\ e.tag \in {"VERIFIED", "SIGNOFF_DECIDED"} => e.budget \in BOOLEAN
  /\ e.tag = "SIGNOFF_DECIDED" => e.approval \in {"approve", "veto"}
  /\ e.tag = "WORKSPACE_PREPARED" =>
       e.prepared \in {"proceed", "tools-missing", "setup-failed", "contract-unsound"}

(* An entry: one of the Driver's own, or a reading. *)
EventOK(e) ==
  \/ e.tag \in DriverOnlyTags /\ (e.tag = "RUN_EXTENDED" => OverlayOK(e.overlay))
  \/ ReadingOK(e)

(* A log the fold can read. *)
EntriesOK(l) == IsSequence(l) /\ \A i \in DOMAIN l : EventOK(l[i].event)

(* What is left of an extended configuration is well formed, and the same run's. *)
LEMMA EffectiveType ==
  ASSUME NEW c, ConfigOK(c), NEW l, EntriesOK(l)
  PROVE  /\ ConfigOK(ExtendedRunConfig(c, l))
         /\ \A k \in DOMAIN Knobs \ Extendable : ExtendedRunConfig(c, l)[k] = c[k]
<1> DEFINE carrying(k) == { i \in Markers(l) : k \in DOMAIN l[i].event.overlay }
           x == ExtendedRunConfig(c, l)
<1>1. CASE Markers(l) = {}
  BY <1>1 DEF ExtendedRunConfig
<1>2. CASE Markers(l) # {}
  <2>1. x = [k \in DOMAIN c |-> IF carrying(k) = {} THEN c[k]
                                ELSE l[Max(carrying(k))].event.overlay[k]]
    BY <1>2 DEF ExtendedRunConfig
  <2>2. DOMAIN c = DOMAIN Knobs
    BY DEF ConfigOK
  <2>3. \A i \in Markers(l) : i \in DOMAIN l /\ OverlayOK(l[i].event.overlay)
    BY DEF Markers, EntriesOK, EventOK, ReadingOK, ResultTags
  <2>4. ASSUME NEW k, carrying(k) # {}
        PROVE  k \in Extendable /\ l[Max(carrying(k))].event.overlay[k] \in Knobs[k]
    <3>1. carrying(k) \subseteq 0 .. Len(l) /\ Len(l) \in Nat
      BY <2>3, SequenceShape DEF EntriesOK
    <3>2. Max(carrying(k)) \in carrying(k)
      <4> HIDE DEF carrying
      <4>. QED BY <2>4, <3>1, MaxOfPositions
    <3>3. /\ k \in DOMAIN l[Max(carrying(k))].event.overlay
          /\ OverlayOK(l[Max(carrying(k))].event.overlay)
      BY <2>3, <3>2
    <3>. QED BY <3>3 DEF OverlayOK
  <2>5. \A k \in DOMAIN Knobs : x[k] = c[k] \/ (k \in Extendable /\ x[k] \in Knobs[k])
    <3> HIDE DEF carrying, x
    <3>. QED BY <2>1, <2>2, <2>4
  <2>6. DOMAIN x = DOMAIN Knobs
    <3> HIDE DEF carrying, x
    <3>. QED BY <2>1, <2>2
  <2>7. \A k \in DOMAIN Knobs : c[k] \in Knobs[k]
    BY DEF ConfigOK
  <2>11. x = [k \in DOMAIN Knobs |-> x[k]]
    <3>1. x = [k \in DOMAIN Knobs |-> IF carrying(k) = {} THEN c[k]
                                      ELSE l[Max(carrying(k))].event.overlay[k]]
      BY <2>1, <2>2
    <3> HIDE DEF carrying, x
    <3>. QED BY <3>1
  <2> HIDE DEF x
  <2>8. \A k \in DOMAIN Knobs : x[k] \in Knobs[k]
    BY <2>5, <2>7
  <2>9. \A k \in DOMAIN Knobs \ Extendable : x[k] = c[k]
    BY <2>5
  <2>10. ConfigOK(x)
    BY <2>11, <2>8 DEF ConfigOK
  <2>. QED BY <2>9, <2>10 DEF x
<1>. QED BY <1>1, <1>2

-----------------------------------------------------------------------------
(* The decision under the thresholds of the fold. *)

(* The ledger of self-recoveries. *)
Ledgers == [total : Nat, noDiff : Nat, repeat : Nat, crash : Nat]

(* The first detector that trips names the reason. *)
LEMMA StuckFirst ==
  ASSUME NEW cfg, NEW ctx, NEW i \in 1 .. 7, Trips(cfg, ctx, StuckOrder[i]),
         \A j \in 1 .. (i - 1) : ~Trips(cfg, ctx, StuckOrder[j])
  PROVE  DetectStuck(cfg, ctx) = StuckOrder[i]
<1> DEFINE tripped == { j \in 1 .. Len(StuckOrder) : Trips(cfg, ctx, StuckOrder[j]) }
<1>1. Len(StuckOrder) = 7
  BY DEF StuckOrder
<1>2. i \in tripped /\ \A j \in tripped : i <= j
  BY <1>1
<1>3. tripped \subseteq Int
  BY <1>1
<1>4. Min(tripped) = i
  <2> HIDE DEF tripped
  <2>1. Min(tripped) \in tripped /\ \A j \in tripped : Min(tripped) <= j
    BY <1>2 DEF Min
  <2>2. Min(tripped) \in Int /\ i \in Int /\ Min(tripped) <= i /\ i <= Min(tripped)
    BY <1>2, <1>3, <2>1
  <2>. QED BY <2>2
<1>. QED BY <1>2, <1>4 DEF DetectStuck

(* What a verdict that detects nothing says of its detectors. *)
LEMMA StuckNone ==
  ASSUME NEW cfg, NEW ctx, \A j \in 1 .. 7 : ~Trips(cfg, ctx, StuckOrder[j])
  PROVE  DetectStuck(cfg, ctx) = "none"
<1>1. Len(StuckOrder) = 7
  BY DEF StuckOrder
<1>. QED BY <1>1 DEF DetectStuck

(* The detectors, one after the other. *)
LEMMA StuckChain ==
  ASSUME NEW cfg, NEW ctx
  PROVE  DetectStuck(cfg, ctx) =
           IF Trips(cfg, ctx, "budget") THEN "budget"
           ELSE IF Trips(cfg, ctx, "crash") THEN "crash"
           ELSE IF Trips(cfg, ctx, "unevaluable") THEN "unevaluable"
           ELSE IF Trips(cfg, ctx, "timeout-no-diff") THEN "timeout-no-diff"
           ELSE IF Trips(cfg, ctx, "no-diff") THEN "no-diff"
           ELSE IF Trips(cfg, ctx, "oscillation") THEN "oscillation"
           ELSE IF Trips(cfg, ctx, "repeat") THEN "repeat" ELSE "none"
<1> DEFINE t(i) == Trips(cfg, ctx, StuckOrder[i])
<1>0. /\ StuckOrder[1] = "budget" /\ StuckOrder[2] = "crash" /\ StuckOrder[3] = "unevaluable"
      /\ StuckOrder[4] = "timeout-no-diff" /\ StuckOrder[5] = "no-diff"
      /\ StuckOrder[6] = "oscillation" /\ StuckOrder[7] = "repeat"
  BY DEF StuckOrder
<1>1. \A i \in 1 .. 7 : t(i) /\ (\A j \in 1 .. (i - 1) : ~t(j))
                         => DetectStuck(cfg, ctx) = StuckOrder[i]
  BY StuckFirst
<1>2. (\A j \in 1 .. 7 : ~t(j)) => DetectStuck(cfg, ctx) = "none"
  BY StuckNone
<1>3. /\ t(1) = Trips(cfg, ctx, "budget") /\ t(2) = Trips(cfg, ctx, "crash")
      /\ t(3) = Trips(cfg, ctx, "unevaluable") /\ t(4) = Trips(cfg, ctx, "timeout-no-diff")
      /\ t(5) = Trips(cfg, ctx, "no-diff") /\ t(6) = Trips(cfg, ctx, "oscillation")
      /\ t(7) = Trips(cfg, ctx, "repeat")
  BY <1>0
<1> HIDE DEF t
<1>4. CASE t(1)
  BY <1>0, <1>1, <1>3, <1>4
<1>5. CASE t(2) /\ ~t(1)
  BY <1>0, <1>1, <1>3, <1>5
<1>6. CASE t(3) /\ ~t(1) /\ ~t(2)
  BY <1>0, <1>1, <1>3, <1>6
<1>7. CASE t(4) /\ ~t(1) /\ ~t(2) /\ ~t(3)
  BY <1>0, <1>1, <1>3, <1>7
<1>8. CASE t(5) /\ ~t(1) /\ ~t(2) /\ ~t(3) /\ ~t(4)
  BY <1>0, <1>1, <1>3, <1>8
<1>9. CASE t(6) /\ ~t(1) /\ ~t(2) /\ ~t(3) /\ ~t(4) /\ ~t(5)
  BY <1>0, <1>1, <1>3, <1>9
<1>10. CASE t(7) /\ ~t(1) /\ ~t(2) /\ ~t(3) /\ ~t(4) /\ ~t(5) /\ ~t(6)
  BY <1>0, <1>1, <1>3, <1>10
<1>11. CASE ~t(1) /\ ~t(2) /\ ~t(3) /\ ~t(4) /\ ~t(5) /\ ~t(6) /\ ~t(7)
  BY <1>2, <1>3, <1>11
<1>. QED BY <1>4, <1>5, <1>6, <1>7, <1>8, <1>9, <1>10, <1>11

(* The context as far as the detectors with a threshold look at it. *)
HistoriesOK(ctx) ==
  /\ ctx.runStatusHistory \in Seq(RunStatuses)
  /\ IsSequence(ctx.verifierDetailHistory)
  /\ ctx.remediations \in Ledgers
  /\ ctx.iteration \in Nat

(* A streak of idle timeouts is no longer than the history of turns. *)
LEMMA StreakBound ==
  ASSUME NEW ctx, HistoriesOK(ctx)
  PROVE  /\ Len(ctx.runStatusHistory) \in Nat
         /\ TimeoutNoDiffStreak(ctx) \in 0 .. Len(ctx.runStatusHistory)
<1> DEFINE n       == Len(ctx.runStatusHistory)
           idle(i) == /\ ctx.runStatusHistory[i] = "timeout"
                      /\ ctx.diffHashHistory[i] = ctx.diffHashHistory[i - 1]
           S       == { i \in 2 .. (n - 1) : \A j \in i .. (n - 1) : idle(j) }
<1>1. n \in Nat
  BY LenProperties DEF HistoriesOK
<1>2. CASE LastRunStatus(ctx) # "timeout" \/ ~ctx.lastNoDiff
  BY <1>1, <1>2 DEF TimeoutNoDiffStreak
<1>3. CASE LastRunStatus(ctx) = "timeout" /\ ctx.lastNoDiff
  <2>1. TimeoutNoDiffStreak(ctx) = 1 + Cardinality(S)
    BY <1>3 DEF TimeoutNoDiffStreak
  <2>2. n # 0
    BY <1>3, EmptySeq DEF LastRunStatus, HistoriesOK
  <2>3. /\ IsFiniteSet(2 .. (n - 1))
        /\ Cardinality(2 .. (n - 1)) = IF 2 > n - 1 THEN 0 ELSE (n - 1) - 2 + 1
    <3>1. 2 \in Int /\ n - 1 \in Int
      BY <1>1
    <3> HIDE DEF n
    <3>. QED BY <3>1, FS_Interval
  <2>4. IsFiniteSet(S) /\ Cardinality(S) <= Cardinality(2 .. (n - 1)) /\ Cardinality(S) \in Nat
    <3>1. S \subseteq 2 .. (n - 1)
      OBVIOUS
    <3> HIDE DEF S
    <3>2. IsFiniteSet(S) /\ Cardinality(S) <= Cardinality(2 .. (n - 1))
      BY <2>3, <3>1, FS_Subset
    <3>. QED BY <3>2, FS_CardinalityType
  <2> HIDE DEF S
  <2>. QED BY <1>1, <2>1, <2>2, <2>3, <2>4
<1>. QED BY <1>1, <1>2, <1>3

-----------------------------------------------------------------------------
(* Two configurations that differ in the thresholds the fold moves only. *)
SameBut(c, d) ==
  /\ ConfigOK(c) /\ ConfigOK(d)
  /\ \A k \in DOMAIN Knobs \ {"timeoutNoDiffThreshold", "repeatFailureThreshold"} : c[k] = d[k]

(* Such configurations agree on every other knob. *)
LEMMA SameKnobs ==
  ASSUME NEW c, NEW d, SameBut(c, d)
  PROVE  /\ c.phased = d.phased /\ c.parallelPhases = d.parallelPhases
         /\ c.autoRemediate = d.autoRemediate /\ c.noDiff = d.noDiff
         /\ c.oscillation = d.oscillation /\ c.maxPlanRetries = d.maxPlanRetries
         /\ c.maxPlanRevisions = d.maxPlanRevisions
         /\ c.maxCompileRetries = d.maxCompileRetries
         /\ c.maxSealRevisions = d.maxSealRevisions /\ c.maxIterations = d.maxIterations
         /\ c.candidates = d.candidates
         /\ c.harnessCrashThreshold = d.harnessCrashThreshold
         /\ c.unevaluableThreshold = d.unevaluableThreshold
BY DEF SameBut, Knobs

(* Whatever repeats as often as u repeats as often as a smaller t. *)
LEMMA RepeatAntitone ==
  ASSUME NEW h, IsSequence(h), NEW t \in Nat, NEW u \in Nat, t <= u, IsRepeating(h, u)
  PROVE  IsRepeating(h, t)
<1>1. Len(h) \in Nat
  BY SequenceShape
<1>2. TailPositions(h, t) \subseteq TailPositions(h, u)
  BY <1>1 DEF TailPositions
<1>. QED BY <1>1, <1>2 DEF IsRepeating

(***************************************************************************)
(* The decision does not see how the fold moves the two thresholds: the    *)
(* timeout's out of reach where the run went on, the repeat's down where   *)
(* it is known to have tripped.                                            *)
(***************************************************************************)
LEMMA DecideAgrees ==
  ASSUME NEW c, NEW d, SameBut(c, d), NEW ctx, HistoriesOK(ctx), NEW contract, NEW pass,
         NEW approval,
         d.timeoutNoDiffThreshold > Len(ctx.runStatusHistory),
         \/ c.timeoutNoDiffThreshold > Len(ctx.runStatusHistory)
         \/ Decide(c, contract, ctx, pass, approval).kind # "ABORTED",
         \/ d.repeatFailureThreshold = c.repeatFailureThreshold
         \/ /\ Decide(c, contract, ctx, pass, approval).kind = "ADJUDICATE"
            /\ d.repeatFailureThreshold <= c.repeatFailureThreshold
  PROVE  Decide(d, contract, ctx, pass, approval) = Decide(c, contract, ctx, pass, approval)
<1> DEFINE K == DetectStuck(c, ctx)
<1>0. /\ ConfigOK(c) /\ ConfigOK(d)
      /\ c.timeoutNoDiffThreshold \in Nat /\ d.timeoutNoDiffThreshold \in Nat
      /\ c.repeatFailureThreshold \in Nat /\ d.repeatFailureThreshold \in Nat
  BY KnobTypes DEF SameBut
<1>1. CASE pass /\ approval = "approve"
  BY <1>1 DEF Decide
<1>2. CASE ~(pass /\ approval = "approve")
  <2>0. SUFFICES DetectStuck(d, ctx) = DetectStuck(c, ctx)
    BY SameKnobs DEF Decide, Remediable, IterationCap
  <2>1. /\ Trips(c, ctx, "budget") <=> Trips(d, ctx, "budget")
        /\ Trips(c, ctx, "crash") <=> Trips(d, ctx, "crash")
        /\ Trips(c, ctx, "unevaluable") <=> Trips(d, ctx, "unevaluable")
        /\ Trips(c, ctx, "oscillation") <=> Trips(d, ctx, "oscillation")
    BY SameKnobs DEF Trips, CrashThreshold
  <2>2. ~Trips(d, ctx, "timeout-no-diff")
    BY <1>0, StreakBound DEF Trips
  <2>3. CASE Trips(c, ctx, "budget") \/ Trips(c, ctx, "crash") \/ Trips(c, ctx, "unevaluable")
    BY <2>1, <2>3, StuckChain
  <2>4. CASE ~(Trips(c, ctx, "budget") \/ Trips(c, ctx, "crash") \/ Trips(c, ctx, "unevaluable"))
    <3>1. ~Trips(c, ctx, "timeout-no-diff")
      <4>1. SUFFICES ASSUME Trips(c, ctx, "timeout-no-diff") PROVE FALSE
        OBVIOUS
      <4>2. K = "timeout-no-diff"
        BY <2>4, <4>1, StuckChain
      <4>3. c.timeoutNoDiffThreshold <= Len(ctx.runStatusHistory)
        BY <1>0, <4>1, StreakBound DEF Trips
      <4>4. Decide(c, contract, ctx, pass, approval).kind = "ABORTED"
        BY <1>2, <4>2 DEF Decide, Decision, Remediable, SuspectsContractFault
      <4>. QED BY <1>0, <4>3, <4>4, StreakBound
    <3>2. Trips(c, ctx, "no-diff") <=> Trips(d, ctx, "no-diff")
      <4>1. NoDiffExcusedByRun(c, ctx) <=> NoDiffExcusedByRun(d, ctx)
        <5>1. /\ TimeoutNoDiffStreak(ctx) < c.timeoutNoDiffThreshold
              /\ TimeoutNoDiffStreak(ctx) < d.timeoutNoDiffThreshold
          BY <1>0, <2>2, <3>1, StreakBound DEF Trips
        <5>. QED BY <5>1 DEF NoDiffExcusedByRun
      <4>. QED BY <4>1, SameKnobs DEF Trips, NoDiffTrips
    <3>3. CASE d.repeatFailureThreshold = c.repeatFailureThreshold
      <4>1. Trips(c, ctx, "repeat") <=> Trips(d, ctx, "repeat")
        BY <3>3 DEF Trips, RepeatThreshold
      <4>. QED BY <2>1, <2>2, <2>4, <3>1, <3>2, <4>1, StuckChain
    <3>4. CASE /\ Decide(c, contract, ctx, pass, approval).kind = "ADJUDICATE"
               /\ d.repeatFailureThreshold <= c.repeatFailureThreshold
      <4>1. K = "repeat"
        <5>1. ctx.iteration \in Nat /\ IterationCap(c, ctx) \in Nat
          BY KnobTypes DEF IterationCap, HistoriesOK, Ledgers, SameBut
        <5>. QED BY <1>2, <3>4, <5>1 DEF Decide, Decision, SuspectsContractFault
      <4>2. Trips(c, ctx, "repeat") /\ ~Trips(c, ctx, "no-diff") /\ ~Trips(c, ctx, "oscillation")
        BY <4>1, StuckChain
      <4>3. Trips(d, ctx, "repeat")
        <5>1. RepeatThreshold(d, ctx) <= RepeatThreshold(c, ctx)
              /\ RepeatThreshold(d, ctx) \in Nat /\ RepeatThreshold(c, ctx) \in Nat
          BY <1>0, <3>4 DEF RepeatThreshold, HistoriesOK, Ledgers
        <5>2. IsRepeating(ctx.verifierDetailHistory, RepeatThreshold(c, ctx))
          BY <4>2 DEF Trips
        <5>. QED BY <5>1, <5>2, RepeatAntitone DEF Trips, HistoriesOK
      <4>. QED BY <2>1, <2>2, <2>4, <3>1, <3>2, <4>2, <4>3, StuckChain
    <3>. QED BY <3>3, <3>4
  <2>. QED BY <2>3, <2>4
<1>. QED BY <1>1, <1>2

-----------------------------------------------------------------------------
(* The states a fold passes through. *)

(* The tags of the states, and the commands that go with each. *)
StateTags ==
  {"PLANNING", "AWAIT_PLAN_SEAL", "ADVANCING_PHASE", "RUNNING_WAVE", "COMPILING", "AWAIT_SEAL",
   "PREPARING", "RUNNING_AGENT", "VERIFYING", "AWAIT_SIGNOFF", "ADJUDICATING", "DONE",
   "FAILED", "ABORTED"}

(* The commands a state of each tag may wait for. *)
WaitsFor(tag) ==
  CASE tag = "PLANNING"        -> {"COMPILE_PLAN"}
    [] tag = "AWAIT_PLAN_SEAL" -> {"REQUEST_PLAN_SEAL"}
    [] tag = "ADVANCING_PHASE" -> {"CHECKPOINT_AND_ADVANCE"}
    [] tag = "RUNNING_WAVE"    -> {"RUN_WAVE"}
    [] tag = "COMPILING"       -> {"COMPILE_VERIFIER", "REFREEZE_CONTRACT"}
    [] tag = "AWAIT_SEAL"      -> {"REQUEST_SEAL"}
    [] tag = "PREPARING"       -> {"PREPARE_WORKSPACE"}
    [] tag = "RUNNING_AGENT"   -> {"RUN_AGENT", "RUN_AGENT_BEST_OF"}
    [] tag = "VERIFYING"       -> {"RUN_VERIFIER"}
    [] tag = "AWAIT_SIGNOFF"   -> {"REQUEST_SIGNOFF"}
    [] tag = "ADJUDICATING"    -> {"ADJUDICATE_CONTRACT"}
    [] tag \in TerminalTags    -> {"none"}

(* The fields of a loop context, and of a state. *)
CtxFields(ctx) ==
  DOMAIN ctx = {"iteration", "diffHashHistory", "verifierDetailHistory",
                "verifierEvaluableHistory", "runStatusHistory", "lastNoDiff", "lastBudget",
                "lastVerdict", "feedbackSource", "remediations", "adjudicated"}

(* The fields of a state. *)
StateFields(s) ==
  DOMAIN s = {"tag", "cmd", "reviseRound", "planRound", "compileRound", "contract", "phase",
              "indices", "ctx", "iterations", "reason"}

(***************************************************************************)
(* A state the reducer reached in n steps under c: its tag and the command *)
(* that goes with it, its counters, its histories no longer than its past. *)
(***************************************************************************)
StateShape(c, s, n) ==
  /\ StateFields(s) /\ CtxFields(s.ctx)
  /\ s.tag \in StateTags
  /\ s.cmd \in WaitsFor(s.tag)
  /\ s.reviseRound \in Nat /\ s.planRound \in Nat /\ s.compileRound \in Nat
  /\ s.tag = "RUNNING_WAVE" => c.parallelPhases
  /\ HistoriesOK(s.ctx)
  /\ Len(s.ctx.runStatusHistory) <= n

(* WaitsFor, tag by tag. *)
LEMMA CommandsFit ==
  /\ WaitsFor("PLANNING") = {"COMPILE_PLAN"}
  /\ WaitsFor("AWAIT_PLAN_SEAL") = {"REQUEST_PLAN_SEAL"}
  /\ WaitsFor("ADVANCING_PHASE") = {"CHECKPOINT_AND_ADVANCE"}
  /\ WaitsFor("RUNNING_WAVE") = {"RUN_WAVE"}
  /\ WaitsFor("COMPILING") = {"COMPILE_VERIFIER", "REFREEZE_CONTRACT"}
  /\ WaitsFor("AWAIT_SEAL") = {"REQUEST_SEAL"}
  /\ WaitsFor("PREPARING") = {"PREPARE_WORKSPACE"}
  /\ WaitsFor("RUNNING_AGENT") = {"RUN_AGENT", "RUN_AGENT_BEST_OF"}
  /\ WaitsFor("VERIFYING") = {"RUN_VERIFIER"}
  /\ WaitsFor("AWAIT_SIGNOFF") = {"REQUEST_SIGNOFF"}
  /\ WaitsFor("ADJUDICATING") = {"ADJUDICATE_CONTRACT"}
  /\ \A tag \in TerminalTags : WaitsFor(tag) = {"none"}
BY DEF WaitsFor, TerminalTags

(* A fresh loop context has no history. *)
LEMMA InitialCtxShape == HistoriesOK(InitialCtx) /\ Len(InitialCtx.runStatusHistory) = 0
BY EmptySequence, EmptySeq DEF InitialCtx, HistoriesOK, NoRemediations, Ledgers

(* A state at rest but for what a handler sets. *)
LEMMA RestShape ==
  ASSUME NEW c, NEW n \in Nat, NEW tag \in StateTags,
         NEW cmd \in WaitsFor(tag), tag = "RUNNING_WAVE" => c.parallelPhases
  PROVE  StateShape(c, State(tag, cmd), n)
<1> DEFINE s == State(tag, cmd)
<1>1. s.ctx = InitialCtx /\ s.tag = tag /\ s.cmd = cmd
      /\ s.reviseRound = 0 /\ s.planRound = 0 /\ s.compileRound = 0
  BY DEF State
<1>2. HistoriesOK(s.ctx) /\ Len(s.ctx.runStatusHistory) = 0
  BY <1>1, InitialCtxShape
<1>3. StateFields(s)
  BY DEF State, StateFields
<1>4. CtxFields(s.ctx)
  BY <1>1 DEF InitialCtx, CtxFields
<1>5. s = State(tag, cmd)
  OBVIOUS
<1> HIDE DEF s
<1>. QED BY <1>1, <1>2, <1>3, <1>4, <1>5 DEF StateShape

(* What is built on a state keeps its shape. *)
LEMMA SameShape ==
  ASSUME NEW c, NEW n \in Nat, NEW s, StateShape(c, s, n), NEW t,
         StateFields(t) /\ t.ctx = s.ctx,
         t.tag = s.tag, t.cmd = s.cmd,
         t.reviseRound \in Nat, t.planRound \in Nat, t.compileRound \in Nat
  PROVE  StateShape(c, t, n)
<1>1. t.ctx = s.ctx
  OBVIOUS
<1>. QED BY <1>1 DEF StateShape

(* A state that ends the run is well formed. *)
LEMMA StoppedShape ==
  ASSUME NEW c, NEW n \in Nat, NEW tag \in TerminalTags, NEW reason, NEW contract, NEW iterations
  PROVE  StateShape(c, Stopped(tag, reason, contract, iterations), n)
<1> DEFINE s == State(tag, "none")
           t == Stopped(tag, reason, contract, iterations)
<1>1. StateShape(c, s, n)
  BY RestShape, CommandsFit DEF TerminalTags, StateTags
<1>2. /\ t.tag = s.tag /\ t.cmd = s.cmd /\ t.ctx = s.ctx
      /\ t.reviseRound \in Nat /\ t.planRound \in Nat /\ t.compileRound \in Nat
      /\ StateFields(t)
  BY DEF Stopped, State, StateFields
<1>3. StateShape(c, t, n)
  <2> HIDE DEF s, t
  <2>. QED BY <1>1, <1>2, SameShape
<1>. QED BY <1>3

(* So is the state a run starts in, *)
LEMMA InitialShape ==
  ASSUME NEW c, ConfigOK(c), NEW n \in Nat
  PROVE  StateShape(c, InitialState(c), n)
BY RestShape, CommandsFit DEF InitialState, StateTags

(* one that compiles a contract, *)
LEMMA CompilingShape ==
  ASSUME NEW c, NEW n \in Nat, NEW cmd \in {"COMPILE_VERIFIER", "REFREEZE_CONTRACT"},
         NEW phase, NEW reviseRound \in Nat, NEW compileRound \in Nat
  PROVE  StateShape(c, Compiling(cmd, phase, reviseRound, compileRound), n)
<1> DEFINE s == State("COMPILING", cmd)
           t == Compiling(cmd, phase, reviseRound, compileRound)
<1>1. StateShape(c, s, n)
  BY RestShape, CommandsFit DEF TerminalTags, StateTags
<1>2. /\ t.tag = s.tag /\ t.cmd = s.cmd /\ t.ctx = s.ctx
      /\ t.reviseRound \in Nat /\ t.planRound \in Nat /\ t.compileRound \in Nat
      /\ StateFields(t)
  BY DEF Compiling, State, StateFields
<1>3. StateShape(c, t, n)
  <2> HIDE DEF s, t
  <2>. QED BY <1>1, <1>2, SameShape
<1>. QED BY <1>3

(* one that starts a phase or a wave, *)
LEMMA StartPhaseShape ==
  ASSUME NEW c, ConfigOK(c), NEW n \in Nat, NEW phase
  PROVE  StateShape(c, StartPhaseCompile(c, phase), n)
<1> DEFINE wave == PendingWaveAt(c, phase)
           s == State("RUNNING_WAVE", "RUN_WAVE")
           t == [s EXCEPT !.phase = phase, !.indices = wave]
<1>1. CASE Cardinality(wave) > 1
  <2>1. c.parallelPhases
    <3>1. SUFFICES ASSUME ~c.parallelPhases PROVE FALSE
      OBVIOUS
    <3>2. wave = {phase.index}
      BY <3>1 DEF PendingWaveAt
    <3>3. Cardinality({phase.index}) = 1
      BY FS_Singleton
    <3>. QED BY <1>1, <3>2, <3>3
  <2>2. StateShape(c, s, n)
    BY <2>1, RestShape, CommandsFit DEF StateTags
  <2>3. /\ t.tag = s.tag /\ t.cmd = s.cmd /\ t.ctx = s.ctx
        /\ t.reviseRound \in Nat /\ t.planRound \in Nat /\ t.compileRound \in Nat
        /\ StateFields(t)
    <3> HIDE DEF wave
    <3>. QED BY DEF State, StateFields
  <2>4. StateShape(c, t, n)
    <3> HIDE DEF s, t
    <3>. QED BY <2>2, <2>3, SameShape
  <2>. QED BY <1>1, <2>4 DEF StartPhaseCompile
<1>2. CASE ~(Cardinality(wave) > 1)
  BY <1>2, CompilingShape DEF StartPhaseCompile
<1>. QED BY <1>1, <1>2

(* and one that starts a turn. *)
LEMMA StartIterationShape ==
  ASSUME NEW c, NEW n \in Nat, NEW contract, NEW phase, NEW ctx, HistoriesOK(ctx),
         Len(ctx.runStatusHistory) <= n,
         CtxFields(ctx)
  PROVE  StateShape(c, StartIteration(c, contract, phase, ctx), n)
<1> DEFINE t == StartIteration(c, contract, phase, ctx)
<1>1. /\ t.ctx = ctx /\ t.tag = "RUNNING_AGENT" /\ t.cmd \in {"RUN_AGENT", "RUN_AGENT_BEST_OF"}
      /\ t.reviseRound = 0 /\ t.planRound = 0 /\ t.compileRound = 0 /\ StateFields(t)
  BY DEF StartIteration, State, StateFields
<1> HIDE DEF t
<1>2. t.tag \in StateTags /\ t.cmd \in WaitsFor(t.tag)
  BY <1>1, CommandsFit DEF StateTags
<1>3. StateShape(c, t, n)
  BY <1>1, <1>2 DEF StateShape
<1>. QED BY <1>3 DEF t

(* A decision is one of the five there are. *)
LEMMA DecideShape ==
  ASSUME NEW c, ConfigOK(c), NEW ctx, HistoriesOK(ctx), NEW contract, NEW pass, NEW approval,
         NEW d, d = Decide(c, contract, ctx, pass, approval)
  PROVE  /\ d.kind \in {"CONTINUE", "DONE", "ADJUDICATE", "FAILED", "ABORTED"}
         /\ d.ledger \in Ledgers
<1> DEFINE kind  == DetectStuck(c, ctx)
           stuck == kind # "none" /\ ~(kind = "no-diff" /\ FreshVeto(ctx, pass, approval))
<1>1. ctx.iteration \in Nat /\ IterationCap(c, ctx) \in Nat /\ ctx.remediations \in Ledgers
  BY KnobTypes DEF IterationCap, HistoriesOK, Ledgers
<1>2. Spent(ctx.remediations, kind) \in Ledgers
  BY <1>1 DEF Spent, Ledgers
<1>3. CASE pass /\ approval = "approve"
  BY <1>1, <1>3 DEF Decide, Decision
<1>4. CASE ~(pass /\ approval = "approve") /\ stuck
  BY <1>1, <1>2, <1>4 DEF Decide, Decision
<1>5. CASE ~(pass /\ approval = "approve") /\ ~stuck
  BY <1>1, <1>2, <1>5 DEF Decide, Decision
<1>. QED BY <1>3, <1>4, <1>5

(* Applying it leads to a well-formed state. *)
LEMMA ApplyDecisionShape ==
  ASSUME NEW c, ConfigOK(c), NEW n \in Nat, NEW s, StateShape(c, s, n), NEW ctx,
         HistoriesOK(ctx), CtxFields(ctx), Len(ctx.runStatusHistory) <= n, NEW d,
         d.kind \in {"CONTINUE", "DONE", "ADJUDICATE", "FAILED", "ABORTED"}, d.ledger \in Ledgers
  PROVE  StateShape(c, ApplyDecision(c, s, ctx, d), n)
<1>1. CASE d.kind = "CONTINUE"
  <2> DEFINE next == [ctx EXCEPT !.feedbackSource = d.source, !.remediations = d.ledger]
  <2>1. /\ CtxFields(next) /\ next.runStatusHistory = ctx.runStatusHistory
        /\ next.verifierDetailHistory = ctx.verifierDetailHistory
        /\ next.iteration = ctx.iteration /\ next.remediations = d.ledger
    BY DEF CtxFields
  <2> HIDE DEF next
  <2>2. HistoriesOK(next)
    BY <2>1 DEF HistoriesOK
  <2>3. StateShape(c, StartIteration(c, s.contract, s.phase, next), n)
    BY <2>1, <2>2, StartIterationShape
  <2>. QED BY <1>1, <2>3 DEF ApplyDecision, next
<1>2. CASE d.kind = "DONE"
  <2> DEFINE t == State("ADVANCING_PHASE", "CHECKPOINT_AND_ADVANCE")
             next == [t EXCEPT !.phase = s.phase, !.iterations = ctx.iteration]
  <2>1. StateShape(c, t, n)
    BY RestShape, CommandsFit DEF StateTags
  <2>2. /\ next.tag = t.tag /\ next.cmd = t.cmd /\ next.ctx = t.ctx
        /\ next.reviseRound \in Nat /\ next.planRound \in Nat /\ next.compileRound \in Nat
        /\ StateFields(next)
    BY DEF State, StateFields
  <2>3. StateShape(c, next, n)
    <3> HIDE DEF t, next
    <3>. QED BY <2>1, <2>2, SameShape
  <2>4. StateShape(c, Stopped("DONE", "both-keys", s.contract, ctx.iteration), n)
    BY StoppedShape DEF TerminalTags
  <2>. QED BY <1>2, <2>3, <2>4 DEF ApplyDecision, PhaseDone
<1>3. CASE d.kind = "ADJUDICATE"
  <2> DEFINE next == [ctx EXCEPT !.adjudicated = TRUE]
             t == [s EXCEPT !.tag = "ADJUDICATING", !.cmd = "ADJUDICATE_CONTRACT", !.ctx = next]
  <2>1. /\ CtxFields(next) /\ next.runStatusHistory = ctx.runStatusHistory
        /\ next.verifierDetailHistory = ctx.verifierDetailHistory
        /\ next.iteration = ctx.iteration /\ next.remediations = ctx.remediations
    BY DEF CtxFields
  <2> HIDE DEF next
  <2>2. HistoriesOK(next)
    BY <2>1 DEF HistoriesOK
  <2>3. /\ StateFields(t) /\ t.ctx = next /\ t.tag = "ADJUDICATING"
        /\ t.cmd = "ADJUDICATE_CONTRACT" /\ t.reviseRound = s.reviseRound
        /\ t.planRound = s.planRound /\ t.compileRound = s.compileRound
    BY DEF StateShape, StateFields
  <2>4. t = ApplyDecision(c, s, ctx, d)
    BY <1>3 DEF ApplyDecision, next
  <2>5. t.tag \in StateTags /\ t.cmd \in WaitsFor(t.tag)
    <3> HIDE DEF t
    <3>. QED BY <2>3, CommandsFit DEF StateTags
  <2> HIDE DEF t
  <2>6. StateShape(c, t, n)
    BY <2>1, <2>2, <2>3, <2>5 DEF StateShape
  <2>. QED BY <2>4, <2>6
<1>4. CASE d.kind \in {"FAILED", "ABORTED"}
  <2>1. StateShape(c, Stopped(d.kind, d.reason, s.contract, ctx.iteration), n)
    BY <1>4, StoppedShape DEF TerminalTags
  <2>. QED BY <1>4, <2>1 DEF ApplyDecision
<1>. QED BY <1>1, <1>2, <1>3, <1>4

(* A history no longer than a past is no longer than a longer one. *)
LEMMA LongerPast ==
  ASSUME NEW c, NEW s, NEW n \in Nat, StateShape(c, s, n)
  PROVE  StateShape(c, s, n + 1)
<1>1. Len(s.ctx.runStatusHistory) \in Nat
  BY LenProperties DEF StateShape, HistoriesOK
<1>. QED BY <1>1 DEF StateShape

(* One lemma per handler: it keeps the shape. *)
LEMMA StepPlanningShape ==
  ASSUME NEW c, ConfigOK(c), NEW n \in Nat, NEW s, StateShape(c, s, n), NEW e,
         e.tag \in {"PLAN_COMPILED", "PLAN_FAILED"}
  PROVE  StateShape(c, StepPlanning(c, s, e), n)
<1>1. s.planRound \in Nat /\ s.reviseRound \in Nat /\ c.maxPlanRetries \in Nat
  BY KnobTypes DEF StateShape
<1>2. CASE e.tag = "PLAN_COMPILED"
  <2> DEFINE r == State("AWAIT_PLAN_SEAL", "REQUEST_PLAN_SEAL")
             t == [r EXCEPT !.reviseRound = s.reviseRound, !.phase = [NoPhase EXCEPT !.plan = e.plan]]
  <2>1. StateShape(c, r, n)
    BY RestShape, CommandsFit DEF StateTags
  <2>2. /\ t.tag = r.tag /\ t.cmd = r.cmd /\ t.ctx = r.ctx
        /\ t.reviseRound \in Nat /\ t.planRound \in Nat /\ t.compileRound \in Nat
        /\ StateFields(t)
    BY <1>1 DEF State, StateFields
  <2>3. StateShape(c, t, n)
    <3> HIDE DEF r, t
    <3>. QED BY <2>1, <2>2, SameShape
  <2>. QED BY <1>2, <2>3 DEF StepPlanning
<1>3. CASE e.tag = "PLAN_FAILED"
  <2> DEFINE r == State("PLANNING", "COMPILE_PLAN")
             t == Planning(s.reviseRound, s.planRound + 1)
  <2>1. StateShape(c, r, n)
    BY RestShape, CommandsFit DEF StateTags
  <2>2. /\ t.tag = r.tag /\ t.cmd = r.cmd /\ t.ctx = r.ctx
        /\ t.reviseRound \in Nat /\ t.planRound \in Nat /\ t.compileRound \in Nat
        /\ StateFields(t)
    BY <1>1 DEF Planning, State, StateFields
  <2>3. StateShape(c, t, n)
    <3> HIDE DEF r, t
    <3>. QED BY <2>1, <2>2, SameShape
  <2>4. StateShape(c, Stopped("FAILED", "plan-failed", NoContract, 0), n)
    BY StoppedShape DEF TerminalTags
  <2> HIDE DEF t
  <2>5. StepPlanning(c, s, e) \in {t, Stopped("FAILED", "plan-failed", NoContract, 0)}
    BY <1>1, <1>3 DEF StepPlanning, t
  <2>. QED BY <2>3, <2>4, <2>5
<1>. QED BY <1>2, <1>3

(* The gate of the plan. *)
LEMMA StepAwaitPlanSealShape ==
  ASSUME NEW c, ConfigOK(c), NEW n \in Nat, NEW s, StateShape(c, s, n), NEW e,
         e.decision \in {"approve", "reject", "revise"}
  PROVE  StateShape(c, StepAwaitPlanSeal(c, s, e), n)
<1>1. s.reviseRound \in Nat /\ c.maxPlanRevisions \in Nat
  BY KnobTypes DEF StateShape
<1>2. StateShape(c, StartPhaseCompile(c, s.phase), n)
  BY StartPhaseShape
<1>3. /\ StateShape(c, Stopped("ABORTED", "plan-rejected", NoContract, 0), n)
      /\ StateShape(c, Stopped("ABORTED", "plan-revision-cap", NoContract, 0), n)
  BY StoppedShape DEF TerminalTags
<1> DEFINE r == State("PLANNING", "COMPILE_PLAN")
           t == Planning(s.reviseRound + 1, 0)
<1>4. StateShape(c, r, n)
  BY RestShape, CommandsFit DEF StateTags
<1>5. /\ t.tag = r.tag /\ t.cmd = r.cmd /\ t.ctx = r.ctx
      /\ t.reviseRound \in Nat /\ t.planRound \in Nat /\ t.compileRound \in Nat
      /\ StateFields(t)
  BY <1>1 DEF Planning, State, StateFields
<1>6. StateShape(c, t, n)
  <2> HIDE DEF r, t
  <2>. QED BY <1>4, <1>5, SameShape
<1> HIDE DEF t
<1>7. StepAwaitPlanSeal(c, s, e) \in
        {StartPhaseCompile(c, s.phase), Stopped("ABORTED", "plan-rejected", NoContract, 0),
         Stopped("ABORTED", "plan-revision-cap", NoContract, 0), t}
  BY <1>1 DEF StepAwaitPlanSeal, t
<1>. QED BY <1>2, <1>3, <1>6, <1>7

(* The compilation of a contract. *)
LEMMA StepCompilingShape ==
  ASSUME NEW c, ConfigOK(c), NEW n \in Nat, NEW s, StateShape(c, s, n), NEW e,
         e.tag \in {"CONTRACT_COMPILED", "COMPILE_FAILED"}
  PROVE  StateShape(c, StepCompiling(c, s, e), n)
<1>1. s.compileRound \in Nat /\ s.reviseRound \in Nat /\ c.maxCompileRetries \in Nat
  BY KnobTypes DEF StateShape
<1>2. CASE e.tag = "CONTRACT_COMPILED"
  <2> DEFINE r == State("AWAIT_SEAL", "REQUEST_SEAL")
             t == [r EXCEPT !.contract = e.contract, !.reviseRound = s.reviseRound,
                            !.phase = s.phase]
  <2>1. StateShape(c, r, n)
    BY RestShape, CommandsFit DEF StateTags
  <2>2. /\ t.tag = r.tag /\ t.cmd = r.cmd /\ t.ctx = r.ctx
        /\ t.reviseRound \in Nat /\ t.planRound \in Nat /\ t.compileRound \in Nat
        /\ StateFields(t)
    BY <1>1 DEF State, StateFields
  <2>3. StateShape(c, t, n)
    <3> HIDE DEF r, t
    <3>. QED BY <2>1, <2>2, SameShape
  <2>. QED BY <1>2, <2>3 DEF StepCompiling
<1>3. CASE e.tag = "COMPILE_FAILED"
  <2>1. StateShape(c, Compiling("COMPILE_VERIFIER", s.phase, s.reviseRound, s.compileRound + 1), n)
    <3>1. s.compileRound + 1 \in Nat
      BY <1>1
    <3>. QED BY <1>1, <3>1, CompilingShape
  <2>2. StateShape(c, Stopped("FAILED", "compile-failed", NoContract, 0), n)
    BY StoppedShape DEF TerminalTags
  <2>. QED BY <1>1, <1>3, <2>1, <2>2 DEF StepCompiling
<1>. QED BY <1>2, <1>3

(* The Seal. *)
LEMMA StepAwaitSealShape ==
  ASSUME NEW c, ConfigOK(c), NEW n \in Nat, NEW s, StateShape(c, s, n), NEW e,
         e.decision \in {"approve", "reject", "revise", "edited"}
  PROVE  StateShape(c, StepAwaitSeal(c, s, e), n)
<1>1. s.reviseRound \in Nat /\ c.maxSealRevisions \in Nat
  BY KnobTypes DEF StateShape
<1> DEFINE r == State("PREPARING", "PREPARE_WORKSPACE")
           t == [r EXCEPT !.contract = s.contract, !.phase = s.phase]
           caps == {Stopped("ABORTED", "seal-rejected", s.contract, 0),
                    Stopped("ABORTED", "seal-revision-cap", s.contract, 0)}
           again == {Compiling("COMPILE_VERIFIER", s.phase, s.reviseRound + 1, 0),
                     Compiling("REFREEZE_CONTRACT", s.phase, s.reviseRound, 0)}
           turn == StartIteration(c, s.contract, s.phase, InitialCtx)
<1>2. StateShape(c, t, n)
  <2>1. StateShape(c, r, n)
    BY RestShape, CommandsFit DEF StateTags
  <2>2. /\ t.tag = r.tag /\ t.cmd = r.cmd /\ t.ctx = r.ctx
        /\ t.reviseRound \in Nat /\ t.planRound \in Nat /\ t.compileRound \in Nat
        /\ StateFields(t)
    BY DEF State, StateFields
  <2> HIDE DEF r, t
  <2>. QED BY <2>1, <2>2, SameShape
<1>3. \A x \in caps : StateShape(c, x, n)
  BY StoppedShape DEF TerminalTags
<1>4. \A x \in again : StateShape(c, x, n)
  BY <1>1, CompilingShape
<1>5. StateShape(c, turn, n)
  <2>1. CtxFields(InitialCtx)
    BY DEF CtxFields, InitialCtx
  <2>. QED BY <2>1, InitialCtxShape, StartIterationShape
<1>6. StepAwaitSeal(c, s, e) \in {t, turn} \cup caps \cup again
  <2> HIDE DEF turn
  <2>1. CASE e.decision = "approve"
    BY <2>1 DEF StepAwaitSeal, turn
  <2>2. CASE e.decision = "reject"
    BY <2>2 DEF StepAwaitSeal
  <2>3. CASE e.decision = "revise"
    BY <1>1, <2>3 DEF StepAwaitSeal
  <2>4. CASE e.decision = "edited"
    BY <2>4 DEF StepAwaitSeal
  <2>. QED BY <2>1, <2>2, <2>3, <2>4
<1> HIDE DEF t, turn, caps, again
<1>. QED BY <1>2, <1>3, <1>4, <1>5, <1>6

(* The preparation of the workspace. *)
LEMMA StepPreparingShape ==
  ASSUME NEW c, NEW n \in Nat, NEW s, NEW e
  PROVE  StateShape(c, StepPreparing(c, s, e), n)
<1>1. StateShape(c, StartIteration(c, s.contract, s.phase, InitialCtx), n)
  <2>1. CtxFields(InitialCtx)
    BY DEF CtxFields, InitialCtx
  <2>. QED BY <2>1, InitialCtxShape, StartIterationShape
<1>2. StateShape(c, Stopped("FAILED", e.prepared, s.contract, 0), n)
  BY StoppedShape DEF TerminalTags
<1>. QED BY <1>1, <1>2 DEF StepPreparing

(* A turn. *)
LEMMA StepRunningAgentShape ==
  ASSUME NEW c, NEW n \in Nat, NEW s, StateShape(c, s, n), NEW e, e.status \in RunStatuses
  PROVE  StateShape(c, StepRunningAgent(c, s, e), n + 1)
<1> DEFINE ctx == s.ctx
           next == AfterTurn(ctx, e)
           t == StepRunningAgent(c, s, e)
<1>1. /\ CtxFields(next) /\ next.runStatusHistory = Append(ctx.runStatusHistory, e.status)
      /\ next.verifierDetailHistory = ctx.verifierDetailHistory
      /\ next.iteration \in {ctx.iteration, ctx.iteration + 1}
      /\ next.remediations = ctx.remediations
  BY DEF AfterTurn, CtxFields, StateShape
<1>2. /\ StateFields(t) /\ t.ctx = next /\ t.tag = "VERIFYING" /\ t.cmd = "RUN_VERIFIER"
      /\ t.reviseRound = s.reviseRound /\ t.planRound = s.planRound
      /\ t.compileRound = s.compileRound
  BY DEF StepRunningAgent, StateShape, StateFields
<1> HIDE DEF next, t
<1>3. /\ next.runStatusHistory \in Seq(RunStatuses)
      /\ Len(next.runStatusHistory) = Len(ctx.runStatusHistory) + 1
      /\ Len(ctx.runStatusHistory) \in Nat
  BY <1>1, AppendProperties, LenProperties DEF StateShape, HistoriesOK
<1>4. HistoriesOK(next) /\ Len(next.runStatusHistory) <= n + 1
  BY <1>1, <1>3 DEF StateShape, HistoriesOK
<1>5. t.tag \in StateTags /\ t.cmd \in WaitsFor(t.tag)
  BY <1>2, CommandsFit DEF StateTags
<1>6. StateShape(c, t, n + 1)
  BY <1>1, <1>2, <1>4, <1>5 DEF StateShape
<1>. QED BY <1>6 DEF t

(* A verdict. *)
LEMMA StepVerifyingShape ==
  ASSUME NEW c, ConfigOK(c), NEW n \in Nat, NEW s, StateShape(c, s, n), NEW e,
         e.pass \in BOOLEAN
  PROVE  StateShape(c, StepVerifying(c, s, e), n)
<1>1. CASE e.pass
  <2> DEFINE next == AfterGreen(s.ctx, e)
             t == StepVerifying(c, s, e)
  <2>1. /\ CtxFields(next) /\ next.runStatusHistory = s.ctx.runStatusHistory
        /\ next.verifierDetailHistory = << >>
        /\ next.iteration = s.ctx.iteration /\ next.remediations = s.ctx.remediations
    BY DEF AfterGreen, CtxFields, StateShape
  <2>2. /\ StateFields(t) /\ t.ctx = next /\ t.tag = "AWAIT_SIGNOFF"
        /\ t.cmd = "REQUEST_SIGNOFF" /\ t.reviseRound = s.reviseRound
        /\ t.planRound = s.planRound /\ t.compileRound = s.compileRound
    BY <1>1 DEF StepVerifying, StateShape, StateFields
  <2> HIDE DEF next, t
  <2>3. HistoriesOK(next) /\ Len(next.runStatusHistory) <= n
    BY <2>1, EmptySequence DEF StateShape, HistoriesOK
  <2>4. t.tag \in StateTags /\ t.cmd \in WaitsFor(t.tag)
    BY <2>2, CommandsFit DEF StateTags
  <2>5. StateShape(c, t, n)
    BY <2>1, <2>2, <2>3, <2>4 DEF StateShape
  <2>. QED BY <2>5 DEF t
<1>2. CASE ~e.pass
  <2> DEFINE next == AfterRed(s.ctx, e)
             d == Decide(c, s.contract, next, FALSE, "none")
  <2>1. /\ CtxFields(next) /\ next.runStatusHistory = s.ctx.runStatusHistory
        /\ next.verifierDetailHistory = Append(s.ctx.verifierDetailHistory, NormalizeDetail(e.detail))
        /\ next.iteration = s.ctx.iteration /\ next.remediations = s.ctx.remediations
    BY DEF AfterRed, CtxFields, StateShape
  <2> HIDE DEF next
  <2>2. HistoriesOK(next) /\ Len(next.runStatusHistory) <= n
    BY <2>1, SequenceAppend DEF StateShape, HistoriesOK
  <2>3. /\ d.kind \in {"CONTINUE", "DONE", "ADJUDICATE", "FAILED", "ABORTED"}
        /\ d.ledger \in Ledgers
    BY <2>2, DecideShape
  <2> HIDE DEF d
  <2>4. StateShape(c, ApplyDecision(c, s, next, d), n)
    BY <2>1, <2>2, <2>3, ApplyDecisionShape
  <2>. QED BY <1>2, <2>4 DEF StepVerifying, next, d
<1>. QED BY <1>1, <1>2

(* A sign-off. *)
LEMMA StepAwaitSignoffShape ==
  ASSUME NEW c, ConfigOK(c), NEW n \in Nat, NEW s, StateShape(c, s, n), NEW e
  PROVE  StateShape(c, StepAwaitSignoff(c, s, e), n)
<1> DEFINE next == [s.ctx EXCEPT !.lastBudget = e.budget]
           d == Decide(c, s.contract, next, next.lastVerdict = "pass", e.approval)
<1>1. /\ CtxFields(next) /\ next.runStatusHistory = s.ctx.runStatusHistory
      /\ next.verifierDetailHistory = s.ctx.verifierDetailHistory
      /\ next.iteration = s.ctx.iteration /\ next.remediations = s.ctx.remediations
  BY DEF CtxFields, StateShape
<1> HIDE DEF next
<1>2. HistoriesOK(next) /\ Len(next.runStatusHistory) <= n
  BY <1>1 DEF StateShape, HistoriesOK
<1>3. /\ d.kind \in {"CONTINUE", "DONE", "ADJUDICATE", "FAILED", "ABORTED"}
      /\ d.ledger \in Ledgers
  BY <1>2, DecideShape
<1> HIDE DEF d
<1>4. StateShape(c, ApplyDecision(c, s, next, d), n)
  BY <1>1, <1>2, <1>3, ApplyDecisionShape
<1>. QED BY <1>4 DEF StepAwaitSignoff, next, d

(* So does every step on an event the state takes. *)
LEMMA StepShape ==
  ASSUME NEW c, ConfigOK(c), NEW n \in Nat, NEW s, StateShape(c, s, n), NEW e, ReadingOK(e),
         e.tag \in EventsOf(s.tag)
  PROVE  StateShape(c, Step(c, s, e), n + 1)
<1>1. CASE s.tag = "PLANNING"
  <2>1. e.tag \in {"PLAN_COMPILED", "PLAN_FAILED"}
    BY <1>1 DEF EventsOf
  <2>. QED BY <1>1, <2>1, StepPlanningShape, LongerPast DEF Step
<1>2. CASE s.tag = "AWAIT_PLAN_SEAL"
  <2>1. e.decision \in {"approve", "reject", "revise"}
    BY <1>2 DEF EventsOf, ReadingOK
  <2>2. StateShape(c, StepAwaitPlanSeal(c, s, e), n)
    BY <2>1, StepAwaitPlanSealShape
  <2>. QED BY <1>2, <2>2, LongerPast DEF Step
<1>3. CASE s.tag = "ADVANCING_PHASE"
  <2>1. \A phase : StateShape(c, StartPhaseCompile(c, phase), n + 1)
    BY StartPhaseShape
  <2>. QED BY <1>3, <2>1 DEF Step, StepAdvancingPhase
<1>4. CASE s.tag = "RUNNING_WAVE"
  BY <1>4, StartPhaseShape DEF Step, StepRunningWave
<1>5. CASE s.tag = "COMPILING"
  <2>1. e.tag \in {"CONTRACT_COMPILED", "COMPILE_FAILED"}
    BY <1>5 DEF EventsOf
  <2>2. StateShape(c, StepCompiling(c, s, e), n)
    BY <2>1, StepCompilingShape
  <2>. QED BY <1>5, <2>2, LongerPast DEF Step
<1>6. CASE s.tag = "AWAIT_SEAL"
  <2>1. e.decision \in {"approve", "reject", "revise", "edited"}
    BY <1>6 DEF EventsOf, ReadingOK
  <2>2. StateShape(c, StepAwaitSeal(c, s, e), n)
    BY <2>1, StepAwaitSealShape
  <2>. QED BY <1>6, <2>2, LongerPast DEF Step
<1>7. CASE s.tag = "PREPARING"
  BY <1>7, StepPreparingShape DEF Step
<1>8. CASE s.tag = "RUNNING_AGENT"
  <2>1. e.status \in RunStatuses
    BY <1>8 DEF EventsOf, ReadingOK
  <2>. QED BY <1>8, <2>1, StepRunningAgentShape DEF Step
<1>9. CASE s.tag = "VERIFYING"
  <2>1. e.pass \in BOOLEAN
    BY <1>9 DEF EventsOf, ReadingOK
  <2>2. StateShape(c, StepVerifying(c, s, e), n)
    BY <2>1, StepVerifyingShape
  <2>. QED BY <1>9, <2>2, LongerPast DEF Step
<1>10. CASE s.tag = "AWAIT_SIGNOFF"
  <2>2. StateShape(c, StepAwaitSignoff(c, s, e), n)
    BY StepAwaitSignoffShape
  <2>. QED BY <1>10, <2>2, LongerPast DEF Step
<1>11. CASE s.tag = "ADJUDICATING"
  <2>1. \A reason : StateShape(c, Stopped("ABORTED", reason, s.contract, s.ctx.iteration), n + 1)
    BY StoppedShape DEF TerminalTags
  <2>. QED BY <1>11, <2>1 DEF Step, StepAdjudicating
<1>12. s.tag \in {"PLANNING", "AWAIT_PLAN_SEAL", "ADVANCING_PHASE", "RUNNING_WAVE", "COMPILING",
                  "AWAIT_SEAL", "PREPARING", "RUNNING_AGENT", "VERIFYING", "AWAIT_SIGNOFF",
                  "ADJUDICATING"}
  BY DEF EventsOf
<1>. QED BY <1>1, <1>2, <1>3, <1>4, <1>5, <1>6, <1>7, <1>8, <1>9, <1>10, <1>11, <1>12

(* What a decision does not read of the configuration it leaves alone. *)
LEMMA ApplyDecisionTag ==
  ASSUME NEW c, NEW s, NEW ctx, NEW d,
         d.kind \in {"CONTINUE", "DONE", "ADJUDICATE", "FAILED", "ABORTED"},
         StateFields(s)
  PROVE  /\ ApplyDecision(c, s, ctx, d).tag = "ABORTED" <=> d.kind = "ABORTED"
         /\ ApplyDecision(c, s, ctx, d).tag = "ADJUDICATING" <=> d.kind = "ADJUDICATE"
<1> DEFINE t == ApplyDecision(c, s, ctx, d)
<1>1. d.kind = "CONTINUE" => t.tag = "RUNNING_AGENT"
  BY DEF ApplyDecision, StartIteration, State
<1>2. d.kind = "DONE" => t.tag \in {"ADVANCING_PHASE", "DONE"}
  BY DEF ApplyDecision, PhaseDone, Stopped, State
<1>3. d.kind = "ADJUDICATE" => t.tag = "ADJUDICATING"
  BY DEF ApplyDecision, StateFields
<1>4. d.kind \in {"FAILED", "ABORTED"} => t.tag = d.kind
  BY DEF ApplyDecision, Stopped, State
<1>. QED BY <1>1, <1>2, <1>3, <1>4

(***************************************************************************)
(* A step is the same under thresholds the fold has moved: the timeout's   *)
(* beyond the past of the state, the repeat's down to an adjudication that *)
(* follows.                                                                *)
(***************************************************************************)
LEMMA StepAgrees ==
  ASSUME NEW c, NEW d, SameBut(c, d), NEW n \in Nat, NEW s, StateShape(c, s, n), NEW e,
         ReadingOK(e), e.tag \in EventsOf(s.tag),
         d.timeoutNoDiffThreshold > n,
         c.timeoutNoDiffThreshold > n \/ Step(c, s, e).tag # "ABORTED",
         \/ d.repeatFailureThreshold = c.repeatFailureThreshold
         \/ /\ Step(c, s, e).tag = "ADJUDICATING"
            /\ d.repeatFailureThreshold <= c.repeatFailureThreshold
  PROVE  Step(d, s, e) = Step(c, s, e)
<1>0. /\ ConfigOK(c) /\ ConfigOK(d)
      /\ c.timeoutNoDiffThreshold \in Nat /\ d.timeoutNoDiffThreshold \in Nat
      /\ Len(s.ctx.runStatusHistory) \in Nat /\ Len(s.ctx.runStatusHistory) <= n
      /\ StateFields(s)
  BY KnobTypes, LenProperties DEF SameBut, StateShape, HistoriesOK
<1>a. \A phase : StartPhaseCompile(d, phase) = StartPhaseCompile(c, phase)
  BY SameKnobs DEF StartPhaseCompile, PendingWaveAt
<1>b. \A contract, phase, ctx :
        StartIteration(d, contract, phase, ctx) = StartIteration(c, contract, phase, ctx)
  BY SameKnobs DEF StartIteration
<1>c. \A ctx, decision : ApplyDecision(d, s, ctx, decision) = ApplyDecision(c, s, ctx, decision)
  BY <1>b DEF ApplyDecision
<1>d. ASSUME NEW ctx, HistoriesOK(ctx), ctx.runStatusHistory = s.ctx.runStatusHistory,
             NEW pass, NEW approval,
             Step(c, s, e) = ApplyDecision(c, s, ctx, Decide(c, s.contract, ctx, pass, approval))
      PROVE  Decide(d, s.contract, ctx, pass, approval) = Decide(c, s.contract, ctx, pass, approval)
  <2> DEFINE decision == Decide(c, s.contract, ctx, pass, approval)
  <2>1. decision.kind \in {"CONTINUE", "DONE", "ADJUDICATE", "FAILED", "ABORTED"}
    BY <1>0, <1>d, DecideShape
  <2>2. /\ Step(c, s, e).tag = "ABORTED" <=> decision.kind = "ABORTED"
        /\ Step(c, s, e).tag = "ADJUDICATING" <=> decision.kind = "ADJUDICATE"
    <3> HIDE DEF decision
    <3>1. Step(c, s, e) = ApplyDecision(c, s, ctx, decision)
      BY <1>d DEF decision
    <3>. QED BY <1>0, <2>1, <3>1, ApplyDecisionTag
  <2>3. /\ d.timeoutNoDiffThreshold > Len(ctx.runStatusHistory)
        /\ c.timeoutNoDiffThreshold > Len(ctx.runStatusHistory) \/ decision.kind # "ABORTED"
    BY <1>0, <1>d, <2>2
  <2>. QED BY <1>d, <2>2, <2>3, DecideAgrees
<1>1. CASE s.tag = "PLANNING"
  BY <1>1, SameKnobs DEF Step, StepPlanning
<1>2. CASE s.tag = "AWAIT_PLAN_SEAL"
  <2>1. c.maxPlanRevisions = d.maxPlanRevisions
    BY SameKnobs
  <2>2. e.decision \in {"approve", "reject", "revise"}
    BY <1>2 DEF EventsOf, ReadingOK
  <2>3. StepAwaitPlanSeal(d, s, e) = StepAwaitPlanSeal(c, s, e)
    BY <1>a, <2>1, <2>2 DEF StepAwaitPlanSeal
  <2>. QED BY <1>2, <2>3 DEF Step
<1>3. CASE s.tag = "ADVANCING_PHASE"
  BY <1>3, <1>a DEF Step, StepAdvancingPhase
<1>4. CASE s.tag = "RUNNING_WAVE"
  BY <1>4, <1>a DEF Step, StepRunningWave
<1>5. CASE s.tag = "COMPILING"
  <2>1. c.maxCompileRetries = d.maxCompileRetries
    BY SameKnobs
  <2>2. StepCompiling(d, s, e) = StepCompiling(c, s, e)
    BY <2>1 DEF StepCompiling
  <2>. QED BY <1>5, <2>2 DEF Step
<1>6. CASE s.tag = "AWAIT_SEAL"
  <2>1. c.maxSealRevisions = d.maxSealRevisions
    BY SameKnobs
  <2>2. StartIteration(d, s.contract, s.phase, InitialCtx)
          = StartIteration(c, s.contract, s.phase, InitialCtx)
    BY <1>b
  <2>3. StepAwaitSeal(d, s, e) = StepAwaitSeal(c, s, e)
    BY <2>1, <2>2 DEF StepAwaitSeal
  <2>. QED BY <1>6, <2>3 DEF Step
<1>7. CASE s.tag = "PREPARING"
  BY <1>7, <1>b DEF Step, StepPreparing
<1>8. CASE s.tag = "RUNNING_AGENT"
  BY <1>8 DEF Step, StepRunningAgent
<1>9. CASE s.tag = "VERIFYING"
  <2>1. CASE e.pass
    BY <1>9, <2>1 DEF Step, StepVerifying
  <2>2. CASE ~e.pass
    <3> DEFINE ctx == AfterRed(s.ctx, e)
    <3>1. /\ ctx.runStatusHistory = s.ctx.runStatusHistory
          /\ ctx.verifierDetailHistory = Append(s.ctx.verifierDetailHistory, NormalizeDetail(e.detail))
          /\ ctx.iteration = s.ctx.iteration /\ ctx.remediations = s.ctx.remediations
      BY DEF AfterRed, CtxFields, StateShape
    <3> HIDE DEF ctx
    <3>2. HistoriesOK(ctx)
      BY <3>1, SequenceAppend DEF StateShape, HistoriesOK
    <3>3. \A x : Step(x, s, e) = ApplyDecision(x, s, ctx, Decide(x, s.contract, ctx, FALSE, "none"))
      BY <1>9, <2>2 DEF Step, StepVerifying, ctx
    <3>4. Decide(d, s.contract, ctx, FALSE, "none") = Decide(c, s.contract, ctx, FALSE, "none")
      BY <1>d, <3>1, <3>2, <3>3
    <3>. QED BY <1>c, <3>3, <3>4
  <2>. QED BY <2>1, <2>2
<1>10. CASE s.tag = "AWAIT_SIGNOFF"
  <2> DEFINE ctx == [s.ctx EXCEPT !.lastBudget = e.budget]
  <2>1. /\ ctx.runStatusHistory = s.ctx.runStatusHistory
        /\ ctx.verifierDetailHistory = s.ctx.verifierDetailHistory
        /\ ctx.iteration = s.ctx.iteration /\ ctx.remediations = s.ctx.remediations
    BY DEF CtxFields, StateShape
  <2> HIDE DEF ctx
  <2>2. HistoriesOK(ctx)
    BY <2>1 DEF StateShape, HistoriesOK
  <2>3. \A x : Step(x, s, e) =
          ApplyDecision(x, s, ctx, Decide(x, s.contract, ctx, ctx.lastVerdict = "pass", e.approval))
    BY <1>10 DEF Step, StepAwaitSignoff, ctx
  <2>4. Decide(d, s.contract, ctx, ctx.lastVerdict = "pass", e.approval)
          = Decide(c, s.contract, ctx, ctx.lastVerdict = "pass", e.approval)
    BY <1>d, <2>1, <2>2, <2>3
  <2>. QED BY <1>c, <2>3, <2>4
<1>11. CASE s.tag = "ADJUDICATING"
  BY <1>11 DEF Step, StepAdjudicating
<1>12. s.tag \in {"PLANNING", "AWAIT_PLAN_SEAL", "ADVANCING_PHASE", "RUNNING_WAVE", "COMPILING",
                  "AWAIT_SEAL", "PREPARING", "RUNNING_AGENT", "VERIFYING", "AWAIT_SIGNOFF",
                  "ADJUDICATING"}
  BY DEF EventsOf
<1>. QED BY <1>1, <1>2, <1>3, <1>4, <1>5, <1>6, <1>7, <1>8, <1>9, <1>10, <1>11, <1>12

-----------------------------------------------------------------------------
(* The recursive functions of a log, as recurrences. *)

(* The state after an entry is what the entry makes of the state before it. *)
LEMMA FoldRecurs ==
  ASSUME NEW cfg, NEW l, IsSequence(l)
  PROVE  /\ Fold(cfg, l)[0] = InitialState(ExtendedRunConfig(cfg, l))
         /\ \A i \in 1 .. Len(l) : Fold(cfg, l)[i] = FoldEntry(cfg, l, i, Fold(cfg, l)[i - 1])
<1> DEFINE init    == InitialState(ExtendedRunConfig(cfg, l))
           F(i, v) == CHOOSE t \in { FoldEntry(cfg, l, i, s) : s \in {v} } : TRUE
           Is(f, n) == f = [i \in 0 .. n |-> IF i = 0 THEN init ELSE F(i, f[i - 1])]
           T == { n \in 0 .. Len(l) : \E f : Is(f, n) }
<1>1. Len(l) \in Nat
  BY SequenceShape
<1>2. 0 \in T
  <2> DEFINE f == [i \in 0 .. 0 |-> init]
  <2>1. Is(f, 0)
    OBVIOUS
  <2>2. \E h : Is(h, 0)
    BY <2>1
  <2> HIDE DEF Is
  <2>. QED BY <1>1, <2>2
<1>3. ASSUME NEW n \in 1 .. Len(l), n - 1 \in T PROVE n \in T
  <2>1. PICK f : Is(f, n - 1)
    BY <1>3
  <2> DEFINE h == [i \in 0 .. n |-> IF i = n THEN F(n, f[n - 1]) ELSE f[i]]
             b == [i \in 0 .. n |-> IF i = 0 THEN init ELSE F(i, h[i - 1])]
  <2>2. ASSUME NEW i \in 0 .. n PROVE h[i] = b[i]
    <3>1. CASE i = 0
      <4>1. h[i] = f[0]
        BY <1>1, <3>1
      <4>2. f[0] = init
        BY <1>1, <2>1
      <4>. QED BY <3>1, <4>1, <4>2
    <3>2. CASE i \in 1 .. (n - 1)
      <4>1. h[i] = f[i] /\ h[i - 1] = f[i - 1] /\ b[i] = F(i, h[i - 1])
        <5> HIDE DEF F
        <5>. QED BY <1>1, <3>2
      <4>2. f[i] = F(i, f[i - 1])
        <5> HIDE DEF F
        <5>. QED BY <1>1, <2>1, <3>2
      <4>. QED BY <4>1, <4>2
    <3>3. CASE i = n
      <4> HIDE DEF F
      <4>. QED BY <1>1, <3>3
    <3>. QED BY <1>1, <3>1, <3>2, <3>3
  <2>3. h = b
    <3>1. DOMAIN h = 0 .. n /\ DOMAIN b = 0 .. n
      OBVIOUS
    <3>2. h = [i \in 0 .. n |-> h[i]] /\ b = [i \in 0 .. n |-> b[i]]
      OBVIOUS
    <3> HIDE DEF h, b
    <3>. QED BY <2>2, <3>2
  <2>4. Is(h, n)
    BY <2>3
  <2>5. \E k : Is(k, n)
    <3> HIDE DEF Is, h
    <3>. QED BY <2>4
  <2> HIDE DEF Is
  <2>. QED BY <1>1, <2>5
<1>4. \E f : Is(f, Len(l))
  <2> HIDE DEF T
  <2>1. 0 .. Len(l) \subseteq T
    BY <1>1, <1>2, <1>3, PositionInduction
  <2>2. Len(l) \in T
    BY <1>1, <2>1
  <2>. QED BY <2>2 DEF T
<1>5. Is(Fold(cfg, l), Len(l))
  BY <1>4 DEF Fold
<1> DEFINE f == Fold(cfg, l)
<1>6. f[0] = init /\ \A i \in 1 .. Len(l) : f[i] = F(i, f[i - 1])
  <2> HIDE DEF F, init, f
  <2>1. Is(f, Len(l))
    BY <1>5 DEF f, F, init
  <2>. QED BY <1>1, <2>1
<1>7. \A i, v : F(i, v) = FoldEntry(cfg, l, i, v)
  <2> TAKE i, v
  <2>1. { FoldEntry(cfg, l, i, s) : s \in {v} } = { FoldEntry(cfg, l, i, v) }
    OBVIOUS
  <2>. QED BY <2>1
<1> HIDE DEF f, F
<1>8. \A i \in 1 .. Len(l) : f[i] = FoldEntry(cfg, l, i, f[i - 1])
  BY <1>6, <1>7
<1>. QED BY <1>6, <1>8 DEF f

-----------------------------------------------------------------------------
(* What appending an entry leaves as it was. *)

(* The log with one more entry. *)
LEMMA AppendEntry ==
  ASSUME NEW l, EntriesOK(l), NEW x, EventOK(x.event)
  PROVE  /\ EntriesOK(Append(l, x))
         /\ Len(l) \in Nat /\ DOMAIN l = 1 .. Len(l)
         /\ Len(Append(l, x)) = Len(l) + 1
         /\ DOMAIN Append(l, x) = 1 .. (Len(l) + 1)
         /\ \A i \in 1 .. Len(l) : Append(l, x)[i] = l[i]
         /\ Append(l, x)[Len(l) + 1] = x
<1> DEFINE g == Append(l, x)
<1>1. /\ IsSequence(g) /\ Len(g) = Len(l) + 1
      /\ DOMAIN g = 1 .. (Len(l) + 1)
      /\ \A i \in 1 .. Len(l) : g[i] = l[i]
      /\ g[Len(l) + 1] = x
  BY SequenceAppend DEF EntriesOK
<1>2. Len(l) \in Nat /\ DOMAIN l = 1 .. Len(l)
  BY SequenceShape DEF EntriesOK
<1> HIDE DEF g
<1>3. ASSUME NEW i \in DOMAIN g PROVE EventOK(g[i].event)
  <2>1. CASE i \in 1 .. Len(l)
    BY <1>1, <1>2, <2>1 DEF EntriesOK
  <2>2. CASE i = Len(l) + 1
    BY <1>1, <2>2
  <2>. QED BY <1>1, <1>2, <2>1, <2>2
<1>4. EntriesOK(g)
  BY <1>1, <1>3 DEF EntriesOK
<1>. QED BY <1>1, <1>2, <1>4 DEF g

(* A prefix of the log is one of the longer log. *)
LEMMA AppendPrefix ==
  ASSUME NEW l, EntriesOK(l), NEW x, NEW i \in 0 .. Len(l)
  PROVE  SubSeq(Append(l, x), 1, i) = SubSeq(l, 1, i)
<1> DEFINE T == { l[j] : j \in DOMAIN l } \cup {x}
<1>1. l \in Seq(T) /\ << x >> \in Seq(T)
  <2>1. l \in Seq({ l[j] : j \in DOMAIN l })
    BY DEF EntriesOK, IsSequence
  <2>2. { l[j] : j \in DOMAIN l } \subseteq T /\ x \in T
    OBVIOUS
  <2>3. l \in Seq(T)
    <3> HIDE DEF T
    <3>. QED BY <2>1, <2>2, SeqMonotonic
  <2>4. << x >> \in Seq(T)
    <3> HIDE DEF T
    <3>. QED BY <2>2
  <2>. QED BY <2>3, <2>4
<1>2. Len(l) \in Nat
  BY SequenceShape DEF EntriesOK
<1>3. Append(l, x) = l \o << x >>
  <2> HIDE DEF T
  <2>1. x \in T
    BY DEF T
  <2>. QED BY <1>1, <2>1, AppendIsConcat
<1>4. SubSeq(l \o << x >>, 1, i) = SubSeq(l, 1, i)
  <2> HIDE DEF T
  <2>. QED BY <1>1, <1>2, SubSeqOfConcat1
<1>. QED BY <1>3, <1>4

(* No marker is appended: the configuration in force stays. *)
LEMMA AppendMarkers ==
  ASSUME NEW c, NEW l, EntriesOK(l), NEW x, EventOK(x.event), x.event.tag # "RUN_EXTENDED"
  PROVE  /\ Markers(Append(l, x)) = Markers(l)
         /\ ExtendedRunConfig(c, Append(l, x)) = ExtendedRunConfig(c, l)
         /\ BudgetExtended(Append(l, x)) <=> BudgetExtended(l)
<1> DEFINE g == Append(l, x)
           carrying(m, k) == { i \in Markers(m) : k \in DOMAIN m[i].event.overlay }
<1>1. /\ Len(l) \in Nat /\ DOMAIN l = 1 .. Len(l) /\ DOMAIN g = 1 .. (Len(l) + 1)
      /\ \A i \in 1 .. Len(l) : g[i] = l[i]
      /\ g[Len(l) + 1] = x
  BY AppendEntry
<1> HIDE DEF g
<1>2. Markers(g) = Markers(l) /\ \A i \in Markers(l) : g[i] = l[i] /\ i \in 1 .. Len(l)
  BY <1>1 DEF Markers
<1>3. \A k : carrying(g, k) = carrying(l, k)
  BY <1>2
<1>4. ASSUME NEW k, carrying(l, k) # {}
      PROVE  g[Max(carrying(g, k))] = l[Max(carrying(l, k))]
  <2>1. carrying(l, k) \subseteq 0 .. Len(l)
    BY <1>1, <1>2
  <2>2. Max(carrying(l, k)) \in carrying(l, k)
    <3> HIDE DEF carrying
    <3>. QED BY <1>1, <1>4, <2>1, MaxOfPositions
  <2>3. Max(carrying(l, k)) \in Markers(l)
    BY <2>2
  <2> HIDE DEF carrying
  <2>. QED BY <1>2, <1>3, <2>3
<1>5. \A k \in DOMAIN c :
        (IF carrying(g, k) = {} THEN c[k] ELSE g[Max(carrying(g, k))].event.overlay[k])
        = (IF carrying(l, k) = {} THEN c[k] ELSE l[Max(carrying(l, k))].event.overlay[k])
  <2> HIDE DEF carrying
  <2>. QED BY <1>3, <1>4
<1>6. ExtendedRunConfig(c, g) = ExtendedRunConfig(c, l)
  BY <1>2, <1>5 DEF ExtendedRunConfig
<1>7. BudgetExtended(g) <=> BudgetExtended(l)
  BY <1>2 DEF BudgetExtended
<1>. QED BY <1>2, <1>6, <1>7 DEF g

(* The entries the reducer sees. *)
LEMMA FoldedPositions ==
  ASSUME NEW l, EntriesOK(l), Folded(l) # {}
  PROVE  /\ LastFoldedIndex(l) \in Folded(l) /\ LastFoldedIndex(l) \in 1 .. Len(l)
         /\ \A i \in Folded(l) : i \in 1 .. Len(l) /\ i <= LastFoldedIndex(l)
<1>1. Len(l) \in Nat /\ DOMAIN l = 1 .. Len(l)
  BY SequenceShape DEF EntriesOK
<1>2. \A i \in Folded(l) : i \in 1 .. Len(l)
  BY <1>1 DEF Folded
<1>3. Folded(l) \subseteq 0 .. Len(l)
  BY <1>1, <1>2
<1>4. LastFoldedIndex(l) \in Folded(l) /\ \A i \in Folded(l) : i <= LastFoldedIndex(l)
  BY <1>1, <1>3, MaxOfPositions DEF LastFoldedIndex
<1>. QED BY <1>2, <1>4

(* The last entry the reducer saw is the appended one, or stays. *)
LEMMA AppendFolded ==
  ASSUME NEW l, EntriesOK(l), NEW x, EventOK(x.event)
  PROVE  /\ x.event.tag \in DriverOnlyTags => /\ Folded(Append(l, x)) = Folded(l)
                                              /\ LastFoldedIndex(Append(l, x)) = LastFoldedIndex(l)
         /\ x.event.tag \notin DriverOnlyTags =>
              /\ Folded(Append(l, x)) = Folded(l) \cup {Len(l) + 1}
              /\ LastFoldedIndex(Append(l, x)) = Len(l) + 1
<1> DEFINE g == Append(l, x)
<1>1. /\ Len(l) \in Nat /\ DOMAIN l = 1 .. Len(l) /\ DOMAIN g = 1 .. (Len(l) + 1)
      /\ \A i \in 1 .. Len(l) : g[i] = l[i]
      /\ g[Len(l) + 1] = x
  BY AppendEntry
<1> HIDE DEF g
<1>2. CASE x.event.tag \in DriverOnlyTags
  <2>1. Folded(g) = Folded(l)
    BY <1>1, <1>2 DEF Folded
  <2>. QED BY <1>2, <2>1 DEF LastFoldedIndex, g
<1>3. CASE x.event.tag \notin DriverOnlyTags
  <2>1. Folded(g) = Folded(l) \cup {Len(l) + 1}
    BY <1>1, <1>3 DEF Folded
  <2>2. \A i \in Folded(g) : i \in Int /\ Len(l) + 1 >= i
    BY <1>1 DEF Folded
  <2>3. Folded(g) \subseteq Int /\ Len(l) + 1 \in Folded(g)
    BY <2>1, <2>2
  <2>4. Max(Folded(g)) = Len(l) + 1
    BY <2>2, <2>3, MaxIs
  <2>. QED BY <1>3, <2>1, <2>4 DEF LastFoldedIndex, g
<1>. QED BY <1>2, <1>3

(* An adjudication looks back at the entry folded just before it, no other. *)
LEMMA AppendPrecursor ==
  ASSUME NEW l, EntriesOK(l), NEW x, EventOK(x.event), NEW i \in Folded(l)
  PROVE  AdjudicationPrecursor(Append(l, x), i) <=>
           \/ AdjudicationPrecursor(l, i)
           \/ x.event.tag = "CONTRACT_ADJUDICATED" /\ i = LastFoldedIndex(l)
<1> DEFINE g == Append(l, x)
<1>1. /\ Len(l) \in Nat /\ DOMAIN l = 1 .. Len(l) /\ DOMAIN g = 1 .. (Len(l) + 1)
      /\ \A j \in 1 .. Len(l) : g[j] = l[j]
      /\ g[Len(l) + 1] = x
  BY AppendEntry
<1>2. /\ LastFoldedIndex(l) \in Folded(l)
      /\ \A j \in Folded(l) : j \in 1 .. Len(l) /\ j <= LastFoldedIndex(l)
  BY FoldedPositions
<1>3. CASE x.event.tag \in DriverOnlyTags
  <2>1. Folded(g) = Folded(l) /\ x.event.tag # "CONTRACT_ADJUDICATED"
    BY <1>3, AppendFolded DEF DriverOnlyTags
  <2> HIDE DEF g
  <2>2. AdjudicationPrecursor(g, i) <=> AdjudicationPrecursor(l, i)
    BY <1>1, <1>2, <2>1 DEF AdjudicationPrecursor
  <2>. QED BY <2>1, <2>2 DEF g
<1>4. CASE x.event.tag \notin DriverOnlyTags
  <2>1. Folded(g) = Folded(l) \cup {Len(l) + 1}
    BY <1>4, AppendFolded
  <2> HIDE DEF g
  <2>2. ASSUME AdjudicationPrecursor(l, i) PROVE AdjudicationPrecursor(g, i)
    <3>1. PICK j \in Folded(l) : /\ l[j].event.tag = "CONTRACT_ADJUDICATED" /\ i < j
                                 /\ \A k \in Folded(l) : ~(i < k /\ k < j)
      BY <2>2 DEF AdjudicationPrecursor
    <3>2. \A k \in Folded(g) : ~(i < k /\ k < j)
      BY <1>1, <1>2, <2>1, <3>1
    <3>. QED BY <1>1, <1>2, <2>1, <3>1, <3>2 DEF AdjudicationPrecursor
  <2>3. ASSUME x.event.tag = "CONTRACT_ADJUDICATED", i = LastFoldedIndex(l)
        PROVE  AdjudicationPrecursor(g, i)
    <3>1. \A k \in Folded(g) : ~(i < k /\ k < Len(l) + 1)
      BY <1>1, <1>2, <2>1, <2>3
    <3>2. Len(l) + 1 \in Folded(g) /\ i < Len(l) + 1
      BY <1>1, <1>2, <2>1
    <3>. QED BY <1>1, <2>3, <3>1, <3>2 DEF AdjudicationPrecursor
  <2>4. ASSUME AdjudicationPrecursor(g, i), ~AdjudicationPrecursor(l, i)
        PROVE  x.event.tag = "CONTRACT_ADJUDICATED" /\ i = LastFoldedIndex(l)
    <3>1. PICK j \in Folded(g) : /\ g[j].event.tag = "CONTRACT_ADJUDICATED" /\ i < j
                                 /\ \A k \in Folded(g) : ~(i < k /\ k < j)
      BY <2>4 DEF AdjudicationPrecursor
    <3>2. j \notin Folded(l)
      BY <1>1, <1>2, <2>1, <2>4, <3>1 DEF AdjudicationPrecursor
    <3>3. j = Len(l) + 1
      BY <2>1, <3>2
    <3>4. ~(i < LastFoldedIndex(l))
      BY <1>1, <1>2, <2>1, <3>1, <3>3
    <3>5. i \in Int /\ LastFoldedIndex(l) \in Int /\ i <= LastFoldedIndex(l)
      BY <1>1, <1>2
    <3>6. i = LastFoldedIndex(l)
      BY <3>4, <3>5
    <3>7. x.event.tag = "CONTRACT_ADJUDICATED"
      BY <1>1, <3>1, <3>3
    <3>. QED BY <3>6, <3>7
  <2>. QED BY <2>2, <2>3, <2>4 DEF g
<1>. QED BY <1>3, <1>4

(* The last tree recorded, the last marker's note, the spend. *)
LEMMA AppendTree ==
  ASSUME NEW l, EntriesOK(l), NEW x, EventOK(x.event), NEW tags, NEW start
  PROVE  LastTree(Append(l, x), tags, start) =
           IF x.event.tag \in tags THEN x.event.tree ELSE LastTree(l, tags, start)
<1> DEFINE g == Append(l, x)
           recorded(m) == { i \in DOMAIN m : m[i].event.tag \in tags }
<1>1. /\ Len(l) \in Nat /\ DOMAIN l = 1 .. Len(l) /\ DOMAIN g = 1 .. (Len(l) + 1)
      /\ \A i \in 1 .. Len(l) : g[i] = l[i]
      /\ g[Len(l) + 1] = x
  BY AppendEntry
<1> HIDE DEF g
<1>2. CASE x.event.tag \in tags
  <2>1. Len(l) + 1 \in recorded(g) /\ \A i \in recorded(g) : i \in Int /\ Len(l) + 1 >= i
    BY <1>1, <1>2
  <2>2. recorded(g) \subseteq Int
    BY <2>1
  <2>3. Max(recorded(g)) = Len(l) + 1
    <3> HIDE DEF recorded
    <3>. QED BY <2>1, <2>2, MaxIs
  <2>4. LastTree(g, tags, start) = g[Max(recorded(g))].event.tree
    BY <2>1 DEF LastTree
  <2>. QED BY <1>1, <1>2, <2>3, <2>4 DEF g
<1>3. CASE x.event.tag \notin tags
  <2>1. recorded(g) = recorded(l)
    BY <1>1, <1>3
  <2>2. CASE recorded(l) = {}
    BY <1>3, <2>1, <2>2 DEF LastTree, g
  <2>3. CASE recorded(l) # {}
    <3>1. recorded(l) \subseteq 0 .. Len(l)
      BY <1>1
    <3>2. Max(recorded(l)) \in recorded(l)
      <4> HIDE DEF recorded
      <4>. QED BY <1>1, <2>3, <3>1, MaxOfPositions
    <3>3. Max(recorded(l)) \in 1 .. Len(l)
      BY <1>1, <3>2
    <3>4. LastTree(g, tags, start) = g[Max(recorded(g))].event.tree
      BY <2>1, <2>3 DEF LastTree
    <3>5. LastTree(l, tags, start) = l[Max(recorded(l))].event.tree
      BY <2>3 DEF LastTree
    <3> HIDE DEF recorded
    <3>. QED BY <1>1, <1>3, <2>1, <3>3, <3>4, <3>5 DEF g
  <2>. QED BY <2>2, <2>3
<1>. QED BY <1>2, <1>3

(* A note stays pending until a turn is appended. *)
LEMMA AppendNote ==
  ASSUME NEW l, EntriesOK(l), NEW x, EventOK(x.event), x.event.tag # "RUN_EXTENDED"
  PROVE  PendingNote(Append(l, x)) <=> PendingNote(l) /\ x.event.tag # "AGENT_RAN"
<1> DEFINE g == Append(l, x)
<1>1. /\ Len(l) \in Nat /\ DOMAIN l = 1 .. Len(l) /\ DOMAIN g = 1 .. (Len(l) + 1)
      /\ \A i \in 1 .. Len(l) : g[i] = l[i]
      /\ g[Len(l) + 1] = x /\ Len(g) = Len(l) + 1
  BY AppendEntry
<1> HIDE DEF g
<1>2. Markers(g) = Markers(l) /\ \A i \in Markers(l) : g[i] = l[i] /\ i \in 1 .. Len(l)
  BY <1>1 DEF Markers
<1>3. ASSUME NEW i \in Markers(l)
      PROVE  (\A j \in (i + 1) .. Len(g) : g[j].event.tag # "AGENT_RAN") <=>
               /\ \A j \in (i + 1) .. Len(l) : l[j].event.tag # "AGENT_RAN"
               /\ x.event.tag # "AGENT_RAN"
  <2>1. i \in 1 .. Len(l)
    BY <1>2
  <2>2. \A j \in (i + 1) .. Len(g) : j \in (i + 1) .. Len(l) \/ j = Len(l) + 1
    BY <1>1, <2>1
  <2>3. Len(l) + 1 \in (i + 1) .. Len(g)
    BY <1>1, <2>1
  <2>4. \A j \in (i + 1) .. Len(l) : j \in 1 .. Len(l) /\ j \in (i + 1) .. Len(g)
    BY <1>1, <2>1
  <2>. QED BY <1>1, <2>2, <2>3, <2>4
<1>4. PendingNote(g) <=> PendingNote(l) /\ x.event.tag # "AGENT_RAN"
  BY <1>2, <1>3 DEF PendingNote
<1>. QED BY <1>4 DEF g

-----------------------------------------------------------------------------
(* The fold. *)

(* A prefix of a log the fold can read is one. *)
LEMMA PrefixEntries ==
  ASSUME NEW l, EntriesOK(l), NEW i \in 0 .. Len(l)
  PROVE  EntriesOK(SubSeq(l, 1, i))
<1> DEFINE T == { l[j] : j \in DOMAIN l }
           p == SubSeq(l, 1, i)
<1>1. l \in Seq(T) /\ Len(l) \in Nat /\ DOMAIN l = 1 .. Len(l)
  BY SequenceShape DEF EntriesOK, IsSequence
<1>2. /\ DOMAIN p = 1 .. i /\ Len(p) = i /\ \A j \in 1 .. i : p[j] = l[j]
      /\ p = [j \in 1 .. i |-> l[j]]
  <2> HIDE DEF T
  <2>1. p = [j \in 1 .. i |-> l[j]]
    BY <1>1
  <2> HIDE DEF p
  <2>2. i \in Nat
    BY <1>1
  <2>3. p \in [1 .. i -> T]
    <3>1. \A j \in 1 .. i : l[j] \in T
      BY <1>1 DEF T
    <3>. QED BY <2>1, <3>1
  <2>4. p \in Seq(T)
    BY <2>2, <2>3, SeqDef
  <2>5. Len(p) = i
    BY <2>1, <2>2, <2>4, LenProperties
  <2>. QED BY <2>1, <2>5
<1> DEFINE R == { p[j] : j \in DOMAIN p }
<1> HIDE DEF p
<1>3. p \in Seq(R)
  <2>1. p \in [1 .. i -> R]
    BY <1>2
  <2>2. i \in Nat
    BY <1>1
  <2> HIDE DEF R
  <2>. QED BY <2>1, <2>2, SeqDef
<1>4. \A j \in DOMAIN p : EventOK(p[j].event)
  BY <1>1, <1>2 DEF EntriesOK
<1>. QED BY <1>3, <1>4 DEF EntriesOK, IsSequence, p

(* The configuration an entry is folded with. *)
LEMMA ConfigAtShape ==
  ASSUME NEW c, ConfigOK(c), NEW l, EntriesOK(l), NEW i \in 1 .. Len(l), NEW eff,
         eff = ExtendedRunConfig(c, l), NEW d, d = ConfigAt(c, eff, l, i)
  PROVE  /\ SameBut(eff, d)
         /\ d = [k \in DOMAIN eff |->
                   IF k = "timeoutNoDiffThreshold" /\ i # LastFoldedIndex(l) THEN Len(l) + 1
                   ELSE IF k = "repeatFailureThreshold" /\ AdjudicationPrecursor(l, i)
                   THEN ExtendedRunConfig(c, SubSeq(l, 1, i)).repeatFailureThreshold
                   ELSE eff[k]]
<1> DEFINE inForce == ExtendedRunConfig(c, SubSeq(l, 1, i))
<1>1. ConfigOK(eff) /\ Len(l) \in Nat
  BY EffectiveType, SequenceShape DEF EntriesOK
<1>2. ConfigOK(inForce)
  <2>1. i \in 0 .. Len(l)
    BY <1>1
  <2>. QED BY <2>1, PrefixEntries, EffectiveType
<1> HIDE DEF inForce
<1>3. DOMAIN eff = DOMAIN Knobs /\ {"timeoutNoDiffThreshold", "repeatFailureThreshold"} \subseteq DOMAIN Knobs
  BY <1>1 DEF ConfigOK, Knobs
<1>4. d = [k \in DOMAIN eff |->
             IF k = "timeoutNoDiffThreshold" /\ i # LastFoldedIndex(l) THEN Len(l) + 1
             ELSE IF k = "repeatFailureThreshold" /\ AdjudicationPrecursor(l, i)
             THEN inForce.repeatFailureThreshold
             ELSE eff[k]]
  BY <1>3 DEF ConfigAt, inForce
<1> HIDE DEF ConfigAt
<1>5. /\ Knobs["timeoutNoDiffThreshold"] = Nat \ {0, 1}
      /\ Knobs["repeatFailureThreshold"] = Nat \ {0, 1}
  BY DEF Knobs
<1>6. /\ Len(l) + 1 \in Nat \ {0, 1}
      /\ inForce.repeatFailureThreshold \in Nat \ {0, 1}
  BY <1>1, <1>2, <1>3, <1>5 DEF ConfigOK
<1>7. DOMAIN d = DOMAIN Knobs /\ \A k \in DOMAIN Knobs : d[k] \in Knobs[k]
  BY <1>1, <1>3, <1>4, <1>5, <1>6 DEF ConfigOK
<1>8. \A k \in DOMAIN Knobs \ {"timeoutNoDiffThreshold", "repeatFailureThreshold"} : eff[k] = d[k]
  BY <1>3, <1>4
<1>9. SameBut(eff, d)
  <2>1. d = [k \in DOMAIN d |-> d[k]]
    BY <1>4
  <2> HIDE DEF inForce
  <2>. QED BY <1>1, <1>7, <1>8, <2>1 DEF SameBut, ConfigOK
<1>. QED BY <1>4, <1>9 DEF inForce

(* Which thresholds are in force does not matter to a state's form. *)
LEMMA ShapeSame ==
  ASSUME NEW c, NEW d, SameBut(c, d), NEW s, NEW n, StateShape(c, s, n)
  PROVE  StateShape(d, s, n)
BY SameKnobs DEF StateShape

(* A well-formed state is not that of a fold that threw. *)
LEMMA ShapeValid ==
  ASSUME NEW c, NEW s, NEW n, StateShape(c, s, n)
  PROVE  s # Invalid
BY DEF StateShape, StateTags, Invalid, State

(* A fold that threw takes no event. *)
LEMMA InvalidTag == Invalid.tag = "INVALID" /\ EventsOf(Invalid.tag) = {}
<1>1. Invalid.tag = "INVALID"
  BY DEF Invalid, State
<1>2. EventsOf("INVALID") = {}
  BY DEF EventsOf
<1>. QED BY <1>1, <1>2

(* What the reading of an event says once it is judged again. *)
LEMMA RejudgedOK ==
  ASSUME NEW c, ConfigOK(c), NEW e, ReadingOK(e)
  PROVE  /\ ReadingOK(RejudgeBudget(c, e))
         /\ RejudgeBudget(c, e).tag = e.tag
<1> DEFINE r == RejudgeBudget(c, e)
<1>1. CASE e.tag = "AGENT_RAN"
  <2>1. r = [e EXCEPT !.budget = e.spent >= c.tokens]
    BY <1>1 DEF RejudgeBudget
  <2>2. {"tag", "status", "prev", "hash", "budget"} \subseteq DOMAIN e
    BY <1>1 DEF ReadingOK
  <2> HIDE DEF r
  <2>3. /\ DOMAIN r = DOMAIN e /\ r.tag = e.tag /\ r.status = e.status
        /\ r.budget \in BOOLEAN
    BY <2>1, <2>2
  <2>4. ReadingOK(r)
    BY <1>1, <2>2, <2>3 DEF ReadingOK
  <2>. QED BY <2>3, <2>4 DEF r
<1>2. CASE e.tag # "AGENT_RAN"
  BY <1>2 DEF RejudgeBudget
<1>. QED BY <1>1, <1>2

(* An entry takes a well-formed state to a well-formed state, or throws. *)
LEMMA FoldEntryShape ==
  ASSUME NEW c, ConfigOK(c), NEW l, EntriesOK(l), NEW i \in 1 .. Len(l), NEW eff,
         eff = ExtendedRunConfig(c, l), NEW s, s = Invalid \/ StateShape(eff, s, i - 1)
  PROVE  /\ \/ FoldEntry(c, l, i, s) = Invalid
            \/ StateShape(eff, FoldEntry(c, l, i, s), i)
         /\ s = Invalid => FoldEntry(c, l, i, s) = Invalid
<1> DEFINE e == l[i].event
           judged == IF BudgetExtended(l) THEN RejudgeBudget(eff, e) ELSE e
           d == ConfigAt(c, eff, l, i)
<1>1. ConfigOK(eff) /\ Len(l) \in Nat /\ EventOK(e) /\ i - 1 \in Nat
  BY EffectiveType, SequenceShape DEF EntriesOK
<1>2. CASE e.tag \in DriverOnlyTags
  <2>1. FoldEntry(c, l, i, s) = s
    BY <1>2 DEF FoldEntry
  <2>2. StateShape(eff, s, i - 1) => StateShape(eff, s, i)
    <3>1. i = (i - 1) + 1
      BY <1>1
    <3>. QED BY <1>1, <3>1, LongerPast
  <2>. QED BY <2>1, <2>2
<1>3. CASE e.tag \notin DriverOnlyTags
  <2>1. FoldEntry(c, l, i, s) = StepOrThrow(d, s, judged)
    BY <1>3 DEF FoldEntry
  <2>2. ReadingOK(judged) /\ judged.tag = e.tag
    <3>1. ReadingOK(e)
      BY <1>1, <1>3 DEF EventOK
    <3>. QED BY <1>1, <3>1, RejudgedOK
  <2>3. SameBut(eff, d) /\ ConfigOK(d) /\ SameBut(d, eff)
    <3>1. SameBut(eff, d)
      BY ConfigAtShape
    <3>. QED BY <3>1 DEF SameBut
  <2> HIDE DEF d, judged
  <2>4. CASE s = Invalid
    BY <2>1, <2>4, InvalidTag DEF StepOrThrow
  <2>5. CASE s # Invalid /\ judged.tag \notin EventsOf(s.tag)
    BY <2>1, <2>5 DEF StepOrThrow
  <2>6. CASE s # Invalid /\ judged.tag \in EventsOf(s.tag)
    <3>1. StateShape(d, s, i - 1)
      BY <2>3, <2>6, ShapeSame
    <3>2. StateShape(d, Step(d, s, judged), (i - 1) + 1)
      BY <1>1, <2>2, <2>3, <2>6, <3>1, StepShape
    <3>3. (i - 1) + 1 = i
      BY <1>1
    <3>4. StateShape(eff, Step(d, s, judged), i)
      BY <2>3, <3>2, <3>3, ShapeSame
    <3>. QED BY <2>1, <2>6, <3>4 DEF StepOrThrow
  <2>. QED BY <2>4, <2>5, <2>6
<1>. QED BY <1>2, <1>3

(***************************************************************************)
(* Every state on the way is well formed or the fold threw, and what threw *)
(* stays so.                                                               *)
(***************************************************************************)
LEMMA FoldShape ==
  ASSUME NEW c, ConfigOK(c), NEW l, EntriesOK(l), NEW eff, eff = ExtendedRunConfig(c, l)
  PROVE  \A i \in 0 .. Len(l) :
           /\ Fold(c, l)[i] = Invalid \/ StateShape(eff, Fold(c, l)[i], i)
           /\ Replay(c, l) # Invalid => Fold(c, l)[i] # Invalid
<1> DEFINE f == Fold(c, l)
           n == Len(l)
           P(i) == f[i] = Invalid \/ StateShape(eff, f[i], i)
           T == { i \in 0 .. n : P(i) }
           U == { i \in 0 .. n : f[n - i] = Invalid => f[n] = Invalid }
<1>1. n \in Nat /\ ConfigOK(eff)
  BY SequenceShape, EffectiveType DEF EntriesOK
<1>2. /\ f[0] = InitialState(eff)
      /\ \A i \in 1 .. n : f[i] = FoldEntry(c, l, i, f[i - 1])
  BY FoldRecurs DEF EntriesOK
<1> HIDE DEF f
<1>3. 0 \in T
  BY <1>1, <1>2, InitialShape
<1>4. ASSUME NEW i \in 1 .. n, i - 1 \in T PROVE i \in T
  <2>1. P(i - 1)
    BY <1>4
  <2>2. P(i)
    BY <1>2, <2>1, FoldEntryShape
  <2>. QED BY <1>1, <2>2
<1>5. 0 .. n \subseteq T
  <2> HIDE DEF T, n
  <2>. QED BY <1>1, <1>3, <1>4, PositionInduction
<1>6. 0 \in U
  BY <1>1
<1>7. ASSUME NEW i \in 1 .. n, i - 1 \in U PROVE i \in U
  <2>1. n - i \in 0 .. n /\ n - i + 1 \in 1 .. n /\ (n - i + 1) - 1 = n - i /\ n - (i - 1) = n - i + 1
    BY <1>1
  <2>2. f[n - i] = Invalid => f[n - i + 1] = Invalid
    <3>1. P(n - i)
      BY <1>5, <2>1
    <3> HIDE DEF n
    <3>2. f[n - i + 1] = FoldEntry(c, l, n - i + 1, f[n - i])
      BY <1>2, <2>1
    <3>. QED BY <2>1, <3>1, <3>2, FoldEntryShape DEF n
  <2>3. f[n - i + 1] = Invalid => f[n] = Invalid
    BY <1>7, <2>1
  <2>. QED BY <1>1, <2>2, <2>3
<1>8. 0 .. n \subseteq U
  <2> HIDE DEF U, n
  <2>. QED BY <1>1, <1>6, <1>7, PositionInduction
<1>9. ASSUME NEW i \in 0 .. n PROVE f[i] = Invalid => f[n] = Invalid
  <2>1. n - i \in 0 .. n /\ n - (n - i) = i
    BY <1>1
  <2>2. f[n - (n - i)] = Invalid => f[n] = Invalid
    BY <1>8, <2>1
  <2>. QED BY <2>1, <2>2
<1>10. Replay(c, l) = f[n]
  BY DEF Replay, f
<1> HIDE DEF n
<1>11. \A i \in 0 .. n : P(i)
  BY <1>5
<1>. QED BY <1>9, <1>10, <1>11 DEF f, n

(* Entries the reducer does not see leave the state as the last it saw made it. *)
LEMMA TailFold ==
  ASSUME NEW c, NEW l, EntriesOK(l), Folded(l) # {}
  PROVE  Replay(c, l) = Fold(c, l)[LastFoldedIndex(l)]
<1> DEFINE f == Fold(c, l)
           n == Len(l)
           m == LastFoldedIndex(l)
           T == { i \in 0 .. n : i <= m \/ f[i] = f[m] }
<1>1. n \in Nat /\ m \in 1 .. n /\ DOMAIN l = 1 .. n
  BY SequenceShape, FoldedPositions DEF EntriesOK
<1>2. \A i \in 1 .. n : f[i] = FoldEntry(c, l, i, f[i - 1])
  BY FoldRecurs DEF EntriesOK
<1>3. \A i \in 1 .. n : i > m => l[i].event.tag \in DriverOnlyTags
  <2>1. \A i \in Folded(l) : i <= m
    BY FoldedPositions
  <2> HIDE DEF m
  <2>2. ASSUME NEW i \in 1 .. n, i > m PROVE l[i].event.tag \in DriverOnlyTags
    <3>1. i \notin Folded(l)
      BY <1>1, <2>1, <2>2
    <3>. QED BY <1>1, <3>1 DEF Folded
  <2>. QED BY <2>2
<1> HIDE DEF f, m, n
<1>4. 0 \in T
  BY <1>1
<1>5. ASSUME NEW i \in 1 .. n, i - 1 \in T PROVE i \in T
  <2>1. CASE i <= m
    BY <1>1, <2>1
  <2>2. CASE i > m
    <3>1. f[i] = f[i - 1]
      BY <1>2, <1>3, <2>2 DEF FoldEntry
    <3>2. i - 1 <= m => i - 1 = m
      BY <1>1, <2>2
    <3>. QED BY <1>1, <1>5, <3>1, <3>2
  <2>. QED BY <1>1, <2>1, <2>2
<1>6. n \in T
  <2> HIDE DEF T
  <2>1. 0 .. n \subseteq T
    BY <1>1, <1>4, <1>5, PositionInduction
  <2>. QED BY <1>1, <2>1
<1>7. f[n] = f[m]
  BY <1>1, <1>6
<1>. QED BY <1>7 DEF f, n, m, Replay

(* No marker after the last entry the reducer saw lowered the repeat threshold. *)
RepeatNotLowered(c, l) ==
  Folded(l) # {} =>
    ExtendedRunConfig(c, SubSeq(l, 1, LastFoldedIndex(l))).repeatFailureThreshold
      <= ExtendedRunConfig(c, l).repeatFailureThreshold

(***************************************************************************)
(* Appending an entry to a log that folds does not change how any entry    *)
(* before it folds, although the thresholds those are folded with move.    *)
(***************************************************************************)
LEMMA FoldKept ==
  ASSUME NEW c, ConfigOK(c), NEW l, EntriesOK(l), Replay(c, l) # Invalid,
         NEW x, EventOK(x.event), x.event.tag # "RUN_EXTENDED",
         x.event.tag = "CONTRACT_ADJUDICATED" => RepeatNotLowered(c, l),
         x.event.tag \notin DriverOnlyTags => x.event.tag \in EventsOf(Replay(c, l).tag)
  PROVE  \A i \in 0 .. Len(l) : Fold(c, Append(l, x))[i] = Fold(c, l)[i]
<1> DEFINE g == Append(l, x)
           f == Fold(c, l)
           h == Fold(c, g)
           n == Len(l)
           eff == ExtendedRunConfig(c, l)
           T == { i \in 0 .. n : h[i] = f[i] }
<1>1. /\ EntriesOK(g) /\ n \in Nat /\ DOMAIN l = 1 .. n /\ Len(g) = n + 1
      /\ \A i \in 1 .. n : g[i] = l[i]
  BY AppendEntry
<1>2. /\ ExtendedRunConfig(c, g) = eff /\ ConfigOK(eff)
      /\ BudgetExtended(g) <=> BudgetExtended(l)
  BY AppendMarkers, EffectiveType
<1>3. /\ f[0] = InitialState(eff) /\ h[0] = InitialState(eff)
      /\ \A i \in 1 .. n : f[i] = FoldEntry(c, l, i, f[i - 1]) /\ h[i] = FoldEntry(c, g, i, h[i - 1])
  <2>1. /\ f[0] = InitialState(eff)
        /\ \A i \in 1 .. n : f[i] = FoldEntry(c, l, i, f[i - 1])
    BY FoldRecurs DEF EntriesOK
  <2>2. /\ h[0] = InitialState(eff)
        /\ \A i \in 1 .. Len(g) : h[i] = FoldEntry(c, g, i, h[i - 1])
    BY <1>1, <1>2, FoldRecurs DEF EntriesOK
  <2> HIDE DEF f, h, g, eff
  <2>. QED BY <1>1, <2>1, <2>2
<1>4. \A i \in 0 .. n : StateShape(eff, f[i], i) /\ f[i] # Invalid
  BY FoldShape
<1>5. ASSUME NEW i \in 1 .. n PROVE FoldEntry(c, g, i, f[i - 1]) = FoldEntry(c, l, i, f[i - 1])
  <2> DEFINE e == l[i].event
             s == f[i - 1]
             judged == IF BudgetExtended(l) THEN RejudgeBudget(eff, e) ELSE e
             cl == ConfigAt(c, eff, l, i)
             cg == ConfigAt(c, eff, g, i)
             inForce == ExtendedRunConfig(c, SubSeq(l, 1, i)).repeatFailureThreshold
  <2>0. i - 1 \in 0 .. n /\ i - 1 \in Nat /\ i \in 0 .. n /\ i \in 1 .. Len(g)
    BY <1>1
  <2>1. CASE e.tag \in DriverOnlyTags
    BY <1>1, <2>1 DEF FoldEntry
  <2>2. CASE e.tag \notin DriverOnlyTags
    <3>1. FoldEntry(c, l, i, s) = StepOrThrow(cl, s, judged)
      BY <2>2 DEF FoldEntry
    <3>2. FoldEntry(c, g, i, s) = StepOrThrow(cg, s, judged)
      <4>1. g[i].event = e
        BY <1>1
      <4>. QED BY <1>2, <2>2, <4>1 DEF FoldEntry
    <3>3. ReadingOK(judged) /\ judged.tag = e.tag
      <4>1. ReadingOK(e)
        BY <1>1, <2>2 DEF EntriesOK, EventOK
      <4>. QED BY <1>2, <4>1, RejudgedOK
    <3>4. /\ SameBut(eff, cl) /\ SameBut(eff, cg)
          /\ cl = [k \in DOMAIN eff |->
                     IF k = "timeoutNoDiffThreshold" /\ i # LastFoldedIndex(l) THEN n + 1
                     ELSE IF k = "repeatFailureThreshold" /\ AdjudicationPrecursor(l, i)
                     THEN inForce ELSE eff[k]]
          /\ cg = [k \in DOMAIN eff |->
                     IF k = "timeoutNoDiffThreshold" /\ i # LastFoldedIndex(g) THEN Len(g) + 1
                     ELSE IF k = "repeatFailureThreshold" /\ AdjudicationPrecursor(g, i)
                     THEN inForce ELSE eff[k]]
      <4>1. SubSeq(g, 1, i) = SubSeq(l, 1, i)
        BY <2>0, AppendPrefix
      <4> HIDE DEF g
      <4>2. /\ SameBut(eff, cl)
            /\ cl = [k \in DOMAIN eff |->
                       IF k = "timeoutNoDiffThreshold" /\ i # LastFoldedIndex(l) THEN Len(l) + 1
                       ELSE IF k = "repeatFailureThreshold" /\ AdjudicationPrecursor(l, i)
                       THEN ExtendedRunConfig(c, SubSeq(l, 1, i)).repeatFailureThreshold
                       ELSE eff[k]]
        BY ConfigAtShape
      <4>3. /\ SameBut(eff, cg)
            /\ cg = [k \in DOMAIN eff |->
                       IF k = "timeoutNoDiffThreshold" /\ i # LastFoldedIndex(g) THEN Len(g) + 1
                       ELSE IF k = "repeatFailureThreshold" /\ AdjudicationPrecursor(g, i)
                       THEN ExtendedRunConfig(c, SubSeq(g, 1, i)).repeatFailureThreshold
                       ELSE eff[k]]
        BY <1>1, <1>2, <2>0, ConfigAtShape
      <4>. QED BY <4>1, <4>2, <4>3
    <3>5. i \in Folded(l) /\ LastFoldedIndex(l) \in Folded(l) /\ i <= LastFoldedIndex(l)
          /\ LastFoldedIndex(l) \in 1 .. n
      <4>1. i \in Folded(l)
        BY <1>1, <2>2 DEF Folded
      <4>. QED BY <4>1, FoldedPositions
    <3>6. AdjudicationPrecursor(g, i) <=>
            \/ AdjudicationPrecursor(l, i)
            \/ x.event.tag = "CONTRACT_ADJUDICATED" /\ i = LastFoldedIndex(l)
      BY <3>5, AppendPrecursor
    <3>7. i = LastFoldedIndex(l) => ~AdjudicationPrecursor(l, i)
      <4>1. \A j \in Folded(l) : j \in 1 .. n /\ j <= LastFoldedIndex(l)
        BY FoldedPositions
      <4>. QED BY <3>5, <4>1 DEF AdjudicationPrecursor
    <3>8. i = LastFoldedIndex(l) => Replay(c, l) = f[i]
      BY <3>5, TailFold
    <3>9. f[i] = StepOrThrow(cl, s, judged)
      BY <1>3, <3>1
    <3> HIDE DEF cl, cg, judged, g, f, n, inForce
    <3>10. f[i] = Step(cl, s, judged) /\ judged.tag \in EventsOf(s.tag)
      BY <1>4, <2>0, <3>9 DEF StepOrThrow
    <3>11. StateShape(cl, s, i - 1) /\ SameBut(cl, cg)
      <4>1. StateShape(eff, s, i - 1)
        BY <1>4, <2>0
      <4>. QED BY <3>4, <4>1, ShapeSame DEF SameBut
    <3>12. "timeoutNoDiffThreshold" \in DOMAIN eff /\ "repeatFailureThreshold" \in DOMAIN eff
           /\ eff.repeatFailureThreshold \in Nat
      BY <1>2, KnobTypes DEF ConfigOK, Knobs
    <3>13. CASE x.event.tag \in DriverOnlyTags /\ i = LastFoldedIndex(l)
      <4>1. LastFoldedIndex(g) = LastFoldedIndex(l) /\ x.event.tag # "CONTRACT_ADJUDICATED"
        BY <3>13, AppendFolded DEF g, DriverOnlyTags
      <4>2. AdjudicationPrecursor(g, i) <=> AdjudicationPrecursor(l, i)
        BY <3>6, <4>1
      <4>3. cg = cl
        BY <3>4, <3>13, <4>1, <4>2
      <4>. QED BY <3>1, <3>2, <4>3
    <3>14. CASE ~(x.event.tag \in DriverOnlyTags /\ i = LastFoldedIndex(l))
      <4>1. i # LastFoldedIndex(g)
        <5>1. CASE x.event.tag \in DriverOnlyTags
          BY <3>14, <5>1, AppendFolded DEF g
        <5>2. CASE x.event.tag \notin DriverOnlyTags
          <6>1. LastFoldedIndex(g) = n + 1
            BY <5>2, AppendFolded DEF g, n
          <6>. QED BY <1>1, <6>1
        <5>. QED BY <5>1, <5>2
      <4>2. cg.timeoutNoDiffThreshold > i - 1
        <5>1. cg.timeoutNoDiffThreshold = Len(g) + 1
          BY <3>4, <3>12, <4>1
        <5>. QED BY <1>1, <5>1
      <4>3. cl.timeoutNoDiffThreshold > i - 1 \/ Step(cl, s, judged).tag # "ABORTED"
        <5>1. CASE i = LastFoldedIndex(l)
          <6>1. x.event.tag \in EventsOf(f[i].tag)
            BY <3>8, <3>14, <5>1
          <6>2. f[i].tag # "ABORTED"
            BY <6>1 DEF EventsOf
          <6>. QED BY <3>10, <6>2
        <5>2. CASE i # LastFoldedIndex(l)
          <6>1. cl.timeoutNoDiffThreshold = n + 1
            BY <3>4, <3>12, <5>2
          <6>. QED BY <1>1, <6>1
        <5>. QED BY <5>1, <5>2
      <4>4. \/ cg.repeatFailureThreshold = cl.repeatFailureThreshold
            \/ /\ Step(cl, s, judged).tag = "ADJUDICATING"
               /\ cg.repeatFailureThreshold <= cl.repeatFailureThreshold
        <5>1. CASE AdjudicationPrecursor(g, i) <=> AdjudicationPrecursor(l, i)
          BY <3>4, <3>12, <5>1
        <5>2. CASE x.event.tag = "CONTRACT_ADJUDICATED" /\ i = LastFoldedIndex(l)
          <6>1. x.event.tag \in EventsOf(f[i].tag)
            BY <3>8, <3>14, <5>2
          <6>2. f[i].tag = "ADJUDICATING"
            BY <5>2, <6>1 DEF EventsOf
          <6>3. cl.repeatFailureThreshold = eff.repeatFailureThreshold
            BY <3>4, <3>7, <3>12, <5>2
          <6>4. cg.repeatFailureThreshold = inForce
            BY <3>4, <3>6, <3>12, <5>2
          <6>5. inForce <= eff.repeatFailureThreshold
            BY <2>0, <3>5, <5>2 DEF RepeatNotLowered, inForce, eff
          <6>. QED BY <3>10, <6>2, <6>3, <6>4, <6>5
        <5>. QED BY <3>6, <5>1, <5>2
      <4>5. Step(cg, s, judged) = Step(cl, s, judged)
        BY <2>0, <3>3, <3>10, <3>11, <4>2, <4>3, <4>4, StepAgrees
      <4>. QED BY <3>1, <3>2, <4>5 DEF StepOrThrow
    <3>. QED BY <3>13, <3>14
  <2>. QED BY <2>1, <2>2
<1> HIDE DEF f, g, h, n, eff
<1>6. 0 \in T
  BY <1>1, <1>3
<1>7. ASSUME NEW i \in 1 .. n, i - 1 \in T PROVE i \in T
  <2>1. h[i - 1] = f[i - 1]
    BY <1>7
  <2>2. h[i] = f[i]
    BY <1>3, <1>5, <2>1
  <2>. QED BY <1>1, <2>2
<1>8. 0 .. n \subseteq T
  <2> HIDE DEF T
  <2>. QED BY <1>1, <1>6, <1>7, PositionInduction
<1>9. \A i \in 0 .. n : h[i] = f[i]
  BY <1>8
<1>. QED BY <1>9 DEF f, g, h, n

(***************************************************************************)
(* So the longer log folds to the step from where the log was, under the   *)
(* thresholds in force; a driver's own entry folds to where the log was.   *)
(***************************************************************************)
LEMMA FoldAppend ==
  ASSUME NEW c, ConfigOK(c), NEW l, EntriesOK(l), Replay(c, l) # Invalid,
         NEW x, EventOK(x.event), x.event.tag # "RUN_EXTENDED",
         x.event.tag = "CONTRACT_ADJUDICATED" => RepeatNotLowered(c, l),
         x.event.tag \notin DriverOnlyTags => x.event.tag \in EventsOf(Replay(c, l).tag),
         NEW eff, eff = ExtendedRunConfig(c, l),
         NEW judged, judged = IF BudgetExtended(l) THEN RejudgeBudget(eff, x.event) ELSE x.event
  PROVE  /\ x.event.tag \in DriverOnlyTags => Replay(c, Append(l, x)) = Replay(c, l)
         /\ x.event.tag \notin DriverOnlyTags =>
              Replay(c, Append(l, x)) = Step(eff, Replay(c, l), judged)
<1> DEFINE g == Append(l, x)
           n == Len(l)
<1>1. /\ EntriesOK(g) /\ n \in Nat /\ DOMAIN l = 1 .. n /\ Len(g) = n + 1 /\ g[n + 1] = x
  BY AppendEntry
<1>2. ExtendedRunConfig(c, g) = eff /\ ConfigOK(eff) /\ (BudgetExtended(g) <=> BudgetExtended(l))
  BY AppendMarkers, EffectiveType
<1>3. Replay(c, g) = FoldEntry(c, g, n + 1, Replay(c, l))
  <2>1. Fold(c, g)[n + 1] = FoldEntry(c, g, n + 1, Fold(c, g)[(n + 1) - 1])
    <3> HIDE DEF g
    <3>. QED BY <1>1, FoldRecurs DEF EntriesOK
  <2>2. (n + 1) - 1 = n /\ n \in 0 .. n
    BY <1>1
  <2>3. Fold(c, g)[n] = Fold(c, l)[n]
    BY <2>2, FoldKept
  <2>. QED BY <1>1, <2>1, <2>2, <2>3 DEF Replay
<1> HIDE DEF g
<1>4. CASE x.event.tag \in DriverOnlyTags
  BY <1>1, <1>3, <1>4 DEF FoldEntry, g
<1>5. CASE x.event.tag \notin DriverOnlyTags
  <2> DEFINE d == ConfigAt(c, eff, g, n + 1)
  <2>1. n + 1 = LastFoldedIndex(g) /\ Folded(g) = Folded(l) \cup {n + 1}
    BY <1>5, AppendFolded DEF g
  <2>2. ~AdjudicationPrecursor(g, n + 1)
    <3>1. \A j \in Folded(l) : j \in 1 .. n
      BY <1>1 DEF Folded
    <3>. QED BY <1>1, <2>1, <3>1 DEF AdjudicationPrecursor
  <2>3. d = [k \in DOMAIN eff |-> eff[k]]
    <3>1. n + 1 \in 1 .. Len(g)
      BY <1>1
    <3>2. d = [k \in DOMAIN eff |->
                 IF k = "timeoutNoDiffThreshold" /\ n + 1 # LastFoldedIndex(g) THEN Len(g) + 1
                 ELSE IF k = "repeatFailureThreshold" /\ AdjudicationPrecursor(g, n + 1)
                 THEN ExtendedRunConfig(c, SubSeq(g, 1, n + 1)).repeatFailureThreshold
                 ELSE eff[k]]
      BY <1>1, <1>2, <3>1, ConfigAtShape
    <3>. QED BY <2>1, <2>2, <3>2
  <2>4. eff = [k \in DOMAIN eff |-> eff[k]]
    BY <1>2 DEF ConfigOK
  <2>5. d = eff
    BY <2>3, <2>4
  <2> HIDE DEF d
  <2>6. FoldEntry(c, g, n + 1, Replay(c, l)) = StepOrThrow(d, Replay(c, l), judged)
    BY <1>1, <1>2, <1>5 DEF FoldEntry, d
  <2>7. judged.tag = x.event.tag
    <3>1. ReadingOK(x.event)
      BY <1>5 DEF EventOK
    <3>. QED BY <1>2, <3>1, RejudgedOK
  <2>. QED BY <1>3, <1>5, <2>5, <2>6, <2>7 DEF StepOrThrow, g
<1>. QED BY <1>4, <1>5


(* A log none of whose entries the reducer saw folds to the initial state. *)
LEMMA UnfoldedStart ==
  ASSUME NEW c, NEW l, EntriesOK(l), Folded(l) = {}
  PROVE  Replay(c, l) = InitialState(ExtendedRunConfig(c, l))
<1> DEFINE f == Fold(c, l)
           n == Len(l)
           T == { i \in 0 .. n : f[i] = f[0] }
<1>1. n \in Nat /\ DOMAIN l = 1 .. n
  BY SequenceShape DEF EntriesOK
<1>2. /\ f[0] = InitialState(ExtendedRunConfig(c, l))
      /\ \A i \in 1 .. n : f[i] = FoldEntry(c, l, i, f[i - 1])
  BY FoldRecurs DEF EntriesOK
<1>3. \A i \in 1 .. n : l[i].event.tag \in DriverOnlyTags
  BY <1>1 DEF Folded
<1> HIDE DEF f, n
<1>4. 0 \in T
  BY <1>1
<1>5. ASSUME NEW i \in 1 .. n, i - 1 \in T PROVE i \in T
  <2>1. f[i] = f[i - 1]
    BY <1>2, <1>3 DEF FoldEntry
  <2>. QED BY <1>1, <1>5, <2>1
<1>6. n \in T
  <2> HIDE DEF T
  <2>1. 0 .. n \subseteq T
    BY <1>1, <1>4, <1>5, PositionInduction
  <2>. QED BY <1>1, <2>1
<1>. QED BY <1>2, <1>6 DEF f, n, Replay

-----------------------------------------------------------------------------
(* Configurations that let a run go further: what was decided is decided again. *)

(* The knobs of a resume: they may move, the run's others may not. *)
Further(c, d) ==
  /\ ConfigOK(c) /\ ConfigOK(d)
  /\ \A k \in DOMAIN Knobs \ Extendable : c[k] = d[k]
  /\ ~c.autoRemediate
  /\ Furthers(c, d)

(* The knobs by name. *)
LEMMA FurtherKnobs ==
  ASSUME NEW c, NEW d, Further(c, d)
  PROVE  /\ c.phased = d.phased /\ c.parallelPhases = d.parallelPhases
         /\ ~c.autoRemediate /\ ~d.autoRemediate
         /\ c.maxPlanRetries = d.maxPlanRetries /\ c.maxPlanRevisions = d.maxPlanRevisions
         /\ c.maxCompileRetries = d.maxCompileRetries
         /\ c.maxSealRevisions = d.maxSealRevisions
         /\ c.maxIterations \in Nat /\ d.maxIterations \in Nat
         /\ c.maxIterations <= d.maxIterations
         /\ c.harnessCrashThreshold \in Nat /\ d.harnessCrashThreshold \in Nat
         /\ c.harnessCrashThreshold <= d.harnessCrashThreshold
         /\ c.unevaluableThreshold \in Nat /\ d.unevaluableThreshold \in Nat
         /\ c.unevaluableThreshold <= d.unevaluableThreshold
         /\ c.repeatFailureThreshold \in Nat \ {0, 1} /\ d.repeatFailureThreshold \in Nat \ {0, 1}
         /\ c.repeatFailureThreshold <= d.repeatFailureThreshold
         /\ c.timeoutNoDiffThreshold \in Nat /\ d.timeoutNoDiffThreshold \in Nat
         /\ d.noDiff => c.noDiff
         /\ d.oscillation => c.oscillation
         /\ d.noDiff = c.noDiff \/ ~d.oscillation
<1>1. c.repeatFailureThreshold \in Nat \ {0, 1} /\ d.repeatFailureThreshold \in Nat \ {0, 1}
  BY DEF Further, ConfigOK, Knobs
<1>2. \A k \in {"phased", "parallelPhases", "autoRemediate", "maxPlanRetries", "maxPlanRevisions",
                "maxCompileRetries", "maxSealRevisions"} : k \in DOMAIN Knobs \ Extendable
  BY DEF Knobs, Extendable
<1>3. /\ c.phased = d.phased /\ c.parallelPhases = d.parallelPhases
      /\ c.autoRemediate = d.autoRemediate
      /\ c.maxPlanRetries = d.maxPlanRetries /\ c.maxPlanRevisions = d.maxPlanRevisions
      /\ c.maxCompileRetries = d.maxCompileRetries
      /\ c.maxSealRevisions = d.maxSealRevisions
  BY <1>2 DEF Further
<1>4. /\ c.maxIterations <= d.maxIterations
      /\ c.harnessCrashThreshold <= d.harnessCrashThreshold
      /\ c.unevaluableThreshold <= d.unevaluableThreshold
      /\ c.repeatFailureThreshold <= d.repeatFailureThreshold
      /\ d.noDiff => c.noDiff
      /\ d.oscillation => c.oscillation
      /\ d.noDiff = c.noDiff \/ ~d.oscillation
  BY KnobTypes DEF Further, Furthers
<1>. QED BY <1>1, <1>3, <1>4, KnobTypes DEF Further

(* Streaks that do not reach a bound do not reach a higher one. *)
LEMMA StreakAntitone ==
  ASSUME NEW h, Len(h) \in Nat, NEW t \in Nat, NEW u \in Nat, t <= u
  PROVE  /\ IsCrashStreak(h, u) => IsCrashStreak(h, t)
         /\ IsUnevaluableStreak(h, u) => IsUnevaluableStreak(h, t)
         /\ IsRepeating(h, u) => IsRepeating(h, t)
<1>1. TailPositions(h, t) \subseteq TailPositions(h, u)
  BY DEF TailPositions
<1>. QED BY <1>1 DEF IsCrashStreak, IsUnevaluableStreak, IsRepeating

(* The detectors that did not trip do not trip. *)
LEMMA TripsFurther ==
  ASSUME NEW c, NEW d, Further(c, d), NEW ctx, HistoriesOK(ctx),
         IsSequence(ctx.verifierEvaluableHistory),
         d.timeoutNoDiffThreshold > Len(ctx.runStatusHistory),
         c.timeoutNoDiffThreshold > Len(ctx.runStatusHistory)
  PROVE  /\ \A k \in {"budget", "crash", "unevaluable", "timeout-no-diff", "no-diff",
                      "oscillation", "repeat"} : Trips(d, ctx, k) => Trips(c, ctx, k)
         /\ c.noDiff = d.noDiff => (Trips(d, ctx, "no-diff") <=> Trips(c, ctx, "no-diff"))
         /\ d.repeatFailureThreshold = c.repeatFailureThreshold =>
              (Trips(d, ctx, "repeat") <=> Trips(c, ctx, "repeat"))
         /\ ctx.verifierDetailHistory = << >> => ~Trips(d, ctx, "repeat")
<1>1. /\ Len(ctx.runStatusHistory) \in Nat /\ Len(ctx.verifierEvaluableHistory) \in Nat
      /\ Len(ctx.verifierDetailHistory) \in Nat
  BY SequenceShape, StreakBound DEF HistoriesOK
<1>2. Trips(d, ctx, "budget") => Trips(c, ctx, "budget")
  BY DEF Trips
<1>3. Trips(d, ctx, "crash") => Trips(c, ctx, "crash")
  <2>1. /\ CrashThreshold(c, ctx) \in Nat /\ CrashThreshold(d, ctx) \in Nat
        /\ CrashThreshold(c, ctx) <= CrashThreshold(d, ctx)
    BY FurtherKnobs DEF CrashThreshold, HistoriesOK, Ledgers
  <2>2. IsCrashStreak(ctx.runStatusHistory, CrashThreshold(d, ctx))
          => IsCrashStreak(ctx.runStatusHistory, CrashThreshold(c, ctx))
    BY <1>1, <2>1, StreakAntitone
  <2>. QED BY <2>2 DEF Trips
<1>4. Trips(d, ctx, "unevaluable") => Trips(c, ctx, "unevaluable")
  <2>1. IsUnevaluableStreak(ctx.verifierEvaluableHistory, d.unevaluableThreshold)
          => IsUnevaluableStreak(ctx.verifierEvaluableHistory, c.unevaluableThreshold)
    BY <1>1, FurtherKnobs, StreakAntitone
  <2>. QED BY <2>1 DEF Trips
<1>5. /\ TimeoutNoDiffStreak(ctx) < c.timeoutNoDiffThreshold
      /\ TimeoutNoDiffStreak(ctx) < d.timeoutNoDiffThreshold
      /\ ~(TimeoutNoDiffStreak(ctx) >= d.timeoutNoDiffThreshold)
  BY FurtherKnobs, StreakBound
<1>6. ~Trips(d, ctx, "timeout-no-diff")
  BY <1>5 DEF Trips
<1>7. /\ Trips(d, ctx, "no-diff") => Trips(c, ctx, "no-diff")
      /\ c.noDiff = d.noDiff => (Trips(d, ctx, "no-diff") <=> Trips(c, ctx, "no-diff"))
  <2>1. NoDiffExcusedByRun(c, ctx) <=> NoDiffExcusedByRun(d, ctx)
    BY <1>5 DEF NoDiffExcusedByRun
  <2>. QED BY <2>1, FurtherKnobs DEF Trips, NoDiffTrips
<1>8. Trips(d, ctx, "oscillation") => Trips(c, ctx, "oscillation")
  BY FurtherKnobs DEF Trips
<1>9. /\ RepeatThreshold(c, ctx) \in Nat /\ RepeatThreshold(d, ctx) \in Nat
      /\ RepeatThreshold(c, ctx) <= RepeatThreshold(d, ctx)
      /\ RepeatThreshold(d, ctx) > 0
  BY FurtherKnobs DEF RepeatThreshold, HistoriesOK, Ledgers
<1>10. Trips(d, ctx, "repeat") => Trips(c, ctx, "repeat")
  <2>1. IsRepeating(ctx.verifierDetailHistory, RepeatThreshold(d, ctx))
          => IsRepeating(ctx.verifierDetailHistory, RepeatThreshold(c, ctx))
    BY <1>1, <1>9, StreakAntitone
  <2>. QED BY <2>1 DEF Trips
<1>11. d.repeatFailureThreshold = c.repeatFailureThreshold =>
         (Trips(d, ctx, "repeat") <=> Trips(c, ctx, "repeat"))
  BY DEF Trips, RepeatThreshold
<1>12. ctx.verifierDetailHistory = << >> => ~Trips(d, ctx, "repeat")
  BY <1>9, EmptySequence DEF Trips, IsRepeating
<1>. QED BY <1>2, <1>3, <1>4, <1>6, <1>7, <1>8, <1>10, <1>11, <1>12

(* The cap does not come down. *)
LEMMA CapFurther ==
  ASSUME NEW c, NEW d, Further(c, d), NEW ctx, HistoriesOK(ctx)
  PROVE  /\ ctx.iteration \in Nat /\ IterationCap(c, ctx) \in Nat /\ IterationCap(d, ctx) \in Nat
         /\ IterationCap(c, ctx) <= IterationCap(d, ctx)
<1>1. /\ c.maxIterations \in Nat /\ d.maxIterations \in Nat
      /\ c.maxIterations <= d.maxIterations
  BY FurtherKnobs
<1>2. ctx.iteration \in Nat /\ ctx.remediations.noDiff \in Nat
  BY DEF HistoriesOK, Ledgers
<1>. QED BY <1>1, <1>2 DEF IterationCap

(***************************************************************************)
(* What was decided but an end is decided again: a turn that was continued *)
(* is, and so is one that was handed to an adjudication, as long as that   *)
(* threshold has not moved.                                                *)
(***************************************************************************)
LEMMA DecideFurther ==
  ASSUME NEW c, NEW d, Further(c, d), NEW ctx, HistoriesOK(ctx),
         IsSequence(ctx.verifierEvaluableHistory),
         d.timeoutNoDiffThreshold > Len(ctx.runStatusHistory),
         c.timeoutNoDiffThreshold > Len(ctx.runStatusHistory),
         NEW contract, NEW pass \in BOOLEAN, NEW approval,
         pass => ctx.verifierDetailHistory = << >>,
         Decide(c, contract, ctx, pass, approval).kind \notin {"FAILED", "ABORTED"},
         Decide(c, contract, ctx, pass, approval).kind = "ADJUDICATE"
           => d.repeatFailureThreshold = c.repeatFailureThreshold
  PROVE  Decide(d, contract, ctx, pass, approval) = Decide(c, contract, ctx, pass, approval)
<1> DEFINE K    == DetectStuck(c, ctx)
           L    == DetectStuck(d, ctx)
           excused(kind) == kind = "no-diff" /\ FreshVeto(ctx, pass, approval)
<1>1. CASE pass /\ approval = "approve"
  BY <1>1 DEF Decide
<1>2. CASE ~(pass /\ approval = "approve")
  <2>1. \A kind : ~Remediable(c, ctx, kind) /\ ~Remediable(d, ctx, kind)
    BY FurtherKnobs DEF Remediable
  <2>2. /\ ctx.iteration \in Nat /\ IterationCap(c, ctx) \in Nat /\ IterationCap(d, ctx) \in Nat
        /\ IterationCap(c, ctx) <= IterationCap(d, ctx)
    BY CapFurther
  <2>3. /\ \A k \in {"budget", "crash", "unevaluable", "timeout-no-diff", "no-diff",
                     "oscillation", "repeat"} : Trips(d, ctx, k) => Trips(c, ctx, k)
        /\ c.noDiff = d.noDiff => (Trips(d, ctx, "no-diff") <=> Trips(c, ctx, "no-diff"))
        /\ d.repeatFailureThreshold = c.repeatFailureThreshold =>
             (Trips(d, ctx, "repeat") <=> Trips(c, ctx, "repeat"))
        /\ ctx.verifierDetailHistory = << >> => ~Trips(d, ctx, "repeat")
    BY TripsFurther
  <2>4. CASE K = "none"
    <3>1. L = "none"
      <4>1. ~Trips(c, ctx, "budget") /\ ~Trips(c, ctx, "crash") /\ ~Trips(c, ctx, "unevaluable")
            /\ ~Trips(c, ctx, "timeout-no-diff") /\ ~Trips(c, ctx, "no-diff")
            /\ ~Trips(c, ctx, "oscillation") /\ ~Trips(c, ctx, "repeat")
        BY <2>4, StuckChain
      <4>. QED BY <2>3, <4>1, StuckChain
    <3>2. ctx.iteration < IterationCap(c, ctx)
      BY <1>2, <2>2, <2>4 DEF Decide, Decision
    <3>3. ctx.iteration < IterationCap(d, ctx)
      BY <2>2, <3>2
    <3>. QED BY <1>2, <2>4, <3>1, <3>2, <3>3 DEF Decide
  <2>5. CASE K # "none" /\ excused(K)
    <3>1. pass /\ approval = "veto" /\ K = "no-diff"
      BY <2>5 DEF FreshVeto
    <3>2. ~Trips(c, ctx, "budget") /\ ~Trips(c, ctx, "crash") /\ ~Trips(c, ctx, "unevaluable")
          /\ ~Trips(c, ctx, "timeout-no-diff") /\ Trips(c, ctx, "no-diff")
      BY <3>1, StuckChain
    <3>3. L \in {"none", "no-diff"}
      <4>1. ~Trips(d, ctx, "repeat")
        BY <2>3, <3>1
      <4>2. CASE c.noDiff = d.noDiff
        BY <2>3, <3>2, <4>2, StuckChain
      <4>3. CASE ~d.oscillation
        <5>1. ~Trips(d, ctx, "oscillation")
          BY <4>3 DEF Trips
        <5>. QED BY <2>3, <3>2, <4>1, <5>1, StuckChain
      <4>. QED BY <4>2, <4>3, FurtherKnobs
    <3>4. L = "none" \/ excused(L)
      BY <2>5, <3>3
    <3>5. ctx.iteration < IterationCap(c, ctx)
      BY <1>2, <2>2, <2>5 DEF Decide, Decision
    <3>6. ctx.iteration < IterationCap(d, ctx)
      BY <2>2, <3>5
    <3>. QED BY <1>2, <2>5, <3>4, <3>5, <3>6 DEF Decide
  <2>6. CASE K # "none" /\ ~excused(K)
    <3>1. SuspectsContractFault(contract, ctx, K)
          /\ Decide(c, contract, ctx, pass, approval)
               = Decision("ADJUDICATE", "none", ctx.remediations, K)
      BY <1>2, <2>1, <2>6 DEF Decide, Decision
    <3>2. K = "repeat" /\ d.repeatFailureThreshold = c.repeatFailureThreshold
      BY <3>1 DEF SuspectsContractFault, Decision
    <3>3. L = "repeat"
      <4>1. ~Trips(c, ctx, "budget") /\ ~Trips(c, ctx, "crash") /\ ~Trips(c, ctx, "unevaluable")
            /\ ~Trips(c, ctx, "timeout-no-diff") /\ ~Trips(c, ctx, "no-diff")
            /\ ~Trips(c, ctx, "oscillation") /\ Trips(c, ctx, "repeat")
        BY <3>2, StuckChain
      <4>. QED BY <2>3, <3>2, <4>1, StuckChain
    <3>. QED BY <1>2, <2>1, <3>1, <3>2, <3>3 DEF Decide
  <2>. QED BY <2>4, <2>5, <2>6
<1>. QED BY <1>1, <1>2

(* Contexts that differ in the last meter reading only. *)
AlikeCtx(x, y) ==
  /\ x.iteration = y.iteration
  /\ x.diffHashHistory = y.diffHashHistory
  /\ x.verifierDetailHistory = y.verifierDetailHistory
  /\ x.verifierEvaluableHistory = y.verifierEvaluableHistory
  /\ x.runStatusHistory = y.runStatusHistory
  /\ x.lastNoDiff = y.lastNoDiff
  /\ x.lastVerdict = y.lastVerdict
  /\ x.feedbackSource = y.feedbackSource
  /\ x.remediations = y.remediations
  /\ x.adjudicated = y.adjudicated

(***************************************************************************)
(* States that differ in the command (one turn, or candidates for one) and *)
(* in the last meter reading only: a verdict reads the meter again before  *)
(* anything is decided.                                                    *)
(***************************************************************************)
Alike(s, t) ==
  /\ s.tag = t.tag
  /\ s.reviseRound = t.reviseRound /\ s.planRound = t.planRound
  /\ s.compileRound = t.compileRound
  /\ s.contract = t.contract /\ s.phase = t.phase /\ s.indices = t.indices
  /\ s.iterations = t.iterations /\ s.reason = t.reason
  /\ AlikeCtx(s.ctx, t.ctx)

(* The same event, but for a turn's reading of the meter. *)
SameTurn(e, f) ==
  \/ f = e
  \/ /\ e.tag = "AGENT_RAN" /\ f.tag = e.tag
     /\ f.status = e.status /\ f.prev = e.prev /\ f.hash = e.hash

(* What else holds of the states of a run. *)
LoopOK(s) ==
  /\ IsSequence(s.ctx.verifierEvaluableHistory)
  /\ s.tag = "AWAIT_SIGNOFF" => s.ctx.verifierDetailHistory = << >>
  /\ s.tag \notin TerminalTags => s.reason = "none"

(* A red verdict overwrites what two alike contexts may differ in. *)
LEMMA RedAlike ==
  ASSUME NEW x, NEW y, CtxFields(x), CtxFields(y), AlikeCtx(x, y), NEW e
  PROVE  AfterRed(x, e) = AfterRed(y, e)
<1>1. DOMAIN x = DOMAIN y
  BY DEF CtxFields
<1>2. \A k \in DOMAIN x : k # "lastBudget" => x[k] = y[k]
  BY DEF CtxFields, AlikeCtx
<1>3. /\ x.verifierDetailHistory = y.verifierDetailHistory
      /\ x.verifierEvaluableHistory = y.verifierEvaluableHistory
  BY DEF AlikeCtx
<1>. QED BY <1>1, <1>2, <1>3 DEF AfterRed

(* A new turn starts alike. *)
LEMMA StartsAlike ==
  ASSUME NEW c, NEW d, NEW contract, NEW phase, NEW ctx
  PROVE  Alike(StartIteration(c, contract, phase, ctx), StartIteration(d, contract, phase, ctx))
<1>1. ASSUME NEW x, NEW s, s = StartIteration(x, contract, phase, ctx)
      PROVE  /\ s.tag = "RUNNING_AGENT" /\ s.reviseRound = 0 /\ s.planRound = 0
             /\ s.compileRound = 0 /\ s.contract = contract /\ s.phase = phase
             /\ s.indices = {} /\ s.iterations = 0 /\ s.reason = "none" /\ s.ctx = ctx
  <2> DEFINE cmd == IF x.candidates > 1 THEN "RUN_AGENT_BEST_OF" ELSE "RUN_AGENT"
  <2>1. s = [State("RUNNING_AGENT", cmd) EXCEPT !.contract = contract, !.phase = phase, !.ctx = ctx]
    BY <1>1 DEF StartIteration
  <2> HIDE DEF cmd
  <2>. QED BY <2>1 DEF State
<1>. QED BY <1>1 DEF Alike, AlikeCtx

(* A decision is carried out alike. *)
LEMMA AppliesAlike ==
  ASSUME NEW c, NEW d, NEW s, NEW t, StateFields(s), StateFields(t), Alike(s, t),
         NEW ctx, CtxFields(ctx), NEW dec,
         dec.kind \in {"CONTINUE", "DONE", "ADJUDICATE", "FAILED", "ABORTED"}
  PROVE  Alike(ApplyDecision(c, s, ctx, dec), ApplyDecision(d, t, ctx, dec))
<1>0. s.contract = t.contract /\ s.phase = t.phase
  BY DEF Alike
<1>1. CASE dec.kind = "CONTINUE"
  BY <1>0, <1>1, StartsAlike DEF ApplyDecision
<1>2. CASE dec.kind = "DONE"
  <2>1. ApplyDecision(c, s, ctx, dec) = ApplyDecision(d, t, ctx, dec)
    BY <1>0, <1>2 DEF ApplyDecision, PhaseDone
  <2>. QED BY <2>1 DEF Alike, AlikeCtx
<1>3. CASE dec.kind = "ADJUDICATE"
  <2> DEFINE next == [ctx EXCEPT !.adjudicated = TRUE]
             sn == [s EXCEPT !.tag = "ADJUDICATING", !.cmd = "ADJUDICATE_CONTRACT", !.ctx = next]
             tn == [t EXCEPT !.tag = "ADJUDICATING", !.cmd = "ADJUDICATE_CONTRACT", !.ctx = next]
  <2>1. ApplyDecision(c, s, ctx, dec) = sn /\ ApplyDecision(d, t, ctx, dec) = tn
    BY <1>3 DEF ApplyDecision
  <2>2. Alike(sn, tn)
    <3> HIDE DEF next
    <3>. QED BY DEF Alike, AlikeCtx, StateFields
  <2>. QED BY <2>1, <2>2
<1>4. CASE dec.kind \in {"FAILED", "ABORTED"}
  <2>1. ApplyDecision(c, s, ctx, dec) = ApplyDecision(d, t, ctx, dec)
    BY <1>0, <1>4 DEF ApplyDecision
  <2>. QED BY <2>1 DEF Alike, AlikeCtx
<1>. QED BY <1>1, <1>2, <1>3, <1>4

(***************************************************************************)
(* A step that did not end the run is taken alike under a configuration    *)
(* that lets it go further, from a state that is alike.                    *)
(***************************************************************************)
LEMMA StepFurther ==
  ASSUME NEW c, NEW d, Further(c, d), NEW n \in Nat,
         NEW s, StateShape(c, s, n), LoopOK(s), NEW t, StateShape(d, t, n), Alike(s, t),
         NEW e, ReadingOK(e), e.tag \in EventsOf(s.tag), NEW f, SameTurn(e, f),
         c.timeoutNoDiffThreshold > n, d.timeoutNoDiffThreshold > n,
         Step(c, s, e).tag \notin {"FAILED", "ABORTED"},
         Step(c, s, e).tag = "ADJUDICATING"
           => d.repeatFailureThreshold = c.repeatFailureThreshold
  PROVE  Alike(Step(c, s, e), Step(d, t, f))
<1>0. /\ t.tag = s.tag /\ t.reviseRound = s.reviseRound /\ t.planRound = s.planRound
      /\ t.compileRound = s.compileRound /\ t.contract = s.contract /\ t.phase = s.phase
      /\ t.indices = s.indices /\ t.iterations = s.iterations /\ t.reason = s.reason
      /\ AlikeCtx(s.ctx, t.ctx)
      /\ StateFields(s) /\ StateFields(t) /\ CtxFields(s.ctx) /\ CtxFields(t.ctx)
      /\ HistoriesOK(s.ctx) /\ Len(s.ctx.runStatusHistory) <= n
      /\ Len(s.ctx.runStatusHistory) \in Nat
      /\ c.timeoutNoDiffThreshold \in Nat /\ d.timeoutNoDiffThreshold \in Nat
      /\ c.timeoutNoDiffThreshold > Len(s.ctx.runStatusHistory)
      /\ d.timeoutNoDiffThreshold > Len(s.ctx.runStatusHistory)
  <2>1. /\ HistoriesOK(s.ctx) /\ Len(s.ctx.runStatusHistory) <= n
        /\ StateFields(s) /\ StateFields(t) /\ CtxFields(s.ctx) /\ CtxFields(t.ctx)
    BY DEF StateShape
  <2>2. Len(s.ctx.runStatusHistory) \in Nat
    BY <2>1, StreakBound
  <2>3. c.timeoutNoDiffThreshold \in Nat /\ d.timeoutNoDiffThreshold \in Nat
    BY FurtherKnobs
  <2>. QED BY <2>1, <2>2, <2>3 DEF Alike
<1>a. \A phase : StartPhaseCompile(d, phase) = StartPhaseCompile(c, phase)
  BY FurtherKnobs DEF StartPhaseCompile, PendingWaveAt
<1>b. \A x, y : x = y => Alike(x, y)
  BY DEF Alike, AlikeCtx
<1>c. s.tag # "RUNNING_AGENT" => f = e
  BY DEF SameTurn, EventsOf
<1>d. ASSUME NEW ctx, HistoriesOK(ctx), CtxFields(ctx), IsSequence(ctx.verifierEvaluableHistory),
             ctx.runStatusHistory = s.ctx.runStatusHistory,
             NEW pass \in BOOLEAN, NEW approval, pass => ctx.verifierDetailHistory = << >>,
             Step(c, s, e) = ApplyDecision(c, s, ctx, Decide(c, s.contract, ctx, pass, approval)),
             Step(d, t, f) = ApplyDecision(d, t, ctx, Decide(d, s.contract, ctx, pass, approval))
      PROVE  Alike(Step(c, s, e), Step(d, t, f))
  <2> DEFINE dec == Decide(c, s.contract, ctx, pass, approval)
  <2>1. dec.kind \in {"CONTINUE", "DONE", "ADJUDICATE", "FAILED", "ABORTED"}
    BY <1>d, DecideShape DEF Further
  <2>2. dec.kind \in {"FAILED", "ABORTED"} => Step(c, s, e).tag = dec.kind
    <3> HIDE DEF dec
    <3>1. Step(c, s, e) = ApplyDecision(c, s, ctx, dec)
      BY <1>d DEF dec
    <3>. QED BY <3>1 DEF ApplyDecision, Stopped, State
  <2>3. dec.kind = "ADJUDICATE" => Step(c, s, e).tag = "ADJUDICATING"
    <3> HIDE DEF dec
    <3>1. Step(c, s, e) = ApplyDecision(c, s, ctx, dec)
      BY <1>d DEF dec
    <3>. QED BY <1>0, <2>1, <3>1, ApplyDecisionTag
  <2>4. Decide(d, s.contract, ctx, pass, approval) = dec
    BY <1>0, <1>d, <2>2, <2>3, DecideFurther
  <2> HIDE DEF dec
  <2>5. Alike(ApplyDecision(c, s, ctx, dec), ApplyDecision(d, t, ctx, dec))
    BY <1>0, <1>d, <2>1, AppliesAlike
  <2>. QED BY <1>d, <2>4, <2>5 DEF dec
<1>1. CASE s.tag = "PLANNING"
  <2>1. c.maxPlanRetries = d.maxPlanRetries /\ f = e
    BY <1>1, <1>c, FurtherKnobs
  <2>2. StepPlanning(d, t, f) = StepPlanning(c, s, e)
    BY <1>0, <2>1 DEF StepPlanning
  <2>. QED BY <1>0, <1>1, <1>b, <2>2 DEF Step
<1>2. CASE s.tag = "AWAIT_PLAN_SEAL"
  <2>1. c.maxPlanRevisions = d.maxPlanRevisions
    BY FurtherKnobs
  <2>2. e.decision \in {"approve", "reject", "revise"} /\ f = e
    BY <1>2, <1>c DEF EventsOf, ReadingOK
  <2>3. StepAwaitPlanSeal(d, t, f) = StepAwaitPlanSeal(c, s, e)
    BY <1>0, <1>a, <2>1, <2>2 DEF StepAwaitPlanSeal
  <2>. QED BY <1>0, <1>2, <1>b, <2>3 DEF Step
<1>3. CASE s.tag = "ADVANCING_PHASE"
  <2>1. Step(d, t, f) = Step(c, s, e)
    BY <1>0, <1>3, <1>a DEF Step, StepAdvancingPhase
  <2>. QED BY <1>b, <2>1
<1>4. CASE s.tag = "RUNNING_WAVE"
  <2>1. StepRunningWave(d, t, f) = StepRunningWave(c, s, e)
    BY <1>0, <1>4, <1>a, <1>c DEF StepRunningWave, AfterWave
  <2>. QED BY <1>0, <1>4, <1>b, <2>1 DEF Step
<1>5. CASE s.tag = "COMPILING"
  <2>1. c.maxCompileRetries = d.maxCompileRetries /\ f = e
    BY <1>5, <1>c, FurtherKnobs
  <2>2. StepCompiling(d, t, f) = StepCompiling(c, s, e)
    BY <1>0, <2>1 DEF StepCompiling
  <2>. QED BY <1>0, <1>5, <1>b, <2>2 DEF Step
<1>6. CASE s.tag = "AWAIT_SEAL"
  <2>1. c.maxSealRevisions = d.maxSealRevisions /\ f = e
    BY <1>6, <1>c, FurtherKnobs
  <2>2. CASE e.decision = "approve" /\ ~NeedsPreparation(s.contract)
    <3>1. StepAwaitSeal(c, s, e) = StartIteration(c, s.contract, s.phase, InitialCtx)
          /\ StepAwaitSeal(d, t, f) = StartIteration(d, s.contract, s.phase, InitialCtx)
      BY <1>0, <2>1, <2>2 DEF StepAwaitSeal
    <3>. QED BY <1>0, <1>6, <3>1, StartsAlike DEF Step
  <2>3. CASE ~(e.decision = "approve" /\ ~NeedsPreparation(s.contract))
    <3>0. e.decision \in {"approve", "reject", "revise", "edited"}
      BY <1>6 DEF EventsOf, ReadingOK
    <3>1. StepAwaitSeal(d, t, f) = StepAwaitSeal(c, s, e)
      BY <1>0, <2>1, <2>3, <3>0 DEF StepAwaitSeal
    <3>. QED BY <1>0, <1>6, <1>b, <3>1 DEF Step
  <2>. QED BY <2>2, <2>3
<1>7. CASE s.tag = "PREPARING"
  <2>1. f = e
    BY <1>7, <1>c
  <2>2. CASE e.prepared = "proceed"
    <3>1. Step(c, s, e) = StartIteration(c, s.contract, s.phase, InitialCtx)
          /\ Step(d, t, f) = StartIteration(d, s.contract, s.phase, InitialCtx)
      BY <1>0, <1>7, <2>1, <2>2 DEF Step, StepPreparing
    <3>. QED BY <3>1, StartsAlike
  <2>3. CASE e.prepared # "proceed"
    <3>1. Step(d, t, f) = Step(c, s, e)
      BY <1>0, <1>7, <2>1, <2>3 DEF Step, StepPreparing
    <3>. QED BY <1>b, <3>1
  <2>. QED BY <2>2, <2>3
<1>8. CASE s.tag = "RUNNING_AGENT"
  <2> DEFINE x == AfterTurn(s.ctx, e)
             y == AfterTurn(t.ctx, f)
             u == [s EXCEPT !.tag = "VERIFYING", !.cmd = "RUN_VERIFIER", !.ctx = x]
             v == [t EXCEPT !.tag = "VERIFYING", !.cmd = "RUN_VERIFIER", !.ctx = y]
  <2>1. f.status = e.status /\ f.prev = e.prev /\ f.hash = e.hash
    BY DEF SameTurn
  <2>2. AlikeCtx(x, y)
    BY <1>0, <2>1 DEF AlikeCtx, CtxFields, AfterTurn
  <2>3. Alike(u, v)
    <3> HIDE DEF x, y
    <3>. QED BY <1>0, <2>2 DEF Alike, StateFields
  <2>4. Step(c, s, e) = u /\ Step(d, t, f) = v
    BY <1>0, <1>8 DEF Step, StepRunningAgent
  <2>. QED BY <2>3, <2>4
<1>9. CASE s.tag = "VERIFYING"
  <2>0. f = e /\ e.pass \in BOOLEAN
    BY <1>9, <1>c DEF EventsOf, ReadingOK
  <2>1. CASE e.pass
    <3> DEFINE x == AfterGreen(s.ctx, e)
               y == AfterGreen(t.ctx, e)
               u == [s EXCEPT !.tag = "AWAIT_SIGNOFF", !.cmd = "REQUEST_SIGNOFF", !.ctx = x]
               v == [t EXCEPT !.tag = "AWAIT_SIGNOFF", !.cmd = "REQUEST_SIGNOFF", !.ctx = y]
    <3>1. AlikeCtx(x, y)
      BY <1>0 DEF AlikeCtx, CtxFields, AfterGreen
    <3>2. Alike(u, v)
      <4> HIDE DEF x, y
      <4>. QED BY <1>0, <3>1 DEF Alike, StateFields
    <3>3. Step(c, s, e) = u /\ Step(d, t, f) = v
      BY <1>0, <1>9, <2>0, <2>1 DEF Step, StepVerifying
    <3>. QED BY <3>2, <3>3
  <2>2. CASE ~e.pass
    <3> DEFINE ctx == AfterRed(s.ctx, e)
    <3>1. /\ ctx.runStatusHistory = s.ctx.runStatusHistory
          /\ ctx.verifierDetailHistory = Append(s.ctx.verifierDetailHistory, NormalizeDetail(e.detail))
          /\ ctx.verifierEvaluableHistory = Append(s.ctx.verifierEvaluableHistory, e.evaluable)
          /\ ctx.iteration = s.ctx.iteration /\ ctx.remediations = s.ctx.remediations
          /\ CtxFields(ctx)
      BY <1>0 DEF AfterRed, CtxFields
    <3>2. AfterRed(t.ctx, e) = ctx
      <4>1. CtxFields(s.ctx) /\ CtxFields(t.ctx) /\ AlikeCtx(s.ctx, t.ctx)
        BY <1>0
      <4>. QED BY <4>1, RedAlike
    <3>3. \A x : Step(x, s, e) = ApplyDecision(x, s, ctx, Decide(x, s.contract, ctx, FALSE, "none"))
      BY <1>9, <2>2 DEF Step, StepVerifying
    <3>4. Step(d, t, f) = ApplyDecision(d, t, ctx, Decide(d, s.contract, ctx, FALSE, "none"))
      <4> HIDE DEF ctx
      <4>. QED BY <1>0, <1>9, <2>0, <2>2, <3>2 DEF Step, StepVerifying
    <3> HIDE DEF ctx
    <3>5. HistoriesOK(ctx) /\ IsSequence(ctx.verifierEvaluableHistory)
      BY <1>0, <3>1, SequenceAppend DEF HistoriesOK, LoopOK
    <3>. QED BY <1>d, <3>1, <3>3, <3>4, <3>5
  <2>. QED BY <2>0, <2>1, <2>2
<1>10. CASE s.tag = "AWAIT_SIGNOFF"
  <2> DEFINE ctx == [s.ctx EXCEPT !.lastBudget = e.budget]
             pass == s.ctx.lastVerdict = "pass"
  <2>0. f = e
    BY <1>10, <1>c
  <2>1. /\ ctx.runStatusHistory = s.ctx.runStatusHistory
        /\ ctx.verifierDetailHistory = s.ctx.verifierDetailHistory
        /\ ctx.verifierEvaluableHistory = s.ctx.verifierEvaluableHistory
        /\ ctx.iteration = s.ctx.iteration /\ ctx.remediations = s.ctx.remediations
        /\ ctx.lastVerdict = s.ctx.lastVerdict
        /\ CtxFields(ctx)
    BY <1>0 DEF CtxFields
  <2>2. [t.ctx EXCEPT !.lastBudget = e.budget] = ctx
    BY <1>0 DEF CtxFields, AlikeCtx
  <2>3. /\ Step(c, s, e) = ApplyDecision(c, s, ctx, Decide(c, s.contract, ctx, pass, e.approval))
        /\ Step(d, t, f) = ApplyDecision(d, t, ctx, Decide(d, s.contract, ctx, pass, e.approval))
    <3>1. \A x : Step(x, s, e) =
            ApplyDecision(x, s, ctx, Decide(x, s.contract, ctx, ctx.lastVerdict = "pass", e.approval))
      BY <1>10 DEF Step, StepAwaitSignoff
    <3>2. \A x : Step(x, t, e) =
            ApplyDecision(x, t, ctx, Decide(x, t.contract, ctx, ctx.lastVerdict = "pass", e.approval))
      BY <1>0, <1>10, <2>2 DEF Step, StepAwaitSignoff
    <3> HIDE DEF ctx
    <3>. QED BY <1>0, <2>0, <2>1, <3>1, <3>2
  <2>4. pass \in BOOLEAN /\ ctx.verifierDetailHistory = << >>
    BY <1>10, <2>1 DEF LoopOK
  <2> HIDE DEF ctx, pass
  <2>5. HistoriesOK(ctx) /\ IsSequence(ctx.verifierEvaluableHistory)
    BY <1>0, <2>1 DEF HistoriesOK, LoopOK
  <2>. QED BY <1>d, <2>1, <2>3, <2>4, <2>5
<1>11. CASE s.tag = "ADJUDICATING"
  <2>1. Step(c, s, e).tag = "ABORTED"
    BY <1>11 DEF Step, StepAdjudicating, Stopped, State
  <2>. QED BY <2>1
<1>12. s.tag \in {"PLANNING", "AWAIT_PLAN_SEAL", "ADVANCING_PHASE", "RUNNING_WAVE", "COMPILING",
                  "AWAIT_SEAL", "PREPARING", "RUNNING_AGENT", "VERIFYING", "AWAIT_SIGNOFF",
                  "ADJUDICATING"}
  BY DEF EventsOf
<1>. QED BY <1>1, <1>2, <1>3, <1>4, <1>5, <1>6, <1>7, <1>8, <1>9, <1>10, <1>11, <1>12

-----------------------------------------------------------------------------
(* Streaks: no state banks a longer one than its log ends with. *)

(* Of the first i entries, the last ones with the tag, back to back, that lie in G. *)
Trailing(l, i, tag, G) ==
  { j \in 1 .. i : /\ l[j].event.tag = tag
                   /\ \A k \in j .. i : l[k].event.tag = tag => k \in G }

Crashes(l)      == { k \in DOMAIN l : l[k].event.status = "crashed" }
Unevaluables(l) == { k \in DOMAIN l : ~l[k].event.pass /\ ~l[k].event.evaluable }
Reds(l, v)      == { k \in DOMAIN l : ~l[k].event.pass /\ NormalizeDetail(l[k].event.detail) = v }

(* No more than b entries at the end of a history are all v. *)
TailBound(h, v, b) == \A n \in 0 .. Len(h) : (\A i \in TailPositions(h, n) : h[i] = v) => n <= b

(* Each history's streak is no longer than the one the first i entries end with. *)
Streaks(ctx, l, i) ==
  /\ TailBound(ctx.runStatusHistory, "crashed", Cardinality(Trailing(l, i, "AGENT_RAN", Crashes(l))))
  /\ TailBound(ctx.verifierEvaluableHistory, FALSE,
               Cardinality(Trailing(l, i, "VERIFIED", Unevaluables(l))))
  /\ \A v : TailBound(ctx.verifierDetailHistory, v,
                      Cardinality(Trailing(l, i, "VERIFIED", Reds(l, v))))

(* A sequence over any set is one over what it holds. *)
LEMMA SomeSequence ==
  ASSUME NEW S, NEW h \in Seq(S)
  PROVE  IsSequence(h)
<1> DEFINE T == { h[i] : i \in DOMAIN h }
<1>1. Len(h) \in Nat /\ DOMAIN h = 1 .. Len(h) /\ h \in [1 .. Len(h) -> S]
  BY LenProperties
<1>2. h \in [1 .. Len(h) -> T]
  BY <1>1
<1>3. h \in Seq(T)
  <2> HIDE DEF T
  <2>. QED BY <1>1, <1>2, SeqDef
<1>. QED BY <1>3 DEF IsSequence

(* A trailing run is a finite set. *)
LEMMA TrailingFinite ==
  ASSUME NEW l, NEW i \in Nat, NEW tag, NEW G
  PROVE  /\ IsFiniteSet(Trailing(l, i, tag, G))
         /\ Cardinality(Trailing(l, i, tag, G)) \in Nat
<1>1. IsFiniteSet(1 .. i)
  BY FS_Interval
<1>2. Trailing(l, i, tag, G) \subseteq 1 .. i
  BY DEF Trailing
<1>. QED BY <1>1, <1>2, FS_Subset, FS_CardinalityType

(* An entry with another tag leaves it, one that lies in G lengthens it. *)
LEMMA TrailingStep ==
  ASSUME NEW l, NEW i \in Nat \ {0}, NEW tag, NEW G
  PROVE  /\ l[i].event.tag # tag => Trailing(l, i, tag, G) = Trailing(l, i - 1, tag, G)
         /\ l[i].event.tag = tag /\ i \in G =>
              Cardinality(Trailing(l, i, tag, G)) = Cardinality(Trailing(l, i - 1, tag, G)) + 1
<1> DEFINE S == Trailing(l, i - 1, tag, G)
           T == Trailing(l, i, tag, G)
<1>1. \A j \in 1 .. i : j \in 1 .. (i - 1) \/ j = i
  OBVIOUS
<1>2. CASE l[i].event.tag # tag
  <2>1. T \subseteq S
    BY <1>1, <1>2 DEF Trailing
  <2>2. S \subseteq T
    <3>1. SUFFICES ASSUME NEW j \in S PROVE j \in T
      OBVIOUS
    <3>2. j \in 1 .. i /\ l[j].event.tag = tag
          /\ \A k \in j .. (i - 1) : l[k].event.tag = tag => k \in G
      BY DEF Trailing
    <3>3. \A k \in j .. i : k \in j .. (i - 1) \/ k = i
      BY <3>2
    <3>4. \A k \in j .. i : l[k].event.tag = tag => k \in G
      BY <1>2, <3>2, <3>3
    <3>. QED BY <3>2, <3>4 DEF Trailing
  <2>. QED BY <1>2, <2>1, <2>2
<1>3. CASE l[i].event.tag = tag /\ i \in G
  <2>1. T \subseteq S \cup {i}
    BY <1>1 DEF Trailing
  <2>2. S \subseteq T
    <3>1. SUFFICES ASSUME NEW j \in S PROVE j \in T
      OBVIOUS
    <3>2. j \in 1 .. i /\ l[j].event.tag = tag
          /\ \A k \in j .. (i - 1) : l[k].event.tag = tag => k \in G
      BY DEF Trailing
    <3>3. \A k \in j .. i : k \in j .. (i - 1) \/ k = i
      BY <3>2
    <3>4. \A k \in j .. i : l[k].event.tag = tag => k \in G
      BY <1>3, <3>2, <3>3
    <3>. QED BY <3>2, <3>4 DEF Trailing
  <2>3. i \in T
    <3>1. \A k \in i .. i : k = i
      OBVIOUS
    <3>2. i \in 1 .. i
      OBVIOUS
    <3>. QED BY <1>3, <3>1, <3>2 DEF Trailing
  <2>4. i \notin S
    BY DEF Trailing
  <2>5. T = S \cup {i}
    BY <2>1, <2>2, <2>3
  <2>6. IsFiniteSet(S)
    BY TrailingFinite
  <2> HIDE DEF S, T
  <2>7. Cardinality(T) = Cardinality(S) + 1
    BY <2>4, <2>5, <2>6, FS_AddElement
  <2>. QED BY <1>3, <2>7 DEF S, T
<1>. QED BY <1>2, <1>3

(* Nothing ends an empty history. *)
LEMMA EmptyBound ==
  ASSUME NEW v, NEW b \in Nat
  PROVE  TailBound(<< >>, v, b)
BY EmptySequence DEF TailBound

(* A history grows with the log. *)
LEMMA AppendBound ==
  ASSUME NEW l, NEW i \in Nat \ {0}, NEW tag, NEW G, l[i].event.tag = tag,
         NEW h, IsSequence(h), NEW v, TailBound(h, v, Cardinality(Trailing(l, i - 1, tag, G))),
         NEW x, x = v => i \in G
  PROVE  TailBound(Append(h, x), v, Cardinality(Trailing(l, i, tag, G)))
<1> DEFINE g == Append(h, x)
           m == Len(h)
           b == Cardinality(Trailing(l, i, tag, G))
           a == Cardinality(Trailing(l, i - 1, tag, G))
<1>1. /\ m \in Nat /\ Len(g) = m + 1 /\ \A k \in 1 .. m : g[k] = h[k]
      /\ g[m + 1] = x
  BY SequenceShape, SequenceAppend
<1>2. a \in Nat /\ b \in Nat
  BY TrailingFinite
<1>3. x = v => b = a + 1
  BY TrailingStep
<1>4. \A n \in 0 .. m : (\A k \in TailPositions(h, n) : h[k] = v) => n <= a
  BY DEF TailBound
<1> HIDE DEF g, m, a, b
<1>5. ASSUME NEW n \in 0 .. (m + 1), \A k \in TailPositions(g, n) : g[k] = v PROVE n <= b
  <2>1. CASE n = 0
    BY <1>2, <2>1
  <2>2. CASE n # 0
    <3>0. TailPositions(g, n) = ((m + 1) - n + 1) .. (m + 1)
      BY <1>1 DEF TailPositions
    <3>1. m + 1 \in TailPositions(g, n)
      BY <1>1, <2>2, <3>0
    <3>2. x = v
      BY <1>1, <1>5, <3>1
    <3>3. TailPositions(h, n - 1) = (m - (n - 1) + 1) .. m
      BY DEF TailPositions, m
    <3>4. \A k \in TailPositions(h, n - 1) : k \in TailPositions(g, n) /\ k \in 1 .. m
      BY <1>1, <2>2, <3>0, <3>3
    <3>5. n - 1 \in 0 .. m
      BY <1>1, <2>2
    <3>6. n - 1 <= a
      BY <1>1, <1>4, <1>5, <3>4, <3>5
    <3>. QED BY <1>1, <1>2, <1>3, <3>2, <3>6
  <2>. QED BY <2>1, <2>2
<1>6. TailBound(g, v, b)
  BY <1>1, <1>5 DEF TailBound
<1>. QED BY <1>6 DEF g, b

(* An entry of another kind changes no history's bound. *)
LEMMA StreaksKept ==
  ASSUME NEW l, NEW i \in Nat \ {0}, NEW ctx, Streaks(ctx, l, i - 1),
         l[i].event.tag \notin {"AGENT_RAN", "VERIFIED"}
  PROVE  Streaks(ctx, l, i)
<1>1. \A tag \in {"AGENT_RAN", "VERIFIED"} : \A G : Trailing(l, i, tag, G) = Trailing(l, i - 1, tag, G)
  BY TrailingStep
<1>. QED BY <1>1 DEF Streaks

(* Nor does a fresh context bank anything. *)
LEMMA FreshStreaks ==
  ASSUME NEW l, NEW i \in Nat
  PROVE  Streaks(InitialCtx, l, i)
<1>1. /\ InitialCtx.runStatusHistory = << >> /\ InitialCtx.verifierEvaluableHistory = << >>
      /\ InitialCtx.verifierDetailHistory = << >>
  BY DEF InitialCtx
<1>2. \A tag, G : Cardinality(Trailing(l, i, tag, G)) \in Nat
  BY TrailingFinite
<1>. QED BY <1>1, <1>2, EmptyBound DEF Streaks

(* Histories decide what is banked. *)
LEMMA SameStreaks ==
  ASSUME NEW l, NEW i, NEW x, Streaks(x, l, i), NEW y,
         y.runStatusHistory = x.runStatusHistory,
         y.verifierEvaluableHistory = x.verifierEvaluableHistory,
         y.verifierDetailHistory = x.verifierDetailHistory
  PROVE  Streaks(y, l, i)
BY DEF Streaks

(* A turn and a verdict bank what their entries show. *)
LEMMA StreaksGrow ==
  ASSUME NEW l, EntriesOK(l), NEW i \in 1 .. Len(l), NEW ctx, CtxFields(ctx), HistoriesOK(ctx),
         IsSequence(ctx.verifierEvaluableHistory), Streaks(ctx, l, i - 1),
         NEW e, SameTurn(l[i].event, e), ReadingOK(e)
  PROVE  /\ e.tag = "AGENT_RAN" => Streaks(AfterTurn(ctx, e), l, i)
         /\ e.tag = "VERIFIED" /\ e.pass => Streaks(AfterGreen(ctx, e), l, i)
         /\ e.tag = "VERIFIED" /\ ~e.pass => Streaks(AfterRed(ctx, e), l, i)
<1>1. i \in Nat \ {0} /\ i - 1 \in Nat /\ i \in DOMAIN l /\ l[i].event.tag = e.tag
  BY SequenceShape DEF EntriesOK, SameTurn
<1>2. /\ \A tag, G : Cardinality(Trailing(l, i, tag, G)) \in Nat
      /\ \A tag, G : tag # e.tag => Trailing(l, i, tag, G) = Trailing(l, i - 1, tag, G)
  BY <1>1, TrailingFinite, TrailingStep
<1>3. IsSequence(ctx.runStatusHistory)
  BY SomeSequence DEF HistoriesOK
<1>4. CASE e.tag = "AGENT_RAN"
  <2> DEFINE x == AfterTurn(ctx, e)
  <2>1. /\ x.runStatusHistory = Append(ctx.runStatusHistory, e.status)
        /\ x.verifierEvaluableHistory = ctx.verifierEvaluableHistory
        /\ x.verifierDetailHistory = ctx.verifierDetailHistory
    BY DEF AfterTurn, CtxFields
  <2>2. e.status = "crashed" => i \in Crashes(l)
    BY <1>1, <1>4 DEF SameTurn, Crashes
  <2>3. TailBound(Append(ctx.runStatusHistory, e.status), "crashed",
                  Cardinality(Trailing(l, i, "AGENT_RAN", Crashes(l))))
    BY <1>1, <1>3, <1>4, <2>2, AppendBound DEF Streaks
  <2>4. /\ Trailing(l, i, "VERIFIED", Unevaluables(l)) = Trailing(l, i - 1, "VERIFIED", Unevaluables(l))
        /\ \A v : Trailing(l, i, "VERIFIED", Reds(l, v)) = Trailing(l, i - 1, "VERIFIED", Reds(l, v))
    BY <1>2, <1>4
  <2> HIDE DEF x
  <2>5. Streaks(x, l, i)
    BY <2>1, <2>3, <2>4 DEF Streaks
  <2>. QED BY <1>4, <2>5 DEF x
<1>5. CASE e.tag = "VERIFIED"
  <2>0. /\ l[i].event = e /\ l[i].event.tag = "VERIFIED"
        /\ Trailing(l, i, "AGENT_RAN", Crashes(l)) = Trailing(l, i - 1, "AGENT_RAN", Crashes(l))
    BY <1>1, <1>2, <1>5 DEF SameTurn
  <2>1. CASE e.pass
    <3> DEFINE x == AfterGreen(ctx, e)
    <3>1. /\ x.runStatusHistory = ctx.runStatusHistory
          /\ x.verifierEvaluableHistory = Append(ctx.verifierEvaluableHistory, TRUE)
          /\ x.verifierDetailHistory = << >>
      BY DEF AfterGreen, CtxFields
    <3>2. TailBound(Append(ctx.verifierEvaluableHistory, TRUE), FALSE,
                    Cardinality(Trailing(l, i, "VERIFIED", Unevaluables(l))))
      BY <1>1, <2>0, AppendBound DEF Streaks
    <3>3. \A v : TailBound(<< >>, v, Cardinality(Trailing(l, i, "VERIFIED", Reds(l, v))))
      BY <1>2, EmptyBound
    <3> HIDE DEF x
    <3>4. Streaks(x, l, i)
      BY <2>0, <3>1, <3>2, <3>3 DEF Streaks
    <3>. QED BY <1>5, <2>1, <3>4 DEF x
  <2>2. CASE ~e.pass
    <3> DEFINE x == AfterRed(ctx, e)
               detail == NormalizeDetail(e.detail)
    <3>1. /\ x.runStatusHistory = ctx.runStatusHistory
          /\ x.verifierEvaluableHistory = Append(ctx.verifierEvaluableHistory, e.evaluable)
          /\ x.verifierDetailHistory = Append(ctx.verifierDetailHistory, detail)
      BY DEF AfterRed, CtxFields
    <3>2. TailBound(Append(ctx.verifierEvaluableHistory, e.evaluable), FALSE,
                    Cardinality(Trailing(l, i, "VERIFIED", Unevaluables(l))))
      <4>1. e.evaluable = FALSE => i \in Unevaluables(l)
        BY <1>1, <2>0, <2>2 DEF Unevaluables
      <4>. QED BY <1>1, <2>0, <4>1, AppendBound DEF Streaks
    <3>3. ASSUME NEW v
          PROVE  TailBound(Append(ctx.verifierDetailHistory, detail), v,
                           Cardinality(Trailing(l, i, "VERIFIED", Reds(l, v))))
      <4>1. detail = v => i \in Reds(l, v)
        BY <1>1, <2>0, <2>2 DEF Reds
      <4>2. IsSequence(ctx.verifierDetailHistory)
        BY DEF HistoriesOK
      <4>3. TailBound(ctx.verifierDetailHistory, v,
                      Cardinality(Trailing(l, i - 1, "VERIFIED", Reds(l, v))))
        BY DEF Streaks
      <4> HIDE DEF detail
      <4>. QED BY <1>1, <2>0, <4>1, <4>2, <4>3, AppendBound
    <3> HIDE DEF x, detail
    <3>4. Streaks(x, l, i)
      BY <2>0, <3>1, <3>2, <3>3 DEF Streaks
    <3>. QED BY <1>5, <2>2, <3>4 DEF x
  <2>. QED BY <2>1, <2>2
<1>. QED BY <1>4, <1>5

(* A run that ended in a counted detector: the log ends with a streak that long. *)
Backed(c, t, l, i) ==
  /\ t.reason \in {"crash", "unevaluable", "repeat"} => t.tag = "ABORTED"
  /\ t.reason = "crash" =>
       c.harnessCrashThreshold <= Cardinality(Trailing(l, i, "AGENT_RAN", Crashes(l)))
  /\ t.reason = "unevaluable" =>
       c.unevaluableThreshold <= Cardinality(Trailing(l, i, "VERIFIED", Unevaluables(l)))
  /\ t.reason = "repeat" =>
       \E v : c.repeatFailureThreshold <= Cardinality(Trailing(l, i, "VERIFIED", Reds(l, v)))

(* A counted detector trips on a streak the log shows. *)
LEMMA TripsBacked ==
  ASSUME NEW c, ConfigOK(c), NEW ctx, HistoriesOK(ctx), IsSequence(ctx.verifierEvaluableHistory),
         NEW l, NEW i \in Nat, Streaks(ctx, l, i)
  PROVE  /\ Trips(c, ctx, "crash") =>
              c.harnessCrashThreshold <= Cardinality(Trailing(l, i, "AGENT_RAN", Crashes(l)))
         /\ Trips(c, ctx, "unevaluable") =>
              c.unevaluableThreshold <= Cardinality(Trailing(l, i, "VERIFIED", Unevaluables(l)))
         /\ Trips(c, ctx, "repeat") =>
              \E v : c.repeatFailureThreshold <= Cardinality(Trailing(l, i, "VERIFIED", Reds(l, v)))
<1>1. /\ Len(ctx.runStatusHistory) \in Nat /\ Len(ctx.verifierEvaluableHistory) \in Nat
      /\ Len(ctx.verifierDetailHistory) \in Nat
      /\ \A tag, G : Cardinality(Trailing(l, i, tag, G)) \in Nat
  BY SequenceShape, StreakBound, TrailingFinite DEF HistoriesOK
<1>2. /\ c.harnessCrashThreshold \in Nat /\ c.unevaluableThreshold \in Nat
      /\ c.repeatFailureThreshold \in Nat
      /\ ctx.remediations.crash \in Nat /\ ctx.remediations.repeat \in Nat
  BY KnobTypes DEF HistoriesOK, Ledgers
<1>3. ASSUME Trips(c, ctx, "crash")
      PROVE  c.harnessCrashThreshold <= Cardinality(Trailing(l, i, "AGENT_RAN", Crashes(l)))
  <2> DEFINE n == CrashThreshold(c, ctx)
             b == Cardinality(Trailing(l, i, "AGENT_RAN", Crashes(l)))
  <2>1. n \in Nat /\ c.harnessCrashThreshold <= n /\ b \in Nat
    BY <1>1, <1>2 DEF CrashThreshold
  <2>2. IsCrashStreak(ctx.runStatusHistory, n)
    BY <1>3 DEF Trips
  <2>3. TailBound(ctx.runStatusHistory, "crashed", b)
    BY DEF Streaks
  <2> HIDE DEF n, b
  <2>4. n <= b
    BY <1>1, <2>1, <2>2, <2>3 DEF IsCrashStreak, TailBound
  <2>. QED BY <1>2, <2>1, <2>4 DEF b
<1>4. ASSUME Trips(c, ctx, "unevaluable")
      PROVE  c.unevaluableThreshold <= Cardinality(Trailing(l, i, "VERIFIED", Unevaluables(l)))
  <2> DEFINE n == c.unevaluableThreshold
             b == Cardinality(Trailing(l, i, "VERIFIED", Unevaluables(l)))
  <2>1. n \in Nat /\ b \in Nat
    BY <1>1, <1>2
  <2>2. IsUnevaluableStreak(ctx.verifierEvaluableHistory, n)
    BY <1>4 DEF Trips
  <2>3. TailBound(ctx.verifierEvaluableHistory, FALSE, b)
    BY DEF Streaks
  <2> HIDE DEF n, b
  <2>4. n <= b
    BY <1>1, <2>1, <2>2, <2>3 DEF IsUnevaluableStreak, TailBound
  <2>. QED BY <2>4 DEF n, b
<1>5. ASSUME Trips(c, ctx, "repeat")
      PROVE  \E v : c.repeatFailureThreshold <= Cardinality(Trailing(l, i, "VERIFIED", Reds(l, v)))
  <2> DEFINE n == RepeatThreshold(c, ctx)
             v == ctx.verifierDetailHistory[Len(ctx.verifierDetailHistory)]
             b == Cardinality(Trailing(l, i, "VERIFIED", Reds(l, v)))
  <2>1. n \in Nat /\ c.repeatFailureThreshold <= n /\ b \in Nat
    BY <1>1, <1>2 DEF RepeatThreshold
  <2>2. IsRepeating(ctx.verifierDetailHistory, n)
    BY <1>5 DEF Trips
  <2>3. TailBound(ctx.verifierDetailHistory, v, b)
    BY DEF Streaks
  <2>4. n <= b
    <3>1. \A k \in TailPositions(ctx.verifierDetailHistory, n) : ctx.verifierDetailHistory[k] = v
      BY <2>2 DEF IsRepeating
    <3>2. n \in 0 .. Len(ctx.verifierDetailHistory)
      <4>1. Len(ctx.verifierDetailHistory) >= n
        BY <2>2 DEF IsRepeating
      <4> HIDE DEF n
      <4>. QED BY <1>1, <2>1, <4>1
    <3> HIDE DEF n, b, v
    <3>. QED BY <2>3, <3>1, <3>2 DEF TailBound
  <2>5. c.repeatFailureThreshold <= b
    <3> HIDE DEF n, b
    <3>. QED BY <1>2, <2>1, <2>4
  <2>. QED BY <2>5
<1>. QED BY <1>3, <1>4, <1>5

(* What a decision leaves: a context that banks no more, or the end of the run. *)
LEMMA DecidedStreaks ==
  ASSUME NEW c, ConfigOK(c), NEW s, StateFields(s), s.reason = "none",
         NEW ctx, CtxFields(ctx), HistoriesOK(ctx), IsSequence(ctx.verifierEvaluableHistory),
         NEW l, NEW i \in Nat, Streaks(ctx, l, i), NEW contract, NEW pass, NEW approval,
         NEW t, t = ApplyDecision(c, s, ctx, Decide(c, contract, ctx, pass, approval))
  PROVE  LoopOK(t) /\ Streaks(t.ctx, l, i) /\ Backed(c, t, l, i)
<1> DEFINE d == Decide(c, contract, ctx, pass, approval)
<1>1. d.kind \in {"CONTINUE", "DONE", "ADJUDICATE", "FAILED", "ABORTED"}
  BY DecideShape
<1>0. ctx.iteration \in Nat /\ IterationCap(c, ctx) \in Nat
  BY KnobTypes DEF IterationCap, HistoriesOK, Ledgers
<1>2. d.kind = "FAILED" => d.reason = "max-iterations"
  BY <1>0 DEF Decide, Decision
<1>3. d.kind = "ABORTED" => d.reason = DetectStuck(c, ctx)
  BY <1>0 DEF Decide, Decision
<1>4. d.kind = "ABORTED" /\ d.reason \in {"crash", "unevaluable", "repeat"} => Trips(c, ctx, d.reason)
  <2>1. DetectStuck(c, ctx) \in {"crash", "unevaluable", "repeat"}
          => Trips(c, ctx, DetectStuck(c, ctx))
    BY StuckChain
  <2>. QED BY <1>3, <2>1
<1>5. t = ApplyDecision(c, s, ctx, d)
  OBVIOUS
<1> HIDE DEF d
<1>6. /\ InitialCtx.verifierEvaluableHistory = << >> /\ IsSequence(<< >>)
      /\ Streaks(InitialCtx, l, i)
  BY EmptySequence, FreshStreaks DEF InitialCtx
<1>7. CASE d.kind = "CONTINUE"
  <2> DEFINE next == [ctx EXCEPT !.feedbackSource = d.source, !.remediations = d.ledger]
  <2>1. /\ next.runStatusHistory = ctx.runStatusHistory
        /\ next.verifierEvaluableHistory = ctx.verifierEvaluableHistory
        /\ next.verifierDetailHistory = ctx.verifierDetailHistory
    BY DEF CtxFields
  <2>2. t = StartIteration(c, s.contract, s.phase, next)
    BY <1>5, <1>7 DEF ApplyDecision
  <2> HIDE DEF next
  <2>3. t.tag = "RUNNING_AGENT" /\ t.reason = "none" /\ t.ctx = next
    <3> DEFINE cmd == IF c.candidates > 1 THEN "RUN_AGENT_BEST_OF" ELSE "RUN_AGENT"
    <3>1. t = [State("RUNNING_AGENT", cmd) EXCEPT !.contract = s.contract, !.phase = s.phase,
                                                  !.ctx = next]
      BY <2>2 DEF StartIteration
    <3> HIDE DEF cmd
    <3>. QED BY <3>1 DEF State
  <2>4. Streaks(t.ctx, l, i)
    BY <2>1, <2>3, SameStreaks
  <2>. QED BY <2>1, <2>3, <2>4 DEF LoopOK, Backed
<1>8. CASE d.kind = "DONE"
  <2>1. t = PhaseDone(s, ctx)
    BY <1>5, <1>8 DEF ApplyDecision
  <2>2. /\ t.tag \in {"ADVANCING_PHASE", "DONE"} /\ t.ctx = InitialCtx
        /\ t.reason \in {"none", "both-keys"} /\ (t.tag # "DONE" => t.reason = "none")
    BY <2>1 DEF PhaseDone, Stopped, State
  <2>. QED BY <1>6, <2>2 DEF LoopOK, Backed, TerminalTags
<1>9. CASE d.kind = "ADJUDICATE"
  <2> DEFINE next == [ctx EXCEPT !.adjudicated = TRUE]
  <2>1. /\ next.runStatusHistory = ctx.runStatusHistory
        /\ next.verifierEvaluableHistory = ctx.verifierEvaluableHistory
        /\ next.verifierDetailHistory = ctx.verifierDetailHistory
    BY DEF CtxFields
  <2>2. t = [s EXCEPT !.tag = "ADJUDICATING", !.cmd = "ADJUDICATE_CONTRACT", !.ctx = next]
    BY <1>5, <1>9 DEF ApplyDecision
  <2> HIDE DEF next
  <2>3. t.tag = "ADJUDICATING" /\ t.reason = "none" /\ t.ctx = next
    BY <2>2 DEF StateFields
  <2>4. Streaks(t.ctx, l, i)
    BY <2>1, <2>3, SameStreaks
  <2>. QED BY <2>1, <2>3, <2>4 DEF LoopOK, Backed
<1>10. CASE d.kind \in {"FAILED", "ABORTED"}
  <2>1. t.tag = d.kind /\ t.reason = d.reason /\ t.ctx = InitialCtx
    BY <1>5, <1>10 DEF ApplyDecision, Stopped, State
  <2>2. LoopOK(t) /\ Streaks(t.ctx, l, i)
    BY <1>6, <1>10, <2>1 DEF LoopOK, TerminalTags
  <2>3. Backed(c, t, l, i)
    <3>1. t.reason \in {"crash", "unevaluable", "repeat"} => t.tag = "ABORTED" /\ Trips(c, ctx, t.reason)
      BY <1>2, <1>4, <1>10, <2>1
    <3>. QED BY <3>1, TripsBacked DEF Backed
  <2>. QED BY <2>2, <2>3
<1>. QED BY <1>1, <1>7, <1>8, <1>9, <1>10

(* A state that begins a contract or ends the run outside the loop. *)
Fresh(t) ==
  /\ t.ctx = InitialCtx /\ t.tag # "AWAIT_SIGNOFF"
  /\ t.reason \notin {"crash", "unevaluable", "repeat"}
  /\ t.tag \notin TerminalTags => t.reason = "none"

(* It banks nothing. *)
LEMMA FreshOK ==
  ASSUME NEW c, NEW t, Fresh(t), NEW l, NEW i \in Nat
  PROVE  LoopOK(t) /\ Streaks(t.ctx, l, i) /\ Backed(c, t, l, i)
<1>1. /\ InitialCtx.verifierEvaluableHistory = << >> /\ IsSequence(<< >>)
      /\ Streaks(InitialCtx, l, i)
  BY EmptySequence, FreshStreaks DEF InitialCtx
<1>. QED BY <1>1 DEF Fresh, LoopOK, Backed

(* The steps around the loop lead to such states. *)
LEMMA StepFresh ==
  ASSUME NEW c, NEW s, NEW e, ReadingOK(e), e.tag \in EventsOf(s.tag),
         c.maxPlanRetries \in Nat, c.maxCompileRetries \in Nat, c.maxPlanRevisions \in Nat,
         c.maxSealRevisions \in Nat,
         s.reviseRound \in Nat, s.planRound \in Nat, s.compileRound \in Nat,
         s.tag \notin {"RUNNING_AGENT", "VERIFYING", "AWAIT_SIGNOFF"}
  PROVE  Fresh(Step(c, s, e))
<1>a. ASSUME NEW tag, NEW cmd, tag # "AWAIT_SIGNOFF",
             NEW t, t.tag = State(tag, cmd).tag, t.ctx = State(tag, cmd).ctx,
             t.reason = State(tag, cmd).reason
      PROVE  Fresh(t)
  BY <1>a DEF Fresh, State
<1>b. ASSUME NEW tag \in TerminalTags,
             NEW reason, reason \notin {"crash", "unevaluable", "repeat"}, NEW contract, NEW n
      PROVE  Fresh(Stopped(tag, reason, contract, n))
  BY <1>b DEF Fresh, Stopped, State, TerminalTags
<1>c. \A cmd, phase, n, k : Fresh(Compiling(cmd, phase, n, k))
  BY DEF Fresh, Compiling, State
<1>d. \A n, k : Fresh(Planning(n, k))
  BY DEF Fresh, Planning, State
<1>e. \A phase : Fresh(StartPhaseCompile(c, phase))
  <2> TAKE phase
  <2> DEFINE wave == PendingWaveAt(c, phase)
  <2>1. Fresh([State("RUNNING_WAVE", "RUN_WAVE") EXCEPT !.phase = phase, !.indices = wave])
    <3> HIDE DEF wave
    <3>. QED BY DEF Fresh, State
  <2> HIDE DEF wave
  <2>. QED BY <1>c, <2>1 DEF StartPhaseCompile, wave
<1>f. \A contract, phase : Fresh(StartIteration(c, contract, phase, InitialCtx))
  <2> TAKE contract, phase
  <2> DEFINE cmd == IF c.candidates > 1 THEN "RUN_AGENT_BEST_OF" ELSE "RUN_AGENT"
             t == StartIteration(c, contract, phase, InitialCtx)
  <2>1. t = [State("RUNNING_AGENT", cmd) EXCEPT !.contract = contract, !.phase = phase,
                                                !.ctx = InitialCtx]
    BY DEF StartIteration
  <2> HIDE DEF cmd, t
  <2>2. t.tag = "RUNNING_AGENT" /\ t.reason = "none" /\ t.ctx = InitialCtx
    BY <2>1 DEF State
  <2>. QED BY <2>2 DEF Fresh, t
<1>g. "ABORTED" \in TerminalTags /\ "FAILED" \in TerminalTags
  BY DEF TerminalTags
<1>1. CASE s.tag = "PLANNING"
  <2>1. e.tag \in {"PLAN_COMPILED", "PLAN_FAILED"}
    BY <1>1 DEF EventsOf
  <2>2. Fresh(StepPlanning(c, s, e))
    <3>1. CASE e.tag = "PLAN_COMPILED"
      <4>1. StepPlanning(c, s, e) =
              [State("AWAIT_PLAN_SEAL", "REQUEST_PLAN_SEAL") EXCEPT
                 !.reviseRound = s.reviseRound, !.phase = [NoPhase EXCEPT !.plan = e.plan]]
        BY <3>1 DEF StepPlanning
      <4>. QED BY <4>1 DEF Fresh, State
    <3>2. CASE e.tag = "PLAN_FAILED"
      BY <1>b, <1>d, <1>g, <3>2 DEF StepPlanning
    <3>. QED BY <2>1, <3>1, <3>2
  <2>. QED BY <1>1, <2>2 DEF Step
<1>2. CASE s.tag = "AWAIT_PLAN_SEAL"
  <2>1. e.decision \in {"approve", "reject", "revise"}
    BY <1>2 DEF EventsOf, ReadingOK
  <2>2. Fresh(StepAwaitPlanSeal(c, s, e))
    BY <1>b, <1>d, <1>e, <1>g, <2>1 DEF StepAwaitPlanSeal
  <2>. QED BY <1>2, <2>2 DEF Step
<1>3. CASE s.tag = "ADVANCING_PHASE"
  BY <1>3, <1>e DEF Step, StepAdvancingPhase
<1>4. CASE s.tag = "RUNNING_WAVE"
  BY <1>4, <1>e DEF Step, StepRunningWave
<1>5. CASE s.tag = "COMPILING"
  <2>1. e.tag \in {"CONTRACT_COMPILED", "COMPILE_FAILED"}
    BY <1>5 DEF EventsOf
  <2>2. Fresh(StepCompiling(c, s, e))
    <3>1. CASE e.tag = "CONTRACT_COMPILED"
      <4>1. StepCompiling(c, s, e) =
              [State("AWAIT_SEAL", "REQUEST_SEAL") EXCEPT
                 !.contract = e.contract, !.reviseRound = s.reviseRound, !.phase = s.phase]
        BY <3>1 DEF StepCompiling
      <4>. QED BY <4>1 DEF Fresh, State
    <3>2. CASE e.tag = "COMPILE_FAILED"
      BY <1>b, <1>c, <1>g, <3>2 DEF StepCompiling
    <3>. QED BY <2>1, <3>1, <3>2
  <2>. QED BY <1>5, <2>2 DEF Step
<1>6. CASE s.tag = "AWAIT_SEAL"
  <2>1. e.decision \in {"approve", "reject", "revise", "edited"}
    BY <1>6 DEF EventsOf, ReadingOK
  <2>2. Fresh(StepAwaitSeal(c, s, e))
    <3>1. Fresh([State("PREPARING", "PREPARE_WORKSPACE") EXCEPT
                   !.contract = s.contract, !.phase = s.phase])
      BY DEF Fresh, State
    <3>. QED BY <1>b, <1>c, <1>f, <1>g, <2>1, <3>1 DEF StepAwaitSeal
  <2>. QED BY <1>6, <2>2 DEF Step
<1>7. CASE s.tag = "PREPARING"
  <2>1. Fresh(StepPreparing(c, s, e))
    <3>1. e.prepared \notin {"crash", "unevaluable", "repeat"}
      BY <1>7 DEF EventsOf, ReadingOK
    <3>. QED BY <1>b, <1>f, <1>g, <3>1 DEF StepPreparing
  <2>. QED BY <1>7, <2>1 DEF Step
<1>8. CASE s.tag = "ADJUDICATING"
  BY <1>8, <1>b, <1>g DEF Step, StepAdjudicating
<1>9. s.tag \in {"PLANNING", "AWAIT_PLAN_SEAL", "ADVANCING_PHASE", "RUNNING_WAVE", "COMPILING",
                 "AWAIT_SEAL", "PREPARING", "RUNNING_AGENT", "VERIFYING", "AWAIT_SIGNOFF",
                 "ADJUDICATING"}
  BY DEF EventsOf
<1>. QED BY <1>1, <1>2, <1>3, <1>4, <1>5, <1>6, <1>7, <1>8, <1>9

(***************************************************************************)
(* Each step banks what its entry shows, and one that ends the run in a    *)
(* counted detector does so on a streak the log ends with.                 *)
(***************************************************************************)
LEMMA StepStreaks ==
  ASSUME NEW l, EntriesOK(l), NEW i \in 1 .. Len(l), NEW c, ConfigOK(c),
         NEW s, StateShape(c, s, i - 1), LoopOK(s), Streaks(s.ctx, l, i - 1),
         NEW e, SameTurn(l[i].event, e), ReadingOK(e), e.tag \in EventsOf(s.tag),
         NEW t, t = Step(c, s, e)
  PROVE  LoopOK(t) /\ Streaks(t.ctx, l, i) /\ Backed(c, t, l, i)
<1>1. /\ i \in Nat /\ i \in Nat \ {0} /\ i - 1 \in Nat /\ l[i].event.tag = e.tag
      /\ StateFields(s) /\ CtxFields(s.ctx) /\ HistoriesOK(s.ctx)
      /\ IsSequence(s.ctx.verifierEvaluableHistory)
  BY SequenceShape DEF EntriesOK, SameTurn, StateShape, LoopOK
<1>2. s.tag \notin TerminalTags /\ s.reason = "none"
  BY DEF EventsOf, TerminalTags, LoopOK
<1>3. CASE s.tag \notin {"RUNNING_AGENT", "VERIFYING", "AWAIT_SIGNOFF"}
  <2>1. Fresh(t)
    <3>1. /\ c.maxPlanRetries \in Nat /\ c.maxCompileRetries \in Nat
          /\ c.maxPlanRevisions \in Nat /\ c.maxSealRevisions \in Nat
      BY KnobTypes
    <3>2. s.reviseRound \in Nat /\ s.planRound \in Nat /\ s.compileRound \in Nat
      BY DEF StateShape
    <3>. QED BY <1>3, <3>1, <3>2, StepFresh
  <2>. QED BY <1>1, <2>1, FreshOK
<1>4. CASE s.tag = "RUNNING_AGENT"
  <2> DEFINE x == AfterTurn(s.ctx, e)
  <2>1. e.tag = "AGENT_RAN"
    BY <1>4 DEF EventsOf
  <2>2. Streaks(x, l, i)
    BY <1>1, <2>1, StreaksGrow
  <2>3. x.verifierEvaluableHistory = s.ctx.verifierEvaluableHistory
    BY <1>1 DEF AfterTurn, CtxFields
  <2>4. t = [s EXCEPT !.tag = "VERIFYING", !.cmd = "RUN_VERIFIER", !.ctx = x]
    BY <1>4 DEF Step, StepRunningAgent
  <2> HIDE DEF x
  <2>5. t.tag = "VERIFYING" /\ t.reason = s.reason /\ t.ctx = x
    BY <1>1, <2>4 DEF StateFields
  <2>. QED BY <1>1, <1>2, <2>2, <2>3, <2>5 DEF LoopOK, Backed
<1>5. CASE s.tag = "VERIFYING" /\ e.pass
  <2> DEFINE x == AfterGreen(s.ctx, e)
  <2>1. e.tag = "VERIFIED"
    BY <1>5 DEF EventsOf
  <2>2. Streaks(x, l, i)
    BY <1>1, <1>5, <2>1, StreaksGrow
  <2>3. /\ x.verifierEvaluableHistory = Append(s.ctx.verifierEvaluableHistory, TRUE)
        /\ x.verifierDetailHistory = << >>
    BY <1>1 DEF AfterGreen, CtxFields
  <2>4. t = [s EXCEPT !.tag = "AWAIT_SIGNOFF", !.cmd = "REQUEST_SIGNOFF", !.ctx = x]
    BY <1>5 DEF Step, StepVerifying
  <2> HIDE DEF x
  <2>5. t.tag = "AWAIT_SIGNOFF" /\ t.reason = s.reason /\ t.ctx = x
    BY <1>1, <2>4 DEF StateFields
  <2>6. IsSequence(x.verifierEvaluableHistory)
    <3>1. \A v : IsSequence(Append(s.ctx.verifierEvaluableHistory, v))
      BY <1>1, SequenceAppend
    <3>2. IsSequence(Append(s.ctx.verifierEvaluableHistory, TRUE))
      BY <3>1, Zenon
    <3>. QED BY <2>3, <3>2, Zenon
  <2>. QED BY <1>2, <2>2, <2>3, <2>5, <2>6 DEF LoopOK, Backed
<1>6. CASE s.tag = "VERIFYING" /\ ~e.pass
  <2> DEFINE x == AfterRed(s.ctx, e)
  <2>1. e.tag = "VERIFIED"
    BY <1>6 DEF EventsOf
  <2>2. Streaks(x, l, i)
    BY <1>1, <1>6, <2>1, StreaksGrow
  <2>3. /\ x.runStatusHistory = s.ctx.runStatusHistory
        /\ x.verifierDetailHistory = Append(s.ctx.verifierDetailHistory, NormalizeDetail(e.detail))
        /\ x.verifierEvaluableHistory = Append(s.ctx.verifierEvaluableHistory, e.evaluable)
        /\ x.iteration = s.ctx.iteration /\ x.remediations = s.ctx.remediations
        /\ CtxFields(x)
    BY <1>1 DEF AfterRed, CtxFields
  <2>4. t = ApplyDecision(c, s, x, Decide(c, s.contract, x, FALSE, "none"))
    BY <1>6 DEF Step, StepVerifying
  <2> HIDE DEF x
  <2>5. HistoriesOK(x) /\ IsSequence(x.verifierEvaluableHistory)
    BY <1>1, <2>3, SequenceAppend DEF HistoriesOK
  <2>. QED BY <1>1, <1>2, <2>2, <2>3, <2>4, <2>5, DecidedStreaks
<1>7. CASE s.tag = "AWAIT_SIGNOFF"
  <2> DEFINE x == [s.ctx EXCEPT !.lastBudget = e.budget]
  <2>1. e.tag = "SIGNOFF_DECIDED"
    BY <1>7 DEF EventsOf
  <2>2. /\ x.runStatusHistory = s.ctx.runStatusHistory
        /\ x.verifierDetailHistory = s.ctx.verifierDetailHistory
        /\ x.verifierEvaluableHistory = s.ctx.verifierEvaluableHistory
        /\ x.iteration = s.ctx.iteration /\ x.remediations = s.ctx.remediations
        /\ CtxFields(x)
    BY <1>1 DEF CtxFields
  <2>3. t = ApplyDecision(c, s, x, Decide(c, s.contract, x, x.lastVerdict = "pass", e.approval))
    BY <1>7 DEF Step, StepAwaitSignoff
  <2> HIDE DEF x
  <2>4. Streaks(x, l, i)
    BY <1>1, <2>1, <2>2, StreaksKept, SameStreaks
  <2>5. HistoriesOK(x) /\ IsSequence(x.verifierEvaluableHistory)
    BY <1>1, <2>2 DEF HistoriesOK
  <2>. QED BY <1>1, <1>2, <2>2, <2>3, <2>4, <2>5, DecidedStreaks
<1>. QED BY <1>3, <1>4, <1>5, <1>6, <1>7

(* A judged event is the event, but for a turn's reading of the meter. *)
LEMMA JudgedTurn ==
  ASSUME NEW c, NEW e, ReadingOK(e)
  PROVE  SameTurn(e, RejudgeBudget(c, e))
<1>1. CASE e.tag = "AGENT_RAN"
  <2>1. {"tag", "status", "prev", "hash", "budget"} \subseteq DOMAIN e
    BY <1>1 DEF ReadingOK
  <2>2. RejudgeBudget(c, e) = [e EXCEPT !.budget = e.spent >= c.tokens]
    BY <1>1 DEF RejudgeBudget
  <2>. QED BY <1>1, <2>1, <2>2 DEF SameTurn
<1>2. CASE e.tag # "AGENT_RAN"
  BY <1>2 DEF RejudgeBudget, SameTurn
<1>. QED BY <1>1, <1>2

(* What an entry of the fold banks. *)
LEMMA EntryStreaks ==
  ASSUME NEW c, ConfigOK(c), NEW l, EntriesOK(l), NEW i \in 1 .. Len(l),
         NEW eff, eff = ExtendedRunConfig(c, l),
         NEW s, s = Invalid \/ StateShape(eff, s, i - 1), LoopOK(s), Streaks(s.ctx, l, i - 1),
         NEW t, t = FoldEntry(c, l, i, s)
  PROVE  /\ LoopOK(t) /\ Streaks(t.ctx, l, i)
         /\ i \in Folded(l) => Backed(ConfigAt(c, eff, l, i), t, l, i)
<1> DEFINE e == l[i].event
           judged == IF BudgetExtended(l) THEN RejudgeBudget(eff, e) ELSE e
           d == ConfigAt(c, eff, l, i)
<1>1. /\ ConfigOK(eff) /\ Len(l) \in Nat /\ EventOK(e) /\ i - 1 \in Nat /\ i \in Nat \ {0}
      /\ DOMAIN l = 1 .. Len(l)
  BY EffectiveType, SequenceShape DEF EntriesOK
<1>2. CASE e.tag \in DriverOnlyTags
  <2>1. t = s /\ i \notin Folded(l) /\ e.tag \notin {"AGENT_RAN", "VERIFIED"}
    BY <1>2 DEF FoldEntry, Folded, DriverOnlyTags
  <2>. QED BY <1>1, <2>1, StreaksKept
<1>3. CASE e.tag \notin DriverOnlyTags
  <2>1. t = StepOrThrow(d, s, judged)
    BY <1>3 DEF FoldEntry
  <2>2. ReadingOK(judged) /\ judged.tag = e.tag /\ SameTurn(e, judged)
    <3>1. ReadingOK(e)
      BY <1>1, <1>3 DEF EventOK
    <3>. QED BY <1>1, <3>1, RejudgedOK, JudgedTurn DEF SameTurn
  <2>3. SameBut(eff, d) /\ ConfigOK(d)
    <3>1. SameBut(eff, d)
      BY ConfigAtShape
    <3>. QED BY <3>1 DEF SameBut
  <2> HIDE DEF d, judged
  <2>4. CASE judged.tag \notin EventsOf(s.tag)
    <3>1. t = Invalid
      BY <2>1, <2>4 DEF StepOrThrow
    <3>2. Fresh(t)
      BY <3>1 DEF Invalid, State, Fresh
    <3>. QED BY <1>1, <3>2, FreshOK DEF d
  <2>5. CASE judged.tag \in EventsOf(s.tag)
    <3>1. s # Invalid
      BY <2>5, InvalidTag
    <3>2. StateShape(d, s, i - 1)
      BY <2>3, <3>1, ShapeSame
    <3>3. t = Step(d, s, judged)
      BY <2>1, <2>5 DEF StepOrThrow
    <3>. QED BY <2>2, <2>3, <2>5, <3>2, <3>3, StepStreaks DEF d
  <2>. QED BY <2>4, <2>5
<1>. QED BY <1>2, <1>3

(* So every state of a fold banks no longer a streak than its prefix of the log. *)
LEMMA FoldStreaks ==
  ASSUME NEW c, ConfigOK(c), NEW l, EntriesOK(l)
  PROVE  \A i \in 0 .. Len(l) : LoopOK(Fold(c, l)[i]) /\ Streaks(Fold(c, l)[i].ctx, l, i)
<1> DEFINE f == Fold(c, l)
           n == Len(l)
           eff == ExtendedRunConfig(c, l)
           T == { i \in 0 .. n : LoopOK(f[i]) /\ Streaks(f[i].ctx, l, i) }
<1>1. n \in Nat /\ ConfigOK(eff)
  BY SequenceShape, EffectiveType DEF EntriesOK
<1>2. /\ f[0] = InitialState(eff)
      /\ \A i \in 1 .. n : f[i] = FoldEntry(c, l, i, f[i - 1])
  BY FoldRecurs DEF EntriesOK
<1>3. \A i \in 0 .. n : f[i] = Invalid \/ StateShape(eff, f[i], i)
  BY FoldShape
<1> HIDE DEF f
<1>4. 0 \in T
  <2>1. Fresh(f[0])
    BY <1>2 DEF InitialState, Fresh, State
  <2>2. LoopOK(f[0]) /\ Streaks(f[0].ctx, l, 0)
    BY <2>1, FreshOK
  <2>. QED BY <1>1, <2>2
<1>5. ASSUME NEW i \in 1 .. n, i - 1 \in T PROVE i \in T
  <2>1. i - 1 \in 0 .. n /\ LoopOK(f[i - 1]) /\ Streaks(f[i - 1].ctx, l, i - 1)
    BY <1>5
  <2>2. f[i - 1] = Invalid \/ StateShape(eff, f[i - 1], i - 1)
    BY <1>3, <2>1
  <2>3. f[i] = FoldEntry(c, l, i, f[i - 1])
    BY <1>2
  <2>4. LoopOK(f[i]) /\ Streaks(f[i].ctx, l, i)
    BY <2>1, <2>2, <2>3, EntryStreaks
  <2>. QED BY <1>1, <2>4
<1>6. 0 .. n \subseteq T
  <2> HIDE DEF T, n
  <2>. QED BY <1>1, <1>4, <1>5, PositionInduction
<1>. QED BY <1>6 DEF f, n

(***************************************************************************)
(* A log that folds into the end of a run by a counted detector ends with  *)
(* a streak as long as the threshold in force.                             *)
(***************************************************************************)
LEMMA ReplayBacked ==
  ASSUME NEW c, ConfigOK(c), NEW l, EntriesOK(l)
  PROVE  Backed(ExtendedRunConfig(c, l), Replay(c, l), l, Len(l))
<1> DEFINE eff == ExtendedRunConfig(c, l)
           r   == Replay(c, l)
           n   == Len(l)
<1>1. n \in Nat /\ DOMAIN l = 1 .. n /\ ConfigOK(eff)
  BY SequenceShape, EffectiveType DEF EntriesOK
<1>2. CASE Folded(l) = {}
  <2>1. r = InitialState(eff)
    BY <1>2, UnfoldedStart
  <2>2. Fresh(r)
    BY <2>1 DEF InitialState, Fresh, State
  <2>. QED BY <1>1, <2>2, FreshOK
<1>3. CASE Folded(l) # {}
  <2> DEFINE m == LastFoldedIndex(l)
             d == ConfigAt(c, eff, l, m)
             s == Fold(c, l)[m - 1]
  <2>1. m \in Folded(l) /\ m \in 1 .. n /\ \A j \in Folded(l) : j \in 1 .. n /\ j <= m
    BY <1>3, FoldedPositions
  <2>2. r = Fold(c, l)[m] /\ Fold(c, l)[m] = FoldEntry(c, l, m, s)
    BY <1>3, <2>1, TailFold, FoldRecurs DEF EntriesOK
  <2>3. m - 1 \in 0 .. n
    BY <1>1, <2>1
  <2>4. s = Invalid \/ StateShape(eff, s, m - 1)
    BY <2>3, FoldShape
  <2>5. LoopOK(s) /\ Streaks(s.ctx, l, m - 1)
    BY <2>3, FoldStreaks
  <2> HIDE DEF m, s, r
  <2>6. Backed(d, r, l, m)
    BY <2>1, <2>2, <2>4, <2>5, EntryStreaks
  <2>7. /\ d.harnessCrashThreshold = eff.harnessCrashThreshold
        /\ d.unevaluableThreshold = eff.unevaluableThreshold
        /\ d.repeatFailureThreshold = eff.repeatFailureThreshold
    <3>1. ~AdjudicationPrecursor(l, m)
      BY <2>1 DEF AdjudicationPrecursor
    <3>2. d = [k \in DOMAIN eff |->
                 IF k = "timeoutNoDiffThreshold" /\ m # LastFoldedIndex(l) THEN Len(l) + 1
                 ELSE IF k = "repeatFailureThreshold" /\ AdjudicationPrecursor(l, m)
                 THEN ExtendedRunConfig(c, SubSeq(l, 1, m)).repeatFailureThreshold
                 ELSE eff[k]]
      BY <2>1, ConfigAtShape
    <3>3. {"harnessCrashThreshold", "unevaluableThreshold", "repeatFailureThreshold"} \subseteq DOMAIN eff
      BY <1>1 DEF ConfigOK, Knobs
    <3> HIDE DEF d, eff
    <3>. QED BY <3>1, <3>2, <3>3
  <2>8. \A tag \in {"AGENT_RAN", "VERIFIED"} : \A G : Trailing(l, m, tag, G) = Trailing(l, n, tag, G)
    <3>1. \A j \in 1 .. n : j > m => l[j].event.tag \notin {"AGENT_RAN", "VERIFIED"}
      <4>1. \A j \in 1 .. n : j > m => j \notin Folded(l)
        BY <1>1, <2>1
      <4>. QED BY <1>1, <4>1 DEF Folded, DriverOnlyTags
    <3>. QED BY <1>1, <2>1, <3>1 DEF Trailing
  <2> HIDE DEF d, eff, n
  <2>. QED BY <2>6, <2>7, <2>8 DEF Backed, eff, r, n
<1>. QED BY <1>2, <1>3

-----------------------------------------------------------------------------
(* The fold of a log over its first marker. *)

(***************************************************************************)
(* In a log that folds, the state after an entry that is not the last one  *)
(* folded takes the next one that is.                                      *)
(***************************************************************************)
LEMMA NextFolded ==
  ASSUME NEW c, ConfigOK(c), NEW l, EntriesOK(l), Replay(c, l) # Invalid,
         NEW i \in Folded(l), i # LastFoldedIndex(l)
  PROVE  \E j \in Folded(l) : /\ i < j /\ \A k \in Folded(l) : ~(i < k /\ k < j)
                              /\ l[j].event.tag \in EventsOf(Fold(c, l)[i].tag)
<1> DEFINE f == Fold(c, l)
           n == Len(l)
           S == { k \in Folded(l) : i < k }
           eff == ExtendedRunConfig(c, l)
<1>1. n \in Nat /\ DOMAIN l = 1 .. n /\ i \in 1 .. n
  BY SequenceShape DEF EntriesOK, Folded
<1>2. /\ LastFoldedIndex(l) \in Folded(l)
      /\ \A k \in Folded(l) : k \in 1 .. n /\ k <= LastFoldedIndex(l)
  BY FoldedPositions
<1>3. LastFoldedIndex(l) \in S /\ S \subseteq Nat
  <2> DEFINE m == LastFoldedIndex(l)
  <2>1. m \in Folded(l) /\ m \in 1 .. n /\ i <= m /\ i # m
    BY <1>2
  <2> HIDE DEF m, n
  <2>2. i < m
    BY <1>1, <2>1
  <2>3. S \subseteq Nat
    <3>1. ASSUME NEW k \in S PROVE k \in Nat
      <4>1. k \in 1 .. n
        BY <1>2
      <4>. QED BY <1>1, <4>1
    <3>. QED BY <3>1
  <2>. QED BY <2>1, <2>2, <2>3 DEF m
<1>4. PICK j \in S : \A k \in S : j <= k
  <2> HIDE DEF S
  <2>. QED BY <1>3, LeastNat
<1>5. j \in Folded(l) /\ i < j /\ j \in 1 .. n
  BY <1>2, <1>4
<1>6. \A k \in Folded(l) : ~(i < k /\ k < j)
  BY <1>2, <1>4, <1>5
<1>7. \A k \in 1 .. n : f[k] = FoldEntry(c, l, k, f[k - 1])
  BY FoldRecurs DEF EntriesOK
<1>8. \A k \in 0 .. n : f[k] # Invalid
  BY FoldShape
<1> HIDE DEF f, n
<1>9. f[j - 1] = f[i]
  <2> DEFINE T == { k \in 0 .. (j - 1) : k <= i \/ f[k] = f[i] }
  <2>1. j - 1 \in Nat /\ 0 \in T
    BY <1>1, <1>5
  <2>2. ASSUME NEW k \in 1 .. (j - 1), k - 1 \in T PROVE k \in T
    <3>1. CASE k <= i
      BY <3>1, <2>1
    <3>2. CASE k > i
      <4>1. k \in 1 .. n /\ k \notin Folded(l)
        BY <1>1, <1>5, <1>6, <3>2
      <4>2. f[k] = f[k - 1]
        BY <1>1, <1>7, <4>1 DEF FoldEntry, Folded
      <4>3. f[k - 1] = f[i]
        <5>1. CASE k - 1 = i
          BY <5>1
        <5>2. CASE k - 1 # i
          BY <1>1, <2>2, <3>2, <5>2
        <5>. QED BY <5>1, <5>2
      <4>. QED BY <2>1, <4>2, <4>3
    <3>. QED BY <1>1, <3>1, <3>2
  <2>3. 0 .. (j - 1) \subseteq T
    <3> HIDE DEF T
    <3>. QED BY <2>1, <2>2, PositionInduction
  <2>4. j - 1 \in T
    BY <2>1, <2>3
  <2>. QED BY <1>1, <1>5, <2>4
<1>10. l[j].event.tag \in EventsOf(f[j - 1].tag)
  <2> DEFINE e == l[j].event
             judged == IF BudgetExtended(l) THEN RejudgeBudget(eff, e) ELSE e
             d == ConfigAt(c, eff, l, j)
  <2>1. ReadingOK(e) /\ e.tag \notin DriverOnlyTags /\ ConfigOK(eff)
    BY <1>1, <1>5, EffectiveType DEF EntriesOK, EventOK, Folded
  <2>2. judged.tag = e.tag
    BY <2>1, RejudgedOK
  <2>3. f[j] = StepOrThrow(d, f[j - 1], judged)
    BY <1>5, <1>7, <2>1 DEF FoldEntry
  <2>4. f[j] # Invalid
    BY <1>1, <1>5, <1>8
  <2> HIDE DEF judged, d
  <2>. QED BY <2>2, <2>3, <2>4 DEF StepOrThrow
<1>. QED BY <1>5, <1>6, <1>9, <1>10 DEF f

(***************************************************************************)
(* A prefix of a log without markers is without: what is in force in it is *)
(* the header's configuration.                                             *)
(***************************************************************************)
LEMMA UnmarkedPrefix ==
  ASSUME NEW c, NEW l, EntriesOK(l), Markers(l) = {}, NEW x, NEW i \in 1 .. Len(l)
  PROVE  /\ ExtendedRunConfig(c, l) = c /\ ~BudgetExtended(l)
         /\ ExtendedRunConfig(c, SubSeq(l, 1, i)) = c
         /\ ExtendedRunConfig(c, SubSeq(Append(l, x), 1, i)) = c
<1> DEFINE p == SubSeq(l, 1, i)
<1>1. Len(l) \in Nat /\ DOMAIN l = 1 .. Len(l)
  BY SequenceShape DEF EntriesOK
<1>2. DOMAIN p = 1 .. i /\ \A j \in 1 .. i : p[j] = l[j]
  BY <1>1
<1>3. SubSeq(Append(l, x), 1, i) = p
  BY <1>1, AppendPrefix
<1> HIDE DEF p
<1>4. Markers(p) = {}
  BY <1>1, <1>2 DEF Markers
<1>. QED BY <1>3, <1>4 DEF ExtendedRunConfig, BudgetExtended, p

(* Configurations the entry at i is folded with, cl before a marker and cg after. *)
InStep(l, i, c, d, cl, cg) ==
  /\ Further(cl, cg) /\ SameBut(c, cl) /\ SameBut(d, cg)
  /\ cl.timeoutNoDiffThreshold > i - 1 /\ cg.timeoutNoDiffThreshold > i - 1
  /\ AdjudicationPrecursor(l, i) => cl.repeatFailureThreshold = cg.repeatFailureThreshold

(* What an entry but the last is folded with, before and after a first marker. *)
LEMMA FurtherAt ==
  ASSUME NEW c, ConfigOK(c), NEW l, EntriesOK(l), Markers(l) = {},
         NEW x, EventOK(x.event), x.event.tag = "RUN_EXTENDED",
         NEW g, g = Append(l, x), NEW d, d = ExtendedRunConfig(c, g), Further(c, d),
         NEW i \in Folded(l), i # LastFoldedIndex(l),
         NEW cl, cl = ConfigAt(c, c, l, i), NEW cg, cg = ConfigAt(c, d, g, i)
  PROVE  InStep(l, i, c, d, cl, cg)
<1>1. /\ EntriesOK(g) /\ Len(l) \in Nat /\ DOMAIN l = 1 .. Len(l) /\ Len(g) = Len(l) + 1
      /\ i \in 1 .. Len(l) /\ i \in 1 .. Len(g)
  BY AppendEntry DEF Folded
<1>2. /\ ExtendedRunConfig(c, l) = c /\ ExtendedRunConfig(c, SubSeq(l, 1, i)) = c
      /\ ExtendedRunConfig(c, SubSeq(g, 1, i)) = c
  BY <1>1, UnmarkedPrefix
<1>3. LastFoldedIndex(g) = LastFoldedIndex(l)
  BY AppendFolded DEF DriverOnlyTags
<1>4. AdjudicationPrecursor(g, i) <=> AdjudicationPrecursor(l, i)
  BY AppendPrecursor
<1>5. /\ SameBut(c, cl)
      /\ cl = [k \in DOMAIN c |->
                 IF k = "timeoutNoDiffThreshold" THEN Len(l) + 1
                 ELSE IF k = "repeatFailureThreshold" /\ AdjudicationPrecursor(l, i)
                 THEN c.repeatFailureThreshold ELSE c[k]]
  BY <1>1, <1>2, ConfigAtShape
<1>6. /\ SameBut(d, cg) /\ DOMAIN cg = DOMAIN d
      /\ \A k \in DOMAIN d :
           cg[k] = IF k = "timeoutNoDiffThreshold" THEN Len(g) + 1
                   ELSE IF k = "repeatFailureThreshold" /\ AdjudicationPrecursor(l, i)
                   THEN c.repeatFailureThreshold ELSE d[k]
  <2>1. ASSUME NEW u, EntriesOK(u), i \in 1 .. Len(u), d = ExtendedRunConfig(c, u),
               cg = ConfigAt(c, d, u, i)
        PROVE  /\ SameBut(d, cg) /\ DOMAIN cg = DOMAIN d
               /\ \A k \in DOMAIN d :
                    cg[k] = IF k = "timeoutNoDiffThreshold" /\ i # LastFoldedIndex(u) THEN Len(u) + 1
                            ELSE IF k = "repeatFailureThreshold" /\ AdjudicationPrecursor(u, i)
                            THEN ExtendedRunConfig(c, SubSeq(u, 1, i)).repeatFailureThreshold
                            ELSE d[k]
    <3>1. /\ SameBut(d, cg)
          /\ cg = [k \in DOMAIN d |->
                     IF k = "timeoutNoDiffThreshold" /\ i # LastFoldedIndex(u) THEN Len(u) + 1
                     ELSE IF k = "repeatFailureThreshold" /\ AdjudicationPrecursor(u, i)
                     THEN ExtendedRunConfig(c, SubSeq(u, 1, i)).repeatFailureThreshold
                     ELSE d[k]]
      BY <2>1, ConfigAtShape
    <3>. QED BY <3>1
  <2>2. i # LastFoldedIndex(g)
    BY <1>3
  <2>. QED BY <1>1, <1>2, <1>4, <2>1, <2>2
<1>7. ConfigOK(cl) /\ ConfigOK(cg) /\ DOMAIN c = DOMAIN Knobs /\ DOMAIN d = DOMAIN Knobs
  BY <1>5, <1>6 DEF SameBut, Further, ConfigOK
<1>8. /\ "timeoutNoDiffThreshold" \in DOMAIN Knobs /\ "repeatFailureThreshold" \in DOMAIN Knobs
      /\ "timeoutNoDiffThreshold" \in Extendable /\ "repeatFailureThreshold" \in Extendable
      /\ {"maxIterations", "harnessCrashThreshold", "unevaluableThreshold", "noDiff",
          "oscillation", "autoRemediate"} \subseteq DOMAIN Knobs
  BY DEF Knobs, Extendable
<1>9. /\ cl.timeoutNoDiffThreshold = Len(l) + 1 /\ cg.timeoutNoDiffThreshold = Len(g) + 1
      /\ cl.repeatFailureThreshold = c.repeatFailureThreshold
      /\ cg.repeatFailureThreshold = IF AdjudicationPrecursor(l, i) THEN c.repeatFailureThreshold
                                     ELSE d.repeatFailureThreshold
      /\ \A k \in DOMAIN Knobs \ {"timeoutNoDiffThreshold", "repeatFailureThreshold"} :
           cl[k] = c[k] /\ cg[k] = d[k]
  BY <1>5, <1>6, <1>7, <1>8
<1>10. c.repeatFailureThreshold \in Nat
  BY KnobTypes
<1>11. Further(cl, cg)
  <2>1. \A k \in DOMAIN Knobs \ Extendable : cl[k] = cg[k]
    BY <1>8, <1>9 DEF Further
  <2>2. ~cl.autoRemediate
    BY <1>8, <1>9 DEF Further
  <2>3. \A k \in {"maxIterations", "repeatFailureThreshold", "harnessCrashThreshold",
                  "unevaluableThreshold"} : cg[k] >= cl[k]
    BY <1>8, <1>9, <1>10 DEF Further, Furthers
  <2>4. /\ cg.noDiff => cl.noDiff
        /\ cg.oscillation => cl.oscillation
        /\ cg.noDiff = cl.noDiff \/ ~cg.oscillation
    BY <1>8, <1>9 DEF Further, Furthers
  <2>. QED BY <1>7, <2>1, <2>2, <2>3, <2>4 DEF Further, Furthers
<1>12. Len(l) + 1 > i - 1 /\ Len(g) + 1 > i - 1
  BY <1>1
<1>. QED BY <1>5, <1>6, <1>9, <1>11, <1>12 DEF InStep

(* The fold over a first marker keeps step with the one before it. *)
LEMMA EntryFurther ==
  ASSUME NEW c, ConfigOK(c), NEW l, EntriesOK(l), Markers(l) = {}, Replay(c, l) # Invalid,
         NEW x, EventOK(x.event), x.event.tag = "RUN_EXTENDED",
         NEW g, g = Append(l, x), NEW d, d = ExtendedRunConfig(c, g), Further(c, d),
         NEW i \in Folded(l), i # LastFoldedIndex(l),
         Alike(Fold(c, l)[i - 1], Fold(c, g)[i - 1])
  PROVE  Alike(Fold(c, l)[i], Fold(c, g)[i])
<1> DEFINE cl == ConfigAt(c, c, l, i)
           cg == ConfigAt(c, d, g, i)
           e == l[i].event
           judged == IF BudgetExtended(g) THEN RejudgeBudget(d, e) ELSE e
           s == Fold(c, l)[i - 1]
           t == Fold(c, g)[i - 1]
<1>1. /\ EntriesOK(g) /\ Len(l) \in Nat /\ DOMAIN l = 1 .. Len(l) /\ Len(g) = Len(l) + 1
      /\ g[i] = l[i] /\ i \in 1 .. Len(l) /\ i \in 1 .. Len(g)
  BY AppendEntry DEF Folded
<1>2. i - 1 \in Nat /\ i - 1 \in 0 .. Len(l) /\ i - 1 \in 0 .. Len(g) /\ i \in 0 .. Len(l)
  BY <1>1
<1>3. /\ ReadingOK(e) /\ e.tag \notin DriverOnlyTags /\ ConfigOK(d)
      /\ ExtendedRunConfig(c, l) = c /\ ~BudgetExtended(l)
  BY <1>1, UnmarkedPrefix DEF EntriesOK, EventOK, Folded, Further
<1>4. judged.tag = e.tag /\ SameTurn(e, judged)
  BY <1>3, RejudgedOK, JudgedTurn DEF SameTurn
<1>5. /\ Fold(c, l)[i] = FoldEntry(c, l, i, s) /\ Fold(c, g)[i] = FoldEntry(c, g, i, t)
  BY <1>1, FoldRecurs DEF EntriesOK
<1>6. Fold(c, l)[i] = StepOrThrow(cl, s, e)
  BY <1>3, <1>5 DEF FoldEntry
<1>7. Fold(c, g)[i] = StepOrThrow(cg, t, judged)
  BY <1>1, <1>3, <1>5 DEF FoldEntry
<1>8. /\ s # Invalid /\ Fold(c, l)[i] # Invalid /\ StateShape(c, s, i - 1)
      /\ LoopOK(s)
  BY <1>2, <1>3, FoldShape, FoldStreaks
<1>9. t = Invalid \/ StateShape(d, t, i - 1)
  BY <1>1, <1>2, FoldShape
<1>10. /\ Further(cl, cg) /\ SameBut(c, cl) /\ SameBut(d, cg)
       /\ cl.timeoutNoDiffThreshold > i - 1 /\ cg.timeoutNoDiffThreshold > i - 1
       /\ AdjudicationPrecursor(l, i) => cl.repeatFailureThreshold = cg.repeatFailureThreshold
  <2>1. cl = ConfigAt(c, c, l, i) /\ cg = ConfigAt(c, d, g, i)
    OBVIOUS
  <2> HIDE DEF cl, cg
  <2>2. InStep(l, i, c, d, cl, cg)
    BY <2>1, FurtherAt
  <2>. QED BY <2>2 DEF InStep
<1>11. PICK j \in Folded(l) : /\ i < j /\ \A k \in Folded(l) : ~(i < k /\ k < j)
                              /\ l[j].event.tag \in EventsOf(Fold(c, l)[i].tag)
  BY NextFolded
<1>12. /\ Fold(c, l)[i].tag \notin {"FAILED", "ABORTED"}
       /\ Fold(c, l)[i].tag = "ADJUDICATING" => AdjudicationPrecursor(l, i)
  BY <1>11 DEF EventsOf, AdjudicationPrecursor
<1> HIDE DEF cl, cg, judged
<1>13. e.tag \in EventsOf(s.tag) /\ Fold(c, l)[i] = Step(cl, s, e)
  BY <1>6, <1>8 DEF StepOrThrow
<1>14. s.tag = t.tag
  BY DEF Alike
<1>15. t # Invalid
  BY <1>13, <1>14, InvalidTag
<1>16. Fold(c, g)[i] = Step(cg, t, judged)
  BY <1>4, <1>7, <1>13, <1>14 DEF StepOrThrow
<1>17. StateShape(cl, s, i - 1) /\ StateShape(cg, t, i - 1)
  BY <1>8, <1>9, <1>10, <1>15, ShapeSame
<1> HIDE DEF s, t, e
<1>18. Alike(s, t)
  BY DEF s, t
<1>19. Step(cl, s, e).tag = "ADJUDICATING" => cg.repeatFailureThreshold = cl.repeatFailureThreshold
  BY <1>10, <1>12, <1>13
<1>20. Step(cl, s, e).tag \notin {"FAILED", "ABORTED"}
  BY <1>12, <1>13
<1>21. Alike(Step(cl, s, e), Step(cg, t, judged))
  BY <1>2, <1>3, <1>4, <1>8, <1>10, <1>13, <1>17, <1>18, <1>19, <1>20, StepFurther DEF s, t, e
<1>. QED BY <1>13, <1>16, <1>21

(***************************************************************************)
(* A log that folds still folds once its first marker lets the run go      *)
(* further: every decision it has an outcome of is made again.             *)
(***************************************************************************)
LEMMA FoldFurther ==
  ASSUME NEW c, ConfigOK(c), NEW l, EntriesOK(l), Markers(l) = {}, Replay(c, l) # Invalid,
         NEW x, EventOK(x.event), x.event.tag = "RUN_EXTENDED",
         NEW g, g = Append(l, x), Further(c, ExtendedRunConfig(c, g))
  PROVE  Replay(c, g) # Invalid
<1> DEFINE d == ExtendedRunConfig(c, g)
           n == Len(l)
           f == Fold(c, l)
           h == Fold(c, g)
           m == LastFoldedIndex(l)
<1>1. /\ EntriesOK(g) /\ n \in Nat /\ DOMAIN l = 1 .. n /\ Len(g) = n + 1
      /\ \A i \in 1 .. n : g[i] = l[i]
  BY AppendEntry
<1>2. ConfigOK(d) /\ d.phased = c.phased
  BY FurtherKnobs DEF Further
<1>3. Folded(g) = Folded(l) /\ LastFoldedIndex(g) = m
  BY AppendFolded DEF DriverOnlyTags
<1>4. CASE Folded(l) = {}
  <2>1. Replay(c, g) = InitialState(d)
    BY <1>1, <1>3, <1>4, UnfoldedStart
  <2>. QED BY <1>2, <2>1, InitialShape, ShapeValid
<1>5. CASE Folded(l) # {}
  <2>1. m \in Folded(l) /\ m \in 1 .. n /\ \A i \in Folded(l) : i \in 1 .. n /\ i <= m
    BY <1>5, FoldedPositions
  <2>2. ExtendedRunConfig(c, l) = c /\ ~BudgetExtended(l)
    BY <2>1, UnmarkedPrefix
  <2>3. /\ f[0] = InitialState(c) /\ h[0] = InitialState(d)
        /\ \A i \in 1 .. n : f[i] = FoldEntry(c, l, i, f[i - 1])
        /\ \A i \in 1 .. n : h[i] = FoldEntry(c, g, i, h[i - 1])
    <3>1. IsSequence(l) /\ IsSequence(g)
      BY <1>1 DEF EntriesOK
    <3>2. f[0] = InitialState(c) /\ \A i \in 1 .. n : f[i] = FoldEntry(c, l, i, f[i - 1])
      BY <2>2, <3>1, FoldRecurs
    <3>3. h[0] = InitialState(d) /\ \A i \in 1 .. Len(g) : h[i] = FoldEntry(c, g, i, h[i - 1])
      BY <3>1, FoldRecurs
    <3>4. 1 .. n \subseteq 1 .. Len(g)
      BY <1>1
    <3>. QED BY <3>2, <3>3, <3>4
  <2> DEFINE T == { i \in 0 .. n : i < m => Alike(f[i], h[i]) }
  <2>4. 0 \in T
    <3>1. InitialState(c) = InitialState(d)
      BY <1>2 DEF InitialState
    <3>2. Alike(f[0], h[0])
      BY <2>3, <3>1 DEF Alike, AlikeCtx
    <3>. QED BY <1>1, <3>2
  <2>5. ASSUME NEW i \in 1 .. n, i - 1 \in T PROVE i \in T
    <3>1. SUFFICES ASSUME i < m PROVE Alike(f[i], h[i])
      BY <1>1
    <3>2. Alike(f[i - 1], h[i - 1])
      BY <1>1, <2>1, <2>5, <3>1
    <3>3. CASE i \in Folded(l)
      <4> HIDE DEF T
      <4>1. i # LastFoldedIndex(l)
        BY <1>1, <2>1, <3>1
      <4>. QED BY <3>2, <3>3, <4>1, EntryFurther
    <3>4. CASE i \notin Folded(l)
      <4>1. l[i].event.tag \in DriverOnlyTags /\ g[i] = l[i]
        BY <1>1, <3>4 DEF Folded
      <4>2. f[i] = f[i - 1] /\ h[i] = h[i - 1]
        BY <2>3, <4>1 DEF FoldEntry
      <4>. QED BY <3>2, <4>2
    <3>. QED BY <3>3, <3>4
  <2>6. 0 .. n \subseteq T
    <3> HIDE DEF T, n
    <3>. QED BY <1>1, <2>4, <2>5, PositionInduction
  <2>7. Alike(f[m - 1], h[m - 1])
    BY <1>1, <2>1, <2>6
  <2> HIDE DEF T
  <2> DEFINE e == l[m].event
             judged == IF BudgetExtended(g) THEN RejudgeBudget(d, e) ELSE e
             cl == ConfigAt(c, c, l, m)
             cg == ConfigAt(c, d, g, m)
             s == f[m - 1]
             t == h[m - 1]
  <2>8. ReadingOK(e) /\ e.tag \notin DriverOnlyTags /\ g[m] = l[m]
    BY <1>1, <2>1 DEF EntriesOK, EventOK, Folded
  <2>9. judged.tag = e.tag /\ ReadingOK(judged)
    BY <1>2, <2>8, RejudgedOK
  <2>10. f[m] = StepOrThrow(cl, s, e) /\ h[m] = StepOrThrow(cg, t, judged)
    BY <2>1, <2>2, <2>3, <2>8 DEF FoldEntry
  <2>11. Replay(c, l) = f[m] /\ Replay(c, g) = h[m]
    BY <1>1, <1>3, <1>5, TailFold
  <2>12. m - 1 \in 0 .. n /\ m - 1 \in 0 .. Len(g) /\ m \in 1 .. Len(g) /\ m - 1 \in Nat
    BY <1>1, <2>1
  <2>13. t = Invalid \/ StateShape(d, t, m - 1)
    BY <1>1, <2>12, FoldShape
  <2>14. SameBut(d, cg)
    BY <1>1, <2>12, ConfigAtShape
  <2> HIDE DEF f, h, m, n, e, judged, cl, cg, s, t
  <2>15. e.tag \in EventsOf(s.tag)
    BY <2>10, <2>11 DEF StepOrThrow
  <2>16. judged.tag \in EventsOf(t.tag)
    BY <2>7, <2>9, <2>15 DEF Alike, s, t
  <2>17. t # Invalid
    BY <2>16, InvalidTag
  <2>18. StateShape(cg, t, m - 1) /\ ConfigOK(cg)
    BY <2>13, <2>14, <2>17, ShapeSame DEF SameBut
  <2>19. h[m] = Step(cg, t, judged)
    BY <2>10, <2>16 DEF StepOrThrow
  <2>20. StateShape(cg, Step(cg, t, judged), (m - 1) + 1)
    BY <2>9, <2>12, <2>16, <2>18, StepShape
  <2>. QED BY <2>11, <2>19, <2>20, ShapeValid
<1>. QED BY <1>4, <1>5
=============================================================================
