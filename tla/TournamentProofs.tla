-------------------------- MODULE TournamentProofs ---------------------------
(***************************************************************************)
(* Theorems about Tournament.                                              *)
(***************************************************************************)
EXTENDS Tournament, ReplayProofs

-----------------------------------------------------------------------------
(* The ranking. *)

(* A candidate as the proofs need it. *)
CandidateOK(c) ==
  /\ c.index \in Indices /\ c.depth \in Nat /\ (c.cost = Unmetered \/ c.cost \in Nat)
  /\ c.status \in RunStatuses

(* No two of them have one index. *)
Distinct(S) == \A a, b \in S : a.index = b.index => a = b

(* Indices are numbers, finitely many, and there is one. *)
LEMMA IndicesAreFew ==
  ASSUME ConfigOK(config)
  PROVE  Indices \subseteq Int /\ IsFiniteSet(Indices) /\ 0 \in Indices
<1>1. config.candidates \in Nat \ {0}
  BY DEF ConfigOK, Knobs
<1>2. config.candidates - 1 \in Int /\ 0 <= config.candidates - 1
  BY <1>1
<1>. QED BY <1>2, FS_Interval DEF Indices

(* Candidates with an index each are as many as their indices. *)
LEMMA DistinctAreCounted ==
  ASSUME ConfigOK(config), NEW F, Distinct(F), \A c \in F : c.index \in Indices
  PROVE  IsFiniteSet(F) /\ Cardinality(F) = Cardinality(IndicesOf(F))
<1> DEFINE f == [c \in F |-> c.index]
<1>1. f \in Injection(F, Indices)
  BY DEF Distinct, Injection, IsInjective
<1>2. IsFiniteSet(F)
  BY <1>1, IndicesAreFew, FS_Injection
<1>3. f \in Bijection(F, IndicesOf(F))
  <2>1. f \in [F -> IndicesOf(F)]
    BY DEF IndicesOf
  <2>2. \A t \in IndicesOf(F) : \E c \in F : f[c] = t
    BY DEF IndicesOf
  <2>3. \A a, b \in F : f[a] = f[b] => a = b
    BY DEF Distinct
  <2> HIDE DEF f
  <2>. QED BY <2>1, <2>2, <2>3 DEF Bijection, Injection, Surjection, IsInjective
<1>4. ExistsBijection(F, IndicesOf(F))
  BY <1>3 DEF ExistsBijection
<1>. QED BY <1>2, <1>4, FS_Bijection

(* Of two candidates one beats the other, and beating is transitive. *)
LEMMA BeatsIsAnOrder ==
  ASSUME ConfigOK(config), NEW a, NEW b, NEW c, CandidateOK(a), CandidateOK(b), CandidateOK(c)
  PROVE  /\ ~Beats(a, a)
         /\ a.index # b.index => Beats(a, b) \/ Beats(b, a)
         /\ Beats(a, b) /\ Beats(b, c) => Beats(a, c)
<1>1. a.index \in Int /\ b.index \in Int /\ c.index \in Int
  BY IndicesAreFew DEF CandidateOK
<1>2. /\ a.depth \in Nat /\ b.depth \in Nat /\ c.depth \in Nat
      /\ a.cost = Unmetered \/ a.cost \in Nat
      /\ b.cost = Unmetered \/ b.cost \in Nat
      /\ c.cost = Unmetered \/ c.cost \in Nat
  BY DEF CandidateOK
<1>. QED BY <1>1, <1>2 DEF Beats, Cheaper

(***************************************************************************)
(* The winner beats every other candidate: those who beat a candidate are  *)
(* fewer than those who beat one it beats, so some candidate is beaten by  *)
(* none.                                                                   *)
(***************************************************************************)
LEMMA WinnerBeats ==
  ASSUME ConfigOK(config), NEW F, F # {}, Distinct(F), \A c \in F : CandidateOK(c)
  PROVE  /\ SelectWinner(F) \in F
         /\ \A b \in F \ {SelectWinner(F)} : Beats(SelectWinner(F), b)
<1> DEFINE Above(c) == { b \in F : Beats(b, c) }
           T        == { Above(c) : c \in F }
<1>1. IsFiniteSet(F)
  BY DistinctAreCounted DEF CandidateOK
<1>2. T \subseteq FiniteSubsetsOf(F) /\ T # {}
  <2>1. ASSUME NEW c \in F PROVE Above(c) \in SUBSET F /\ IsFiniteSet(Above(c))
    BY <1>1, FS_Subset
  <2>. QED BY <2>1 DEF FiniteSubsetsOf
<1>3. PICK a \in F : \A b \in F : ~ (<<Above(b), Above(a)>> \in StrictSubsetOrdering(F))
  <2>1. \E U \in T : \A V \in T : ~ (<<V, U>> \in StrictSubsetOrdering(F))
    <3> HIDE DEF T
    <3>. QED BY <1>2, FS_StrictSubsetOrderingWellFounded, WFMin
  <2>. QED BY <2>1
<1>4. ASSUME NEW b \in F, Beats(b, a) PROVE FALSE
  <2>1. b \in Above(a) /\ b \notin Above(b)
    BY <1>4, BeatsIsAnOrder
  <2>2. ASSUME NEW c \in Above(b) PROVE c \in Above(a)
    BY <1>4, BeatsIsAnOrder
  <2>3. Above(b) \in SUBSET F /\ Above(a) \in SUBSET F
    OBVIOUS
  <2> HIDE DEF Above
  <2>. QED BY <1>3, <2>1, <2>2, <2>3 DEF StrictSubsetOrdering
<1>5. \A b \in F \ {a} : Beats(a, b)
  <2>1. ASSUME NEW b \in F \ {a} PROVE Beats(a, b)
    <3>1. a.index # b.index
      BY DEF Distinct
    <3>. QED BY <1>4, <3>1, BeatsIsAnOrder
  <2>. QED BY <2>1
<1>. QED BY <1>5 DEF SelectWinner

-----------------------------------------------------------------------------
(* The log. *)

(* What the log folds to. *)
Reached == Replay(config, log)

(* The iteration under way, and the last turn that is over. *)
Iteration == Reached.ctx.iteration + 1

Current == Max({0} \cup At("AGENT_RAN"))

LastEvent == log[Len(log)].event

(* The entries are the machine's own, and they fold. *)
LogOK ==
  /\ [config |-> config, world |-> world] \in Scenarios
  /\ processes \in 0 .. world.processes
  /\ EntriesOK(log) /\ Markers(log) = {} /\ Reached # Invalid
  /\ \A i \in At("CANDIDATE_RAN") : CandidateOK(log[i].event.candidate)

(* What the machine is configured with is what is assumed of a scenario. *)
LEMMA ScenarioShape ==
  ASSUME LogOK
  PROVE  /\ ConfigOK(config) /\ world.processes \in Nat \ {0}
         /\ \A r \in world.results : ResultOK(r)
         /\ world.statuses \subseteq RunStatuses /\ world.depths \subseteq Nat
         /\ world.costs \ {Unmetered} \subseteq Nat
<1> DEFINE s == [config |-> config, world |-> world]
<1>1. s \in Scenarios /\ s.config = config /\ s.world = world
  BY DEF LogOK
<1> HIDE DEF s
<1>. QED BY <1>1, TournamentAssumption

(* Positions of a log, and the ones with a tag. *)
LEMMA LogShape ==
  ASSUME LogOK
  PROVE  /\ Len(log) \in Nat /\ DOMAIN log = 1 .. Len(log)
         /\ \A tag : At(tag) \subseteq 1 .. Len(log)
         /\ \A tag, i : i \in At(tag) <=> i \in 1 .. Len(log) /\ log[i].event.tag = tag
<1>1. Len(log) \in Nat /\ DOMAIN log = 1 .. Len(log)
  BY SequenceShape DEF LogOK, EntriesOK
<1>. QED BY <1>1 DEF At

(* The last turn that is over, and where an entry's turn began, are positions. *)
LEMMA TurnsBegin ==
  ASSUME LogOK
  PROVE  /\ Current \in {0} \cup At("AGENT_RAN") /\ \A j \in At("AGENT_RAN") : j <= Current
         /\ \A i \in 1 .. Len(log) :
              /\ TurnBegins(i) \in {0} \cup At("AGENT_RAN") /\ TurnBegins(i) < i
              /\ TurnBegins(i) <= Current
<1>1. Len(log) \in Nat /\ At("AGENT_RAN") \subseteq 1 .. Len(log)
  BY LogShape
<1>2. /\ Current \in {0} \cup At("AGENT_RAN")
      /\ \A x \in {0} \cup At("AGENT_RAN") : x <= Current
  <2>1. {0} \cup At("AGENT_RAN") \subseteq 0 .. Len(log) /\ {0} \cup At("AGENT_RAN") # {}
    BY <1>1
  <2>. QED BY <1>1, <2>1, MaxOfPositions DEF Current
<1>3. ASSUME NEW i \in 1 .. Len(log)
      PROVE  /\ TurnBegins(i) \in {0} \cup At("AGENT_RAN") /\ TurnBegins(i) < i
             /\ TurnBegins(i) <= Current
  <2> DEFINE S == {0} \cup { j \in At("AGENT_RAN") : j < i }
  <2>1. S \subseteq 0 .. Len(log) /\ S # {}
    BY <1>1
  <2>2. Max(S) \in S
    BY <1>1, <2>1, MaxOfPositions
  <2>. QED BY <1>1, <1>2, <2>2 DEF TurnBegins
<1>. QED BY <1>2, <1>3

(* The candidates of an iteration, and those that were logged before an entry. *)
LEMMA LoggedAre ==
  /\ \A n, c : c \in Logged(n) <=>
       \E i \in At("CANDIDATE_RAN") : log[i].event.iteration = n /\ log[i].event.candidate = c
  /\ \A k, c : c \in FieldAt(k) <=>
       \E i \in At("CANDIDATE_RAN") :
         i < k /\ log[i].event.iteration = log[k].event.iteration /\ log[i].event.candidate = c
BY DEF Logged, FieldAt, At

(* Appending an entry that is no marker of an extension. *)
LEMMA LogAppend ==
  ASSUME LogOK, NEW x, EventOK(x.event), x.event.tag # "RUN_EXTENDED", log' = Append(log, x)
  PROVE  /\ EntriesOK(log') /\ Markers(log') = {}
         /\ Len(log') = Len(log) + 1 /\ DOMAIN log' = 1 .. (Len(log) + 1)
         /\ \A i \in 1 .. Len(log) : log'[i] = log[i]
         /\ log'[Len(log) + 1] = x
         /\ \A i, tag : i \in At(tag)' <=>
               i \in At(tag) \/ (i = Len(log) + 1 /\ x.event.tag = tag)
<1>1. EntriesOK(log) /\ Markers(log) = {}
  BY DEF LogOK
<1>2. /\ EntriesOK(log') /\ Markers(log') = {}
      /\ Len(log') = Len(log) + 1 /\ DOMAIN log' = 1 .. (Len(log) + 1)
      /\ \A i \in 1 .. Len(log) : log'[i] = log[i]
      /\ log'[Len(log) + 1] = x
  <2>1. Markers(log') = {}
    BY <1>1, AppendMarkers
  <2>. QED BY <1>1, <2>1, AppendEntry
<1>3. ASSUME NEW i, NEW tag
      PROVE  i \in At(tag)' <=> i \in At(tag) \/ (i = Len(log) + 1 /\ x.event.tag = tag)
  <2>1. i \in At(tag)' <=> i \in 1 .. (Len(log) + 1) /\ log'[i].event.tag = tag
    BY <1>2 DEF At
  <2>2. i \in At(tag) <=> i \in 1 .. Len(log) /\ log[i].event.tag = tag
    BY LogShape
  <2>3. Len(log) \in Nat
    BY LogShape
  <2>4. i \in 1 .. (Len(log) + 1) <=> i \in 1 .. Len(log) \/ i = Len(log) + 1
    BY <2>3
  <2>. QED BY <1>2, <2>1, <2>2, <2>3, <2>4
<1>. QED BY <1>2, <1>3

(* ... leaves what is said of earlier entries, *)
LEMMA PastAppend ==
  ASSUME LogOK, NEW x, EventOK(x.event), x.event.tag # "RUN_EXTENDED", log' = Append(log, x)
  PROVE  /\ Current' = IF x.event.tag = "AGENT_RAN" THEN Len(log) + 1 ELSE Current
         /\ \A i \in 1 .. Len(log) : TurnBegins(i)' = TurnBegins(i)
         /\ \A k : k = Len(log) + 1 => TurnBegins(k)' = Current
<1> DEFINE n == Len(log)
<1>1. /\ n \in Nat
      /\ \A i \in At("AGENT_RAN") : i \in 1 .. n
  BY LogShape
<1>2. \A i : i \in At("AGENT_RAN")' <=>
        i \in At("AGENT_RAN") \/ (i = n + 1 /\ x.event.tag = "AGENT_RAN")
  BY LogAppend
<1> HIDE DEF n
<1>3. Current' = IF x.event.tag = "AGENT_RAN" THEN n + 1 ELSE Current
  <2>1. CASE x.event.tag = "AGENT_RAN"
    <3>1. {0} \cup At("AGENT_RAN")' = {0} \cup At("AGENT_RAN") \cup {n + 1}
      BY <1>2, <2>1
    <3>2. /\ n + 1 \in {0} \cup At("AGENT_RAN") \cup {n + 1}
          /\ {0} \cup At("AGENT_RAN") \cup {n + 1} \subseteq Int
          /\ \A i \in {0} \cup At("AGENT_RAN") \cup {n + 1} : n + 1 >= i
      BY <1>1
    <3>3. Max({0} \cup At("AGENT_RAN") \cup {n + 1}) = n + 1
      BY <3>2, MaxIs
    <3>. QED BY <2>1, <3>1, <3>3 DEF Current
  <2>2. CASE x.event.tag # "AGENT_RAN"
    <3>1. At("AGENT_RAN")' = At("AGENT_RAN")
      BY <1>2, <2>2
    <3>. QED BY <2>2, <3>1 DEF Current
  <2>. QED BY <2>1, <2>2
<1>4. ASSUME NEW i \in 1 .. n PROVE TurnBegins(i)' = TurnBegins(i)
  <2>1. { j \in At("AGENT_RAN")' : j < i } = { j \in At("AGENT_RAN") : j < i }
    BY <1>1, <1>2
  <2>. QED BY <2>1 DEF TurnBegins
<1>5. ASSUME NEW k, k = n + 1 PROVE TurnBegins(k)' = Current
  <2>1. { j \in At("AGENT_RAN")' : j < k } = At("AGENT_RAN")
    BY <1>1, <1>2, <1>5
  <2>. QED BY <2>1 DEF TurnBegins, Current
<1>. QED BY <1>3, <1>4, <1>5 DEF n

(* ... and adds a candidate to its iteration, or none. *)
LEMMA LoggedAppend ==
  ASSUME LogOK, NEW x, EventOK(x.event), x.event.tag # "RUN_EXTENDED", log' = Append(log, x)
  PROVE  /\ \A m : Logged(m)' =
                IF x.event.tag = "CANDIDATE_RAN" /\ x.event.iteration = m
                THEN Logged(m) \cup {x.event.candidate} ELSE Logged(m)
         /\ \A i \in 1 .. Len(log) : FieldAt(i)' = FieldAt(i)
         /\ x.event.tag = "CANDIDATE_SELECTED" =>
              \A k : k = Len(log) + 1 => FieldAt(k)' = Logged(x.event.iteration)
<1> DEFINE n == Len(log)
<1>1. /\ n \in Nat
      /\ \A i \in At("CANDIDATE_RAN") : i \in 1 .. n
  BY LogShape
<1>2. /\ \A i : i \in At("CANDIDATE_RAN")' <=>
            i \in At("CANDIDATE_RAN") \/ (i = n + 1 /\ x.event.tag = "CANDIDATE_RAN")
      /\ \A i \in 1 .. n : log'[i] = log[i]
      /\ log'[n + 1] = x
  BY LogAppend
<1> HIDE DEF n
<1>4. ASSUME NEW m, NEW c
      PROVE  c \in Logged(m)' <=>
               c \in Logged(m) \/ (x.event.tag = "CANDIDATE_RAN" /\ x.event.iteration = m
                                  /\ c = x.event.candidate)
  <2>1. c \in Logged(m)' <=>
          \E i \in At("CANDIDATE_RAN")' :
            log'[i].event.iteration = m /\ log'[i].event.candidate = c
    BY DEF Logged, At
  <2>2. c \in Logged(m) <=>
          \E i \in At("CANDIDATE_RAN") :
            log[i].event.iteration = m /\ log[i].event.candidate = c
    BY LoggedAre
  <2>. QED BY <1>1, <1>2, <2>1, <2>2
<1>5. ASSUME NEW m
      PROVE  Logged(m)' =
               IF x.event.tag = "CANDIDATE_RAN" /\ x.event.iteration = m
               THEN Logged(m) \cup {x.event.candidate} ELSE Logged(m)
  BY <1>4
<1>6. ASSUME NEW k \in 1 .. n PROVE FieldAt(k)' = FieldAt(k)
  <2>1. ASSUME NEW c PROVE c \in FieldAt(k)' <=> c \in FieldAt(k)
    <3>1. c \in FieldAt(k)' <=>
           \E i \in At("CANDIDATE_RAN")' :
             i < k /\ log'[i].event.iteration = log'[k].event.iteration
                   /\ log'[i].event.candidate = c
      BY DEF FieldAt, At
    <3>2. c \in FieldAt(k) <=>
           \E i \in At("CANDIDATE_RAN") :
             i < k /\ log[i].event.iteration = log[k].event.iteration
                   /\ log[i].event.candidate = c
      BY LoggedAre
    <3>3. /\ \A i \in At("CANDIDATE_RAN")' : i < k => i \in At("CANDIDATE_RAN")
          /\ \A i \in At("CANDIDATE_RAN") : i \in At("CANDIDATE_RAN")'
      BY <1>1, <1>2
    <3>4. /\ \A i \in At("CANDIDATE_RAN") : log'[i] = log[i]
          /\ log'[k] = log[k]
      BY <1>1, <1>2
    <3>. QED BY <3>1, <3>2, <3>3, <3>4
  <2>. QED BY <2>1
<1>7. ASSUME x.event.tag = "CANDIDATE_SELECTED", NEW k, k = n + 1
      PROVE  FieldAt(k)' = Logged(x.event.iteration)
  <2>1. ASSUME NEW c PROVE c \in FieldAt(k)' <=> c \in Logged(x.event.iteration)
    <3>1. c \in FieldAt(k)' <=>
           \E i \in At("CANDIDATE_RAN")' :
             i < k /\ log'[i].event.iteration = log'[k].event.iteration
                   /\ log'[i].event.candidate = c
      BY DEF FieldAt, At
    <3>2. c \in Logged(x.event.iteration) <=>
           \E i \in At("CANDIDATE_RAN") :
             log[i].event.iteration = x.event.iteration /\ log[i].event.candidate = c
      BY LoggedAre
    <3>3. /\ \A i \in At("CANDIDATE_RAN")' : i < k => i \in At("CANDIDATE_RAN")
          /\ \A i \in At("CANDIDATE_RAN") : i \in At("CANDIDATE_RAN")' /\ i < k
      BY <1>1, <1>2, <1>7
    <3>4. /\ \A i \in At("CANDIDATE_RAN") : log'[i] = log[i]
          /\ log'[k].event.iteration = x.event.iteration
      BY <1>1, <1>2, <1>7
    <3>. QED BY <3>1, <3>2, <3>3, <3>4
  <2>. QED BY <2>1
<1>. QED BY <1>5, <1>6, <1>7 DEF n

-----------------------------------------------------------------------------
(* The fold. *)

(* Only a turn leads to the verifier. *)
LEMMA TurnsAreVerified ==
  ASSUME NEW c, ConfigOK(c), NEW n \in Nat, NEW s, StateShape(c, s, n), NEW e, ReadingOK(e),
         e.tag \in EventsOf(s.tag), Step(c, s, e).tag = "VERIFYING"
  PROVE  s.tag = "RUNNING_AGENT"
<1>0. StateFields(s) /\ s.reviseRound \in Nat /\ s.planRound \in Nat /\ s.compileRound \in Nat
  BY DEF StateShape
<1>1. \A phase : StartPhaseCompile(c, phase).tag \in {"RUNNING_WAVE", "COMPILING"}
  BY DEF StartPhaseCompile, Compiling, State
<1>2. \A contract, phase, ctx : StartIteration(c, contract, phase, ctx).tag = "RUNNING_AGENT"
  BY DEF StartIteration, State
<1>3. \A tag, reason, contract, iterations : Stopped(tag, reason, contract, iterations).tag = tag
  BY DEF Stopped, State
<1>4. ASSUME NEW ctx, NEW d, d.kind \in {"CONTINUE", "DONE", "ADJUDICATE", "FAILED", "ABORTED"}
      PROVE  ApplyDecision(c, s, ctx, d).tag # "VERIFYING"
  <2>1. PhaseDone(s, ctx).tag \in {"DONE", "ADVANCING_PHASE"}
    BY <1>3 DEF PhaseDone, State
  <2>. QED BY <1>0, <1>2, <1>3, <1>4, <2>1 DEF ApplyDecision, StateFields
<1>5. CASE s.tag = "PLANNING"
  <2>1. e.tag \in {"PLAN_COMPILED", "PLAN_FAILED"}
    BY <1>5 DEF EventsOf
  <2>2. c.maxPlanRetries \in Nat
    BY KnobTypes
  <2>3. StepPlanning(c, s, e).tag \in {"AWAIT_PLAN_SEAL", "PLANNING", "FAILED"}
    BY <1>0, <1>3, <2>1, <2>2 DEF StepPlanning, Planning, State
  <2>. QED BY <1>5, <2>3 DEF Step
<1>6. CASE s.tag = "AWAIT_PLAN_SEAL"
  <2>1. e.decision \in {"approve", "reject", "revise"}
    BY <1>6 DEF EventsOf, ReadingOK
  <2>2. c.maxPlanRevisions \in Nat
    BY KnobTypes
  <2>3. StepAwaitPlanSeal(c, s, e).tag \in {"RUNNING_WAVE", "COMPILING", "ABORTED", "PLANNING"}
    BY <1>0, <1>1, <1>3, <2>1, <2>2 DEF StepAwaitPlanSeal, Planning, State
  <2>. QED BY <1>6, <2>3 DEF Step
<1>7. CASE s.tag \in {"ADVANCING_PHASE", "RUNNING_WAVE"}
  BY <1>1, <1>7 DEF Step, StepAdvancingPhase, StepRunningWave
<1>8. CASE s.tag = "COMPILING"
  <2>1. e.tag \in {"CONTRACT_COMPILED", "COMPILE_FAILED"}
    BY <1>8 DEF EventsOf
  <2>2. c.maxCompileRetries \in Nat
    BY KnobTypes
  <2>3. StepCompiling(c, s, e).tag \in {"AWAIT_SEAL", "COMPILING", "FAILED"}
    BY <1>0, <1>3, <2>1, <2>2 DEF StepCompiling, Compiling, State
  <2>. QED BY <1>8, <2>3 DEF Step
<1>9. CASE s.tag = "AWAIT_SEAL"
  <2>1. e.decision \in {"approve", "reject", "revise", "edited"}
    BY <1>9 DEF EventsOf, ReadingOK
  <2>2. c.maxSealRevisions \in Nat
    BY KnobTypes
  <2>3. /\ \A phase, round :
               /\ Compiling("COMPILE_VERIFIER", phase, round, 0).tag = "COMPILING"
               /\ Compiling("REFREEZE_CONTRACT", phase, round, 0).tag = "COMPILING"
        /\ \A contract, phase :
               [State("PREPARING", "PREPARE_WORKSPACE") EXCEPT
                  !.contract = contract, !.phase = phase].tag = "PREPARING"
    BY DEF Compiling, State
  <2>4. s.reviseRound + 1 > c.maxSealRevisions \/ s.reviseRound + 1 <= c.maxSealRevisions
    BY <1>0, <2>2
  <2>5. NeedsPreparation(s.contract) \in BOOLEAN
    BY DEF NeedsPreparation
  <2>6. CASE e.decision = "approve"
    <3>1. StepAwaitSeal(c, s, e).tag \in {"PREPARING", "RUNNING_AGENT"}
      BY <1>2, <2>3, <2>5, <2>6 DEF StepAwaitSeal
    <3>. QED BY <1>9, <3>1 DEF Step
  <2>7. CASE e.decision # "approve"
    <3>1. StepAwaitSeal(c, s, e).tag \in {"ABORTED", "COMPILING"}
      BY <1>3, <2>1, <2>3, <2>4, <2>7 DEF StepAwaitSeal
    <3>. QED BY <1>9, <3>1 DEF Step
  <2>. QED BY <2>6, <2>7
<1>10. CASE s.tag = "PREPARING"
  BY <1>2, <1>3, <1>10 DEF Step, StepPreparing
<1>11. CASE s.tag = "VERIFYING"
  <2>1. e.pass \in BOOLEAN
    BY <1>11 DEF EventsOf, ReadingOK
  <2>2. CASE e.pass
    BY <1>0, <1>11, <2>2 DEF Step, StepVerifying, StateFields
  <2>3. CASE ~e.pass
    <3> DEFINE next == AfterRed(s.ctx, e)
               d == Decide(c, s.contract, next, FALSE, "none")
    <3>1. /\ next.runStatusHistory = s.ctx.runStatusHistory
          /\ next.verifierDetailHistory
               = Append(s.ctx.verifierDetailHistory, NormalizeDetail(e.detail))
          /\ next.iteration = s.ctx.iteration /\ next.remediations = s.ctx.remediations
      BY DEF AfterRed, CtxFields, StateShape
    <3> HIDE DEF next
    <3>2. HistoriesOK(next)
      BY <3>1, SequenceAppend DEF StateShape, HistoriesOK
    <3>3. d.kind \in {"CONTINUE", "DONE", "ADJUDICATE", "FAILED", "ABORTED"}
      BY <3>2, DecideShape
    <3> HIDE DEF d
    <3>4. StepVerifying(c, s, e) = ApplyDecision(c, s, next, d)
      BY <2>3 DEF StepVerifying, next, d
    <3>. QED BY <1>4, <1>11, <3>3, <3>4 DEF Step
  <2>. QED BY <2>1, <2>2, <2>3
<1>12. CASE s.tag = "AWAIT_SIGNOFF"
  <2> DEFINE next == [s.ctx EXCEPT !.lastBudget = e.budget]
             d == Decide(c, s.contract, next, next.lastVerdict = "pass", e.approval)
  <2>1. /\ next.runStatusHistory = s.ctx.runStatusHistory
        /\ next.verifierDetailHistory = s.ctx.verifierDetailHistory
        /\ next.iteration = s.ctx.iteration /\ next.remediations = s.ctx.remediations
    BY DEF CtxFields, StateShape
  <2> HIDE DEF next
  <2>2. HistoriesOK(next)
    BY <2>1 DEF StateShape, HistoriesOK
  <2>3. d.kind \in {"CONTINUE", "DONE", "ADJUDICATE", "FAILED", "ABORTED"}
    BY <2>2, DecideShape
  <2> HIDE DEF d
  <2>4. StepAwaitSignoff(c, s, e) = ApplyDecision(c, s, next, d)
    BY DEF StepAwaitSignoff, next, d
  <2>. QED BY <1>4, <1>12, <2>3, <2>4 DEF Step
<1>13. CASE s.tag = "ADJUDICATING"
  BY <1>3, <1>13 DEF Step, StepAdjudicating
<1>14. s.tag \in {"PLANNING", "AWAIT_PLAN_SEAL", "ADVANCING_PHASE", "RUNNING_WAVE", "COMPILING",
                  "AWAIT_SEAL", "PREPARING", "RUNNING_AGENT", "VERIFYING", "AWAIT_SIGNOFF",
                  "ADJUDICATING"}
  BY DEF EventsOf
<1>. QED BY <1>5, <1>6, <1>7, <1>8, <1>9, <1>10, <1>11, <1>12, <1>13, <1>14

(* What the log folds to is a state of the reducer. *)
LEMMA ReachedShape ==
  ASSUME LogOK
  PROVE  StateShape(config, Reached, Len(log)) /\ Len(log) \in Nat
<1>1. /\ ConfigOK(config) /\ EntriesOK(log) /\ Markers(log) = {} /\ Replay(config, log) # Invalid
  BY ScenarioShape DEF LogOK, Reached
<1>2. ExtendedRunConfig(config, log) = config
  BY <1>1 DEF ExtendedRunConfig
<1>3. Len(log) \in Nat
  BY LogShape
<1>4. Fold(config, log)[Len(log)] = Invalid \/ StateShape(config, Fold(config, log)[Len(log)], Len(log))
  BY <1>1, <1>2, <1>3, FoldShape
<1>. QED BY <1>1, <1>3, <1>4 DEF Reached, Replay

(* Nothing lowers a threshold in a log without extensions. *)
LEMMA NothingLowered ==
  ASSUME NEW c, ConfigOK(c), NEW l, EntriesOK(l), Markers(l) = {}
  PROVE  RepeatNotLowered(c, l)
<1>1. SUFFICES ASSUME Folded(l) # {}
               PROVE  ExtendedRunConfig(c, SubSeq(l, 1, LastFoldedIndex(l))).repeatFailureThreshold
                        <= ExtendedRunConfig(c, l).repeatFailureThreshold
  BY DEF RepeatNotLowered
<1> DEFINE i == LastFoldedIndex(l)
           p == SubSeq(l, 1, i)
<1>2. i \in 1 .. Len(l) /\ Len(l) \in Nat /\ DOMAIN l = 1 .. Len(l)
  BY <1>1, FoldedPositions, SequenceShape DEF EntriesOK
<1>3. DOMAIN p = 1 .. i /\ \A j \in 1 .. i : p[j] = l[j]
  <2> HIDE DEF i
  <2>1. p = [j \in 1 .. i |-> l[j]]
    BY <1>2
  <2>. QED BY <2>1
<1>4. Markers(p) = {}
  <2> HIDE DEF i, p
  <2>1. \A j \in 1 .. i : j \in DOMAIN l
    BY <1>2
  <2>. QED BY <1>3, <2>1 DEF Markers
<1>5. ExtendedRunConfig(c, p) = c /\ ExtendedRunConfig(c, l) = c
  BY <1>4 DEF ExtendedRunConfig
<1>6. c.repeatFailureThreshold \in Nat
  BY KnobTypes
<1>. QED BY <1>5, <1>6

(* A marker changes nothing for the fold, any other event is one step. *)
LEMMA ReachedAppend ==
  ASSUME LogOK, NEW x, EventOK(x.event), x.event.tag # "RUN_EXTENDED",
         log' = Append(log, x), config' = config,
         x.event.tag \notin DriverOnlyTags => x.event.tag \in EventsOf(Reached.tag)
  PROVE  /\ Reached' # Invalid
         /\ x.event.tag \in DriverOnlyTags => Reached' = Reached
         /\ x.event.tag \notin DriverOnlyTags => Reached' = Step(config, Reached, x.event)
<1>1. /\ ConfigOK(config) /\ EntriesOK(log) /\ Markers(log) = {} /\ Replay(config, log) # Invalid
      /\ Reached = Replay(config, log) /\ Reached' = Replay(config, Append(log, x))
  BY ScenarioShape DEF LogOK, Reached
<1>2. ExtendedRunConfig(config, log) = config /\ ~BudgetExtended(log)
  BY <1>1 DEF ExtendedRunConfig, BudgetExtended
<1>3. RepeatNotLowered(config, log)
  BY <1>1, NothingLowered
<1>4. /\ x.event.tag \in DriverOnlyTags => Reached' = Reached
      /\ x.event.tag \notin DriverOnlyTags => Reached' = Step(config, Reached, x.event)
  BY <1>1, <1>2, <1>3, FoldAppend
<1>5. CASE x.event.tag \in DriverOnlyTags
  BY <1>1, <1>4, <1>5
<1>6. CASE x.event.tag \notin DriverOnlyTags
  <2>1. ReadingOK(x.event)
    BY <1>6 DEF EventOK
  <2>2. StateShape(config, Step(config, Reached, x.event), Len(log) + 1)
    BY <1>1, <1>6, <2>1, ReachedShape, StepShape
  <2>. QED BY <1>4, <1>6, <2>2, ShapeValid
<1>. QED BY <1>4, <1>5, <1>6

-----------------------------------------------------------------------------
(* The invariant. *)

Holds(hash) == tree.tracked = hash.tracked /\ hash.created \subseteq tree.created

(* The entry at i selected the winner of F. *)
Selects(i, F) ==
  LET w == SelectWinner(F) IN log[i].event.winner = w.index /\ log[i].event.tree = w.tree

(* What of an iteration was logged is never logged again, in whichever turn. *)
LoggedOnce ==
  \A i, j \in At("CANDIDATE_RAN") :
    /\ log[i].event.iteration = log[j].event.iteration
    /\ log[i].event.candidate.index = log[j].event.candidate.index
    => i = j

PastOK == SelectionStable /\ SelectionJustified /\ LoggedOnce /\ TurnIsItsSelection

(***************************************************************************)
(* Markers behind the last turn are the turn's under way.  Once it has     *)
(* selected, all it selects among is logged, and that is what it selected. *)
(***************************************************************************)
UnderWay ==
  /\ \A i \in At("CANDIDATE_RAN") \cup At("CANDIDATE_SELECTED") :
       i > Current => Reached.tag = "RUNNING_AGENT" /\ log[i].event.iteration = Iteration
  /\ \A i \in At("CANDIDATE_SELECTED") :
       i > Current => /\ Pending(Logged(Iteration)) = {} /\ Logged(Iteration) # {}
                      /\ Selects(i, Logged(Iteration))

ProcOK ==
  /\ DOMAIN proc = {"up", "st", "seq", "fan", "turn"} /\ proc.up \in BOOLEAN
  /\ ~proc.up => proc.fan = Nothing /\ proc.turn = Nothing
  /\ proc.up => proc.st = Reached
  /\ processes = 0 => ~proc.up /\ log = << >>

(* The candidates a tournament has, by where they are. *)
FieldOK(fan) ==
  /\ DOMAIN fan = {"iteration", "from", "prior", "todo", "worked", "fresh", "unmarked",
                   "selected", "seq"}
  /\ fan.todo \cup IndicesOf(fan.worked) \cup IndicesOf(fan.fresh) = Pending(fan.prior)
  /\ fan.todo \cap IndicesOf(fan.worked) = {}
  /\ (fan.todo \cup IndicesOf(fan.worked)) \cap IndicesOf(fan.fresh) = {}
  /\ Distinct(fan.worked) /\ Distinct(Field(fan))
  /\ \A c \in Field(fan) : CandidateOK(c)
  /\ \A w \in fan.worked : /\ w = [index |-> w.index, status |-> w.status, cost |-> w.cost,
                                   tree |-> w.tree]
                           /\ w.status \in RunStatuses
                           /\ w.cost = Unmetered \/ w.cost \in Nat
  /\ fan.unmarked \subseteq IndicesOf(fan.fresh)

(***************************************************************************)
(* What is logged of the iteration is what was there at its begin and what *)
(* is marked since; nothing is run once the turn has selected.             *)
(***************************************************************************)
MarkedOK(fan) ==
  /\ fan.iteration = Iteration
  /\ Logged(Iteration) = fan.prior \cup { c \in fan.fresh : c.index \notin fan.unmarked }
  /\ (\E i \in At("CANDIDATE_SELECTED") : i > Current) => AllSettled(fan) /\ fan.unmarked = {}
  /\ fan.selected => /\ AllSettled(fan) /\ fan.unmarked = {}
                     /\ log # << >> /\ LastEvent.tag = "CANDIDATE_SELECTED"
                     /\ Selects(Len(log), Field(fan))

FanOK ==
  proc.fan # Nothing =>
    /\ proc.up /\ proc.turn = Nothing /\ proc.st.tag = "RUNNING_AGENT"
    /\ FieldOK(proc.fan) /\ MarkedOK(proc.fan)

(* The turn to be committed is crashed, or the selection and in the tree. *)
TurnOK ==
  proc.turn # Nothing =>
    /\ proc.up /\ proc.fan = Nothing /\ proc.st.tag = "RUNNING_AGENT"
    /\ proc.turn = Turn(proc.turn.status, proc.turn.prev, proc.turn.hash)
    /\ proc.turn.status \in RunStatuses
    /\ \/ proc.turn.status = "crashed" /\ proc.turn.hash = SentinelPost
       \/ /\ log # << >> /\ LastEvent.tag = "CANDIDATE_SELECTED"
          /\ LastEvent.tree = proc.turn.hash /\ Holds(proc.turn.hash)

(* What the verifier runs on is the last turn's. *)
VerifiedOK ==
  Reached.tag = "VERIFYING" =>
    /\ log # << >> /\ LastEvent.tag = "AGENT_RAN"
    /\ LastEvent.hash # SentinelPost => Holds(LastEvent.hash)

TournamentInv ==
  LogOK /\ PastOK /\ UnderWay /\ ProcOK /\ FanOK /\ TurnOK /\ VerifiedOK

-----------------------------------------------------------------------------
(* Steps that append nothing. *)

(* What is said of the log alone stays true. *)
LEMMA LogSame ==
  ASSUME LogOK, log' = log, config' = config, world' = world,
         processes' \in 0 .. world.processes
  PROVE  /\ LogOK' /\ Reached' = Reached /\ Iteration' = Iteration /\ Current' = Current
         /\ PastOK => PastOK'
         /\ UnderWay => UnderWay'
         /\ LastEvent' = LastEvent
         /\ \A fan : (FieldOK(fan) => FieldOK(fan)') /\ (MarkedOK(fan) => MarkedOK(fan)')
<1>1. Reached' = Reached
  BY DEF Reached
<1>2. Iteration' = Iteration /\ Current' = Current /\ LastEvent' = LastEvent
  BY <1>1 DEF Iteration, Current, LastEvent, At
<1>3. LogOK'
  BY <1>1 DEF LogOK, At, CandidateOK, Indices
<1>4. PastOK => PastOK'
  BY DEF PastOK, SelectionStable, SelectionJustified, LoggedOnce, TurnIsItsSelection, At,
         TurnBegins, FieldAt, Indices
<1>5. UnderWay => UnderWay'
  BY <1>1, <1>2 DEF UnderWay, At, Pending, Logged, Indices, Selects
<1>6. ASSUME NEW fan, FieldOK(fan) PROVE FieldOK(fan)'
  BY <1>6 DEF FieldOK, Pending, Indices, CandidateOK
<1>7. ASSUME NEW fan, MarkedOK(fan) PROVE MarkedOK(fan)'
  BY <1>2, <1>7 DEF MarkedOK, Logged, At, Selects
<1>. QED BY <1>1, <1>2, <1>3, <1>4, <1>5, <1>6, <1>7

(* A run that has logged nothing is where it starts. *)
LEMMA EmptyFolds ==
  ASSUME log = << >>
  PROVE  /\ EntriesOK(log) /\ Markers(log) = {} /\ \A tag : At(tag) = {}
         /\ Reached = InitialState(config)
<1>1. DOMAIN log = {} /\ Len(log) = 0
  BY EmptySequence, SequenceShape
<1>2. EntriesOK(log) /\ Markers(log) = {} /\ \A tag : At(tag) = {}
  BY <1>1, EmptySequence DEF EntriesOK, Markers, At
<1>3. Fold(config, log)[0] = InitialState(ExtendedRunConfig(config, log))
  BY <1>2, FoldRecurs DEF EntriesOK
<1>4. ExtendedRunConfig(config, log) = config
  BY <1>2 DEF ExtendedRunConfig
<1>. QED BY <1>1, <1>2, <1>3, <1>4 DEF Reached, Replay

(* The log is empty, and nobody runs. *)
LEMMA InitInv == Init => TournamentInv
<1> SUFFICES ASSUME Init PROVE TournamentInv
  OBVIOUS
<1>1. log = << >> /\ proc = Down
  BY DEF Init
<1>2. PICK s \in Scenarios : config = s.config /\ world = s.world
  BY DEF Init
<1>3. /\ s = [config |-> s.config, world |-> s.world] /\ ConfigOK(s.config)
      /\ s.world.processes \in Nat \ {0}
  BY TournamentAssumption
<1>4. EntriesOK(log) /\ Markers(log) = {} /\ \A tag : At(tag) = {}
  BY <1>1, EmptyFolds
<1>5. Reached = InitialState(config)
  BY <1>1, EmptyFolds
<1>6. Reached # Invalid /\ Reached.tag # "VERIFYING"
  BY <1>5 DEF InitialState, Invalid, State
<1>7. LogOK
  <2>1. processes = 0 /\ [config |-> config, world |-> world] = s
    BY <1>2, <1>3 DEF Init
  <2>2. processes \in 0 .. world.processes
    BY <1>2, <1>3, <2>1
  <2>. QED BY <1>4, <1>6, <2>1, <2>2 DEF LogOK
<1>8. PastOK /\ UnderWay
  BY <1>4 DEF PastOK, SelectionStable, SelectionJustified, LoggedOnce, TurnIsItsSelection, UnderWay
<1>9. ProcOK /\ FanOK /\ TurnOK /\ VerifiedOK
  BY <1>1, <1>6 DEF Init, ProcOK, FanOK, TurnOK, VerifiedOK, Down
<1>. QED BY <1>7, <1>8, <1>9 DEF TournamentInv

(* A process starts, or resumes: its state is the fold. *)
LEMMA BeginsInv ==
  ASSUME TournamentInv, Start \/ Resume
  PROVE  TournamentInv'
<1>1. /\ LogOK /\ PastOK /\ UnderWay /\ ProcOK /\ VerifiedOK
      /\ UNCHANGED << config, world, log, tree >>
  BY DEF TournamentInv, Start, Resume
<1>2. /\ world.processes \in Nat \ {0} /\ processes \in 0 .. world.processes
      /\ EntriesOK(log)
  BY <1>1, ScenarioShape DEF LogOK
<1>3. /\ processes' \in 1 .. world.processes
      /\ proc'.fan = Nothing /\ proc'.turn = Nothing
      /\ DOMAIN proc' = {"up", "st", "seq", "fan", "turn"} /\ proc'.up = TRUE
      /\ proc'.st = Reached
  <2>1. CASE Start
    <3>1. log = << >>
      BY <1>1, <2>1 DEF Start, ProcOK
    <3>. QED BY <1>2, <2>1, <3>1, EmptyFolds DEF Start, Down
  <2>2. CASE Resume
    <3>1. /\ proc'.fan = Nothing /\ proc'.turn = Nothing
          /\ DOMAIN proc' = {"up", "st", "seq", "fan", "turn"} /\ proc'.up = TRUE
          /\ proc'.st = Reached
      BY <2>2 DEF Resume, Down, Reached
    <3>2. processes' \in 1 .. world.processes
      BY <1>2, <2>2 DEF Resume
    <3>. QED BY <3>1, <3>2
  <2>. QED BY <2>1, <2>2
<1>4. processes' \in 0 .. world.processes /\ processes' # 0
  BY <1>2, <1>3
<1>5. LogOK' /\ PastOK' /\ UnderWay' /\ Reached' = Reached /\ LastEvent' = LastEvent
  BY <1>1, <1>4, LogSame
<1>6. ProcOK' /\ FanOK' /\ TurnOK'
  BY <1>3, <1>4, <1>5 DEF ProcOK, FanOK, TurnOK
<1>7. VerifiedOK'
  BY <1>1, <1>5 DEF VerifiedOK, Holds
<1>. QED BY <1>5, <1>6, <1>7 DEF TournamentInv

(* A step of the process alone; only beside a worker does the tree change. *)
LEMMA QuietStep ==
  ASSUME TournamentInv, UNCHANGED << config, world, log, processes >>,
         tree' = tree \/ Reached.tag = "RUNNING_AGENT"
  PROVE  /\ LogOK' /\ PastOK' /\ UnderWay' /\ VerifiedOK'
         /\ Reached' = Reached /\ Iteration' = Iteration /\ LastEvent' = LastEvent
         /\ processes' = 0 => processes = 0
         /\ log' = log
         /\ \A fan : (FieldOK(fan) => FieldOK(fan)') /\ (MarkedOK(fan) => MarkedOK(fan)')
<1>1. /\ LogOK /\ PastOK /\ UnderWay /\ VerifiedOK /\ processes \in 0 .. world.processes
  BY DEF TournamentInv, LogOK
<1>2. /\ LogOK' /\ PastOK' /\ UnderWay' /\ Reached' = Reached /\ Iteration' = Iteration
      /\ LastEvent' = LastEvent
      /\ \A fan : (FieldOK(fan) => FieldOK(fan)') /\ (MarkedOK(fan) => MarkedOK(fan)')
  BY <1>1, LogSame
<1>3. VerifiedOK'
  BY <1>1, <1>2 DEF VerifiedOK, Holds
<1>. QED BY <1>2, <1>3

(* The process dies. *)
LEMMA StopInv ==
  ASSUME TournamentInv, Stop
  PROVE  TournamentInv'
<1>1. UNCHANGED << config, world, log, tree, processes >> /\ proc.up /\ proc' = Down
  BY DEF Stop
<1>2. /\ LogOK' /\ PastOK' /\ UnderWay' /\ VerifiedOK' /\ Reached' = Reached
      /\ processes # 0
  BY <1>1, QuietStep DEF TournamentInv, ProcOK
<1>3. ProcOK' /\ FanOK' /\ TurnOK'
  BY <1>1, <1>2 DEF ProcOK, FanOK, TurnOK, Down
<1>. QED BY <1>2, <1>3 DEF TournamentInv

(* Who runs a tournament is in a turn. *)
LEMMA TournamentIsATurn ==
  ASSUME LogOK, ProcOK, proc.up, proc.st.cmd = "RUN_AGENT_BEST_OF"
  PROVE  Reached.tag = "RUNNING_AGENT"
<1>1. StateShape(config, Reached, Len(log)) /\ proc.st = Reached
  BY ReachedShape DEF ProcOK
<1>2. Reached.tag \in StateTags /\ "RUN_AGENT_BEST_OF" \in WaitsFor(Reached.tag)
  BY <1>1 DEF StateShape
<1>. QED BY <1>2, CommandsFit DEF StateTags, TerminalTags

(* A tournament throws: its turn is a crashed one. *)
LEMMA ThrownInv ==
  ASSUME TournamentInv, SnapshotThrows \/ AppendThrows \/ PromoteThrows
  PROVE  TournamentInv'
<1>1. /\ UNCHANGED << config, world, log, tree, processes >>
      /\ proc' = [proc EXCEPT !.fan = Nothing,
                              !.turn = Turn("crashed", SentinelPrev, SentinelPost)]
  BY DEF SnapshotThrows, AppendThrows, PromoteThrows, Thrown
<1>2. /\ LogOK /\ ProcOK
      /\ LogOK' /\ PastOK' /\ UnderWay' /\ VerifiedOK' /\ Reached' = Reached /\ log' = log
      /\ processes' = processes
  BY <1>1, QuietStep DEF TournamentInv
<1>3. proc.up /\ proc.st.tag = "RUNNING_AGENT"
  <2>1. CASE SnapshotThrows
    BY <1>2, <2>1, TournamentIsATurn DEF SnapshotThrows, Ready, ProcOK
  <2>2. CASE AppendThrows \/ PromoteThrows
    BY <2>2 DEF AppendThrows, PromoteThrows, TournamentInv, FanOK
  <2>. QED BY <2>1, <2>2
<1>4. ProcOK'
  BY <1>1, <1>2, <1>3 DEF ProcOK
<1>5. FanOK' /\ proc'.turn = Turn("crashed", SentinelPrev, SentinelPost)
      /\ proc'.up /\ proc'.fan = Nothing /\ proc'.st = proc.st
  BY <1>1, <1>2, <1>3 DEF ProcOK, FanOK
<1>6. TurnOK'
  BY <1>3, <1>5 DEF TurnOK, Turn, RunStatuses
<1>. QED BY <1>2, <1>4, <1>5, <1>6 DEF TournamentInv

(* The indices of candidates. *)
LEMMA IndexOf == \A S, i : i \in IndicesOf(S) <=> \E c \in S : c.index = i
BY DEF IndicesOf

(* The fan-out begins with what the log has of the iteration. *)
LEMMA BeginFanOutInv ==
  ASSUME TournamentInv, BeginFanOut
  PROVE  TournamentInv'
<1> DEFINE prior == Logged(Iteration)
           fan == [iteration |-> Iteration, from |-> tree, prior |-> prior,
                   todo |-> Pending(prior), worked |-> {}, fresh |-> {},
                   unmarked |-> {}, selected |-> FALSE, seq |-> proc.seq]
<1>1. /\ LogOK /\ ProcOK /\ UnderWay /\ LoggedOnce
      /\ Ready /\ UNCHANGED << config, world, log, tree, processes >>
  BY DEF TournamentInv, BeginFanOut, PastOK
<1>2. /\ LogOK' /\ PastOK' /\ UnderWay' /\ VerifiedOK' /\ Reached' = Reached
      /\ log' = log /\ processes' = processes
      /\ \A g : (FieldOK(g) => FieldOK(g)') /\ (MarkedOK(g) => MarkedOK(g)')
  BY <1>1, QuietStep
<1>3. /\ proc.up /\ proc.turn = Nothing /\ proc.st.tag = "RUNNING_AGENT"
      /\ proc.st = Reached
  BY <1>1, TournamentIsATurn DEF Ready, ProcOK
<1>4. proc' = [proc EXCEPT !.fan = fan]
  BY <1>3 DEF BeginFanOut, FanOut, Iteration
<1>5. FieldOK(fan)
  <2>1. Distinct(prior)
    BY <1>1, LoggedAre DEF Distinct, LoggedOnce
  <2>2. \A c \in prior : CandidateOK(c)
    BY <1>1, LoggedAre DEF LogOK
  <2>3. IndicesOf({}) = {} /\ Distinct({})
    BY IndexOf DEF Distinct
  <2> HIDE DEF prior
  <2>. QED BY <2>1, <2>2, <2>3 DEF FieldOK, Field
<1>6. MarkedOK(fan)
  <2>1. (\E i \in At("CANDIDATE_SELECTED") : i > Current) => Pending(prior) = {}
    BY <1>1 DEF UnderWay
  <2>. QED BY <2>1 DEF MarkedOK, AllSettled
<1> HIDE DEF fan
<1>7. /\ proc'.fan = fan /\ proc'.up /\ proc'.turn = Nothing /\ proc'.st = proc.st
      /\ \A g : g = fan => FieldOK(g)' /\ MarkedOK(g)'
  BY <1>2, <1>3, <1>4, <1>5, <1>6 DEF ProcOK
<1>10. /\ proc'.st.tag = "RUNNING_AGENT"
       /\ FieldOK(proc.fan)' /\ MarkedOK(proc.fan)'
  BY <1>3, <1>7
<1>8. ProcOK'
  BY <1>1, <1>2, <1>3, <1>4 DEF ProcOK
<1>9. FanOK' /\ TurnOK'
  BY <1>7, <1>10 DEF FanOK, TurnOK
<1>. QED BY <1>2, <1>8, <1>9 DEF TournamentInv

(* A step inside a tournament; only beside a worker does the tree change. *)
LEMMA FanStep ==
  ASSUME TournamentInv, proc.fan # Nothing, NEW g, FieldOK(g), MarkedOK(g), proc' = FanOut(g),
         UNCHANGED << config, world, log, processes >>
  PROVE  TournamentInv'
<1>1. /\ LogOK /\ ProcOK /\ FanOK /\ proc.up /\ proc.turn = Nothing
      /\ proc.st.tag = "RUNNING_AGENT" /\ Reached.tag = "RUNNING_AGENT"
  BY DEF TournamentInv, FanOK, ProcOK
<1>2. /\ LogOK' /\ PastOK' /\ UnderWay' /\ VerifiedOK' /\ Reached' = Reached
      /\ log' = log /\ processes' = processes
      /\ FieldOK(g)' /\ MarkedOK(g)'
  BY <1>1, QuietStep
<1>3. /\ proc'.fan = g /\ proc'.up /\ proc'.turn = Nothing /\ proc'.st = proc.st
      /\ DOMAIN proc' = DOMAIN proc
  BY <1>1 DEF FanOut, ProcOK
<1>4. ProcOK'
  BY <1>1, <1>2, <1>3 DEF ProcOK
<1>5. FanOK' /\ TurnOK'
  BY <1>1, <1>2, <1>3 DEF FanOK, TurnOK
<1>. QED BY <1>2, <1>4, <1>5 DEF TournamentInv

(* A worker ends, and what it did to the tree stays there. *)
LEMMA RunWorkerInv ==
  ASSUME TournamentInv, NEW i \in Indices, NEW edit \in world.edits, NEW status \in world.statuses,
         NEW cost \in world.costs, RunWorker(i, edit, status, cost)
  PROVE  TournamentInv'
<1> DEFINE fan == proc.fan
           w == [index |-> i, status |-> status, cost |-> cost, tree |-> Baseline(log, RunStart)]
           g == [fan EXCEPT !.todo = @ \ {i}, !.worked = @ \cup {w}]
<1>1. /\ fan # Nothing /\ i \in fan.todo /\ proc' = FanOut(g)
      /\ UNCHANGED << config, world, log, processes >>
  BY DEF RunWorker
<1>2. LogOK /\ FieldOK(fan) /\ MarkedOK(fan)
  BY <1>1 DEF TournamentInv, FanOK
<1>3. /\ w.index = i /\ w.status \in RunStatuses /\ (w.cost = Unmetered \/ w.cost \in Nat)
      /\ w = [index |-> w.index, status |-> w.status, cost |-> w.cost, tree |-> w.tree]
  BY <1>2, ScenarioShape
<1> HIDE DEF w
<1>4. /\ g.todo = fan.todo \ {i} /\ g.worked = fan.worked \cup {w}
      /\ g.prior = fan.prior /\ g.fresh = fan.fresh /\ g.unmarked = fan.unmarked
      /\ g.iteration = fan.iteration /\ g.selected = fan.selected /\ DOMAIN g = DOMAIN fan
  BY <1>2 DEF FieldOK
<1> HIDE DEF g, fan
<1>5. IndicesOf(g.worked) = IndicesOf(fan.worked) \cup {i}
  BY <1>3, <1>4 DEF IndicesOf
<1>6. Field(g) = Field(fan)
  BY <1>4 DEF Field
<1>7. FieldOK(g)
  <2>1. /\ g.todo \cup IndicesOf(g.worked) \cup IndicesOf(g.fresh) = Pending(g.prior)
        /\ g.todo \cap IndicesOf(g.worked) = {}
        /\ (g.todo \cup IndicesOf(g.worked)) \cap IndicesOf(g.fresh) = {}
    <3> DEFINE T == fan.todo
               W == IndicesOf(fan.worked)
               F == IndicesOf(fan.fresh)
               P == Pending(fan.prior)
    <3>1. T \cup W \cup F = P /\ T \cap W = {} /\ (T \cup W) \cap F = {} /\ i \in T
      BY <1>1, <1>2 DEF FieldOK
    <3>2. /\ (T \ {i}) \cup (W \cup {i}) \cup F = P
          /\ (T \ {i}) \cap (W \cup {i}) = {}
          /\ ((T \ {i}) \cup (W \cup {i})) \cap F = {}
      <4> HIDE DEF T, W, F, P
      <4>. QED BY <3>1
    <3>. QED BY <1>4, <1>5, <3>2
  <2>2. Distinct(g.worked)
    <3>1. \A v \in fan.worked : v.index # i
      BY <1>1, <1>2, IndexOf DEF FieldOK
    <3>. QED BY <1>2, <1>3, <1>4, <3>1 DEF FieldOK, Distinct
  <2>. QED BY <1>2, <1>3, <1>4, <1>6, <2>1, <2>2 DEF FieldOK
<1>8. MarkedOK(g)
  <2>1. ~AllSettled(fan)
    BY <1>1 DEF AllSettled
  <2>. QED BY <1>2, <1>4, <2>1 DEF MarkedOK
<1>. QED BY <1>1, <1>7, <1>8, FanStep DEF fan

(* A candidate settles, scored or not. *)
LEMMA SettleInv ==
  ASSUME TournamentInv, proc.fan # Nothing, NEW c, CandidateOK(c),
         c.index \in proc.fan.todo \cup IndicesOf(proc.fan.worked), proc' = Settle(c),
         UNCHANGED << config, world, log, tree, processes >>
  PROVE  TournamentInv'
<1> DEFINE fan == proc.fan
           g == [fan EXCEPT !.todo     = @ \ {c.index},
                            !.worked   = { w \in @ : w.index # c.index },
                            !.fresh    = @ \cup {c},
                            !.unmarked = @ \cup {c.index}]
<1>1. FieldOK(fan) /\ MarkedOK(fan) /\ proc' = FanOut(g)
  BY DEF TournamentInv, FanOK, Settle
<1>2. /\ g.todo = fan.todo \ {c.index}
      /\ g.worked = { w \in fan.worked : w.index # c.index }
      /\ g.fresh = fan.fresh \cup {c} /\ g.unmarked = fan.unmarked \cup {c.index}
      /\ g.prior = fan.prior /\ g.iteration = fan.iteration /\ g.selected = fan.selected
      /\ DOMAIN g = DOMAIN fan
  BY <1>1 DEF FieldOK
<1>3. c.index \in fan.todo \cup IndicesOf(fan.worked)
  OBVIOUS
<1>4. proc.fan = fan
  OBVIOUS
<1> HIDE DEF g, fan
<1>5. /\ IndicesOf(g.worked) = IndicesOf(fan.worked) \ {c.index}
      /\ IndicesOf(g.fresh) = IndicesOf(fan.fresh) \cup {c.index}
  BY <1>2 DEF IndicesOf
<1>6. /\ \A d \in fan.fresh : d.index # c.index
      /\ \A d \in fan.prior : d.index # c.index
  <2>1. c.index \in Pending(fan.prior) /\ c.index \notin IndicesOf(fan.fresh)
    BY <1>1, <1>3 DEF FieldOK
  <2>2. c.index \notin IndicesOf(fan.prior)
    BY <2>1 DEF Pending
  <2>. QED BY <2>1, <2>2, IndexOf
<1>7. FieldOK(g)
  <2>1. /\ g.todo \cup IndicesOf(g.worked) \cup IndicesOf(g.fresh) = Pending(g.prior)
        /\ g.todo \cap IndicesOf(g.worked) = {}
        /\ (g.todo \cup IndicesOf(g.worked)) \cap IndicesOf(g.fresh) = {}
    <3> DEFINE T == fan.todo
               W == IndicesOf(fan.worked)
               F == IndicesOf(fan.fresh)
               P == Pending(fan.prior)
               i == c.index
    <3>1. T \cup W \cup F = P /\ T \cap W = {} /\ (T \cup W) \cap F = {} /\ i \in T \cup W
      BY <1>1, <1>3 DEF FieldOK
    <3>2. /\ (T \ {i}) \cup (W \ {i}) \cup (F \cup {i}) = P
          /\ (T \ {i}) \cap (W \ {i}) = {}
          /\ ((T \ {i}) \cup (W \ {i})) \cap (F \cup {i}) = {}
      <4> HIDE DEF T, W, F, P, i
      <4>. QED BY <3>1
    <3>. QED BY <1>2, <1>5, <3>2
  <2>2. Distinct(g.worked)
    BY <1>1, <1>2 DEF FieldOK, Distinct
  <2>3. Field(g) = Field(fan) \cup {c} /\ \A d \in Field(fan) : d.index # c.index
    BY <1>2, <1>6 DEF Field
  <2>4. Distinct(Field(g)) /\ \A d \in Field(g) : CandidateOK(d)
    BY <1>1, <2>3 DEF FieldOK, Distinct
  <2>5. g.unmarked \subseteq IndicesOf(g.fresh)
    BY <1>1, <1>2, <1>5 DEF FieldOK
  <2>6. g.worked \subseteq fan.worked
    BY <1>2
  <2>7. \A w \in g.worked : /\ w = [index |-> w.index, status |-> w.status, cost |-> w.cost,
                                   tree |-> w.tree]
                            /\ w.status \in RunStatuses
                            /\ w.cost = Unmetered \/ w.cost \in Nat
    BY <1>1, <2>6 DEF FieldOK
  <2>8. DOMAIN g = {"iteration", "from", "prior", "todo", "worked", "fresh", "unmarked",
                    "selected", "seq"}
    BY <1>1, <1>2 DEF FieldOK
  <2>. QED BY <2>1, <2>2, <2>4, <2>5, <2>7, <2>8 DEF FieldOK
<1>8. MarkedOK(g)
  <2>1. ~AllSettled(fan)
    BY <1>3, IndexOf DEF AllSettled
  <2>2. { d \in g.fresh : d.index \notin g.unmarked } = { d \in fan.fresh : d.index \notin fan.unmarked }
    BY <1>2, <1>6
  <2>. QED BY <1>1, <1>2, <2>1, <2>2 DEF MarkedOK
<1>. QED BY <1>1, <1>4, <1>7, <1>8, FanStep

(* A candidate is scored, *)
LEMMA ScoreInv ==
  ASSUME TournamentInv, proc.fan # Nothing, NEW w \in proc.fan.worked, NEW depth \in world.depths,
         ScoreCandidate(w, depth)
  PROVE  TournamentInv'
<1> DEFINE c == Overlaid(w, [depth |-> depth])
<1>1. /\ proc' = Settle(c) /\ UNCHANGED << config, world, log, tree, processes >>
  BY DEF ScoreCandidate
<1>2. LogOK /\ FieldOK(proc.fan)
  BY DEF TournamentInv, FanOK
<1>3. /\ w = [index |-> w.index, status |-> w.status, cost |-> w.cost, tree |-> w.tree]
      /\ w.status \in RunStatuses /\ (w.cost = Unmetered \/ w.cost \in Nat)
  BY <1>2 DEF FieldOK
<1>4. c.index = w.index /\ c.status = w.status /\ c.cost = w.cost /\ c.depth = depth
  BY <1>3 DEF Overlaid
<1> HIDE DEF c
<1>5. w.index \in IndicesOf(proc.fan.worked)
  BY IndexOf
<1>6. w.index \in Indices
  BY <1>2, <1>5 DEF FieldOK, Pending
<1>7. CandidateOK(c)
  <2>1. depth \in Nat
    BY <1>2, ScenarioShape
  <2>. QED BY <1>3, <1>4, <1>6, <2>1 DEF CandidateOK
<1>. QED BY <1>1, <1>4, <1>5, <1>7, SettleInv

(* or throws. *)
LEMMA CandidateThrowsInv ==
  ASSUME TournamentInv, NEW i \in Indices, CandidateThrows(i)
  PROVE  TournamentInv'
<1> DEFINE c == [index |-> i, status |-> "crashed", cost |-> Unmetered,
                 tree |-> proc.fan.from, depth |-> 0]
<1>1. /\ proc' = Settle(c) /\ UNCHANGED << config, world, log, tree, processes >>
      /\ proc.fan # Nothing /\ i \in proc.fan.todo \cup IndicesOf(proc.fan.worked)
  BY DEF CandidateThrows
<1>2. c.index = i /\ CandidateOK(c)
  BY DEF CandidateOK, RunStatuses
<1> HIDE DEF c
<1>. QED BY <1>1, <1>2, SettleInv

(* A field that has settled and is marked is the log's, has everyone, and is not empty. *)
LEMMA SettledField ==
  ASSUME LogOK, NEW fan, FieldOK(fan), MarkedOK(fan), AllSettled(fan), fan.unmarked = {}
  PROVE  /\ Logged(Iteration) = Field(fan) /\ Pending(Field(fan)) = {} /\ Field(fan) # {}
         /\ Distinct(Field(fan)) /\ \A c \in Field(fan) : CandidateOK(c)
         /\ SelectWinner(Field(fan)) \in Field(fan)
         /\ \A b \in Field(fan) \ {SelectWinner(Field(fan))} : Beats(SelectWinner(Field(fan)), b)
<1>1. ConfigOK(config)
  BY ScenarioShape
<1>2. Logged(Iteration) = Field(fan)
  BY DEF MarkedOK, Field
<1>3. Distinct(Field(fan)) /\ \A c \in Field(fan) : CandidateOK(c)
  BY DEF FieldOK
<1>4. IndicesOf(fan.fresh) = Pending(fan.prior)
  BY DEF FieldOK, AllSettled, IndicesOf
<1>5. Pending(Field(fan)) = {} /\ Field(fan) # {}
  <2>1. CASE config.collapse /\ fan.prior # {}
    BY <2>1 DEF Pending, Field
  <2>2. CASE ~(config.collapse /\ fan.prior # {})
    <3>1. \A i \in Indices : i \in IndicesOf(fan.prior) \/ i \in IndicesOf(fan.fresh)
      BY <1>4, <2>2 DEF Pending
    <3>2. Indices \subseteq IndicesOf(Field(fan))
      BY <3>1, IndexOf DEF Field
    <3>3. 0 \in IndicesOf(Field(fan))
      BY <1>1, <3>2, IndicesAreFew
    <3>. QED BY <3>2, <3>3, IndexOf DEF Pending
  <2>. QED BY <2>1, <2>2
<1>. QED BY <1>1, <1>2, <1>3, <1>5, WinnerBeats

-----------------------------------------------------------------------------
(* Steps that append. *)

(* The winner's tree is checked out, and its run is the turn. *)
LEMMA PromoteInv ==
  ASSUME TournamentInv, Promote
  PROVE  TournamentInv'
<1> DEFINE fan == proc.fan
           w == SelectWinner(Field(fan))
           turn == Turn(w.status, fan.from, w.tree)
<1>1. /\ fan # Nothing /\ fan.selected /\ tree' = Promoted(tree, w.tree)
      /\ proc' = [proc EXCEPT !.fan = Nothing, !.turn = turn, !.seq = fan.seq]
      /\ UNCHANGED << config, world, log, processes >>
  BY DEF Promote, TurnOf
<1>2. /\ LogOK /\ ProcOK /\ FieldOK(fan) /\ MarkedOK(fan)
      /\ proc.up /\ proc.st.tag = "RUNNING_AGENT" /\ Reached.tag = "RUNNING_AGENT"
  BY <1>1 DEF TournamentInv, FanOK, ProcOK
<1>3. /\ LogOK' /\ PastOK' /\ UnderWay' /\ VerifiedOK' /\ Reached' = Reached
      /\ LastEvent' = LastEvent /\ log' = log /\ processes' = processes
  BY <1>1, <1>2, QuietStep
<1>4. /\ AllSettled(fan) /\ fan.unmarked = {} /\ log # << >>
      /\ LastEvent.tag = "CANDIDATE_SELECTED" /\ LastEvent.tree = w.tree
  BY <1>1, <1>2 DEF MarkedOK, Selects, LastEvent
<1>5. w.status \in RunStatuses
  BY <1>2, <1>4, SettledField DEF CandidateOK
<1>6. \A h : h = w.tree => Holds(h)'
  <2>1. tree'.tracked = w.tree.tracked /\ w.tree.created \subseteq tree'.created
    BY <1>1 DEF Promoted
  <2>. QED BY <2>1 DEF Holds
<1> HIDE DEF w, fan
<1>7. /\ proc'.fan = Nothing /\ proc'.turn = turn /\ proc'.up /\ proc'.st = proc.st
      /\ DOMAIN proc' = DOMAIN proc
  BY <1>1, <1>2 DEF ProcOK
<1>8. ProcOK' /\ FanOK'
  BY <1>2, <1>3, <1>7 DEF ProcOK, FanOK
<1>9. TurnOK'
  <2>1. proc'.turn.status = w.status /\ proc'.turn.hash = w.tree
        /\ proc'.turn = Turn(proc'.turn.status, proc'.turn.prev, proc'.turn.hash)
    BY <1>7 DEF Turn
  <2>2. Holds(proc.turn.hash)'
    BY <1>6, <2>1
  <2>. QED BY <1>2, <1>3, <1>4, <1>5, <1>7, <2>1, <2>2 DEF TurnOK
<1>. QED BY <1>3, <1>8, <1>9 DEF TournamentInv

(* An entry the fold can take leaves a log that folds. *)
LEMMA LogStep ==
  ASSUME LogOK, NEW x, EventOK(x.event), x.event.tag # "RUN_EXTENDED", log' = Append(log, x),
         UNCHANGED << config, world, processes >>,
         x.event.tag \notin DriverOnlyTags => x.event.tag \in EventsOf(Reached.tag),
         x.event.tag = "CANDIDATE_RAN" => CandidateOK(x.event.candidate)
  PROVE  LogOK' /\ LastEvent' = x.event /\ log' # << >>
<1>1. /\ EntriesOK(log') /\ Markers(log') = {} /\ Reached' # Invalid
      /\ Len(log') = Len(log) + 1 /\ Len(log) \in Nat
      /\ \A i \in 1 .. Len(log) : log'[i] = log[i]
      /\ log'[Len(log) + 1] = x
  BY LogAppend, ReachedAppend, LogShape
<1>2. LastEvent' = x.event /\ log' # << >>
  BY <1>1, EmptySequence DEF LastEvent
<1>3. ASSUME NEW i \in At("CANDIDATE_RAN")' PROVE CandidateOK(log[i].event.candidate)'
  <2>1. CandidateOK(log'[i].event.candidate)
    <3>1. CASE i \in At("CANDIDATE_RAN")
      BY <1>1, <3>1, LogShape DEF LogOK
    <3>2. CASE i = Len(log) + 1 /\ x.event.tag = "CANDIDATE_RAN"
      BY <1>1, <3>2
    <3>. QED BY <1>3, <3>1, <3>2, LogAppend
  <2>. QED BY <2>1 DEF CandidateOK, Indices
<1>4. LogOK'
  <2>1. /\ [config |-> config, world |-> world]' \in Scenarios
        /\ processes' \in 0 .. world'.processes
    BY DEF LogOK
  <2>. QED BY <1>1, <1>3, <2>1 DEF LogOK
<1>. QED BY <1>2, <1>4

(***************************************************************************)
(* What holds of the past holds with one more entry: a candidate that is   *)
(* new, a selection that agrees with the turn's own and is justified by    *)
(* what is logged, a turn that is crashed or follows its selection.        *)
(***************************************************************************)
LEMMA PastStep ==
  ASSUME LogOK, PastOK, NEW x, EventOK(x.event), x.event.tag # "RUN_EXTENDED",
         log' = Append(log, x), config' = config,
         x.event.tag = "CANDIDATE_RAN" =>
           x.event.candidate.index \notin IndicesOf(Logged(x.event.iteration)),
         x.event.tag = "CANDIDATE_SELECTED" =>
           /\ \A i \in At("CANDIDATE_SELECTED") :
                i > Current => /\ log[i].event.winner = x.event.winner
                               /\ log[i].event.tree = x.event.tree
           /\ \E w \in Logged(x.event.iteration) :
                /\ w.index = x.event.winner /\ w.tree = x.event.tree
                /\ \A c \in Logged(x.event.iteration) :
                     c.depth < w.depth \/ (c.depth = w.depth /\ ~Cheaper(c, w))
           /\ ~config.collapse => Indices \subseteq IndicesOf(Logged(x.event.iteration)),
         x.event.tag = "AGENT_RAN" =>
           \/ x.event.hash = SentinelPost /\ x.event.status = "crashed"
           \/ /\ log # << >> /\ LastEvent.tag = "CANDIDATE_SELECTED"
              /\ x.event.hash = LastEvent.tree
  PROVE  PastOK'
<1> DEFINE n == Len(log)
<1>1. /\ n \in Nat /\ log'[n + 1] = x
      /\ \A i \in 1 .. n : log'[i] = log[i]
      /\ \A i, tag : i \in At(tag)' <=> i \in At(tag) \/ (i = n + 1 /\ x.event.tag = tag)
      /\ \A tag, i : i \in At(tag) => i \in 1 .. n
  BY LogShape, LogAppend
<1>2. /\ \A i \in 1 .. n : TurnBegins(i)' = TurnBegins(i) /\ FieldAt(i)' = FieldAt(i)
      /\ \A i \in 1 .. n : TurnBegins(i) < i
      /\ \A k : k = n + 1 => TurnBegins(k)' = Current
      /\ x.event.tag = "CANDIDATE_SELECTED" =>
           \A k : k = n + 1 => FieldAt(k)' = Logged(x.event.iteration)
  BY PastAppend, LoggedAppend, TurnsBegin
<1>9. n = 0 => log = << >>
  BY DEF LogOK, EntriesOK, IsSequence
<1>10. log # << >> => LastEvent = log[n].event
  BY DEF LastEvent
<1>3. n >= 1 => n \in 1 .. n
  BY <1>1
<1> HIDE DEF n
<1>4. SelectionStable'
  <2>1. SUFFICES ASSUME NEW i \in At("CANDIDATE_SELECTED")', NEW j \in At("CANDIDATE_SELECTED")',
                        TurnBegins(i)' = TurnBegins(j)'
                 PROVE  /\ log'[i].event.winner = log'[j].event.winner
                        /\ log'[i].event.tree = log'[j].event.tree
    BY DEF SelectionStable, At
  <2>2. ASSUME NEW a \in At("CANDIDATE_SELECTED"), NEW b, b = n + 1,
               x.event.tag = "CANDIDATE_SELECTED", TurnBegins(a)' = TurnBegins(b)'
        PROVE  /\ log'[a].event.winner = log'[b].event.winner
               /\ log'[a].event.tree = log'[b].event.tree
    <3>1. a \in 1 .. n
      BY <1>1
    <3>2. TurnBegins(a) = Current /\ TurnBegins(a) < a
      BY <1>2, <2>2, <3>1
    <3>. QED BY <1>1, <2>2, <3>1, <3>2
  <2>3. /\ i \in At("CANDIDATE_SELECTED") \/ (i = n + 1 /\ x.event.tag = "CANDIDATE_SELECTED")
        /\ j \in At("CANDIDATE_SELECTED") \/ (j = n + 1 /\ x.event.tag = "CANDIDATE_SELECTED")
    BY <1>1
  <2>4. CASE i \in At("CANDIDATE_SELECTED") /\ j \in At("CANDIDATE_SELECTED")
    <3>1. i \in 1 .. n /\ j \in 1 .. n
      BY <1>1, <2>4
    <3>2. /\ TurnBegins(i)' = TurnBegins(i) /\ TurnBegins(j)' = TurnBegins(j)
          /\ log'[i] = log[i] /\ log'[j] = log[j]
      BY <1>1, <1>2, <3>1
    <3>3. TurnBegins(i) = TurnBegins(j)
      BY <2>1, <3>2
    <3>4. /\ log[i].event.winner = log[j].event.winner
          /\ log[i].event.tree = log[j].event.tree
      BY <2>4, <3>3 DEF PastOK, SelectionStable
    <3>. QED BY <3>2, <3>4
  <2>5. CASE i = j
    BY <2>5
  <2>6. CASE i \in At("CANDIDATE_SELECTED") /\ j = n + 1 /\ x.event.tag = "CANDIDATE_SELECTED"
    BY <2>1, <2>2, <2>6
  <2>7. CASE j \in At("CANDIDATE_SELECTED") /\ i = n + 1 /\ x.event.tag = "CANDIDATE_SELECTED"
    <3>1. TurnBegins(j)' = TurnBegins(i)'
      BY <2>1
    <3>. QED BY <2>2, <2>7, <3>1
  <2>. QED BY <2>3, <2>4, <2>5, <2>6, <2>7
<1>5. SelectionJustified'
  <2>1. SUFFICES ASSUME NEW i \in At("CANDIDATE_SELECTED")'
                 PROVE  /\ \E w \in FieldAt(i)' :
                             /\ w.index = log'[i].event.winner /\ w.tree = log'[i].event.tree
                             /\ \A c \in FieldAt(i)' :
                                  c.depth < w.depth \/ (c.depth = w.depth /\ ~Cheaper(c, w))
                        /\ ~config.collapse => Indices \subseteq IndicesOf(FieldAt(i)')
    BY DEF SelectionJustified, At, FieldAt, Indices
  <2>2. CASE i \in At("CANDIDATE_SELECTED")
    <3>1. i \in 1 .. n
      BY <1>1, <2>2
    <3>2. log'[i] = log[i] /\ FieldAt(i)' = FieldAt(i)
      BY <1>1, <1>2, <3>1
    <3>. QED BY <2>2, <3>2 DEF PastOK, SelectionJustified
  <2>3. CASE i \notin At("CANDIDATE_SELECTED")
    <3>1. i = n + 1 /\ x.event.tag = "CANDIDATE_SELECTED"
      BY <1>1, <2>3
    <3>2. log'[i] = x /\ FieldAt(i)' = Logged(x.event.iteration)
      BY <1>1, <1>2, <3>1
    <3>. QED BY <3>1, <3>2
  <2>. QED BY <2>2, <2>3
<1>6. LoggedOnce'
  <2>1. SUFFICES ASSUME NEW i \in At("CANDIDATE_RAN")', NEW j \in At("CANDIDATE_RAN")',
                        log'[i].event.iteration = log'[j].event.iteration,
                        log'[i].event.candidate.index = log'[j].event.candidate.index
                 PROVE  i = j
    BY DEF LoggedOnce, At
  <2>2. ASSUME NEW a \in At("CANDIDATE_RAN"), x.event.tag = "CANDIDATE_RAN",
               log[a].event.iteration = x.event.iteration,
               log[a].event.candidate.index = x.event.candidate.index
        PROVE  FALSE
    <3>1. log[a].event.candidate \in Logged(x.event.iteration)
      BY <2>2, LoggedAre
    <3>. QED BY <2>2, <3>1, IndexOf
  <2>3. CASE i \in At("CANDIDATE_RAN") /\ j \in At("CANDIDATE_RAN")
    BY <1>1, <2>1, <2>3 DEF PastOK, LoggedOnce
  <2>4. CASE i \notin At("CANDIDATE_RAN") /\ j \notin At("CANDIDATE_RAN")
    BY <1>1, <2>4
  <2>5. CASE i \in At("CANDIDATE_RAN") /\ j \notin At("CANDIDATE_RAN")
    BY <1>1, <2>1, <2>2, <2>5
  <2>6. CASE i \notin At("CANDIDATE_RAN") /\ j \in At("CANDIDATE_RAN")
    BY <1>1, <2>1, <2>2, <2>6
  <2>. QED BY <2>3, <2>4, <2>5, <2>6
<1>7. TurnIsItsSelection'
  <2>1. SUFFICES ASSUME NEW i \in At("AGENT_RAN")'
                 PROVE  \/ log'[i].event.hash = SentinelPost /\ log'[i].event.status = "crashed"
                        \/ /\ i > 1 /\ log'[i - 1].event.tag = "CANDIDATE_SELECTED"
                           /\ log'[i].event.hash = log'[i - 1].event.tree
    BY DEF TurnIsItsSelection, At
  <2>2. CASE i \in At("AGENT_RAN")
    <3>1. i \in 1 .. n /\ log'[i] = log[i]
      BY <1>1, <2>2
    <3>2. i > 1 => i - 1 \in 1 .. n /\ log'[i - 1] = log[i - 1]
      <4>1. i > 1 => i - 1 \in 1 .. n
        BY <1>1, <3>1
      <4>. QED BY <1>1, <4>1
    <3>3. \/ log[i].event.hash = SentinelPost /\ log[i].event.status = "crashed"
          \/ /\ i > 1 /\ log[i - 1].event.tag = "CANDIDATE_SELECTED"
             /\ log[i].event.hash = log[i - 1].event.tree
      BY <2>2 DEF PastOK, TurnIsItsSelection
    <3>. QED BY <3>1, <3>2, <3>3
  <2>3. CASE i \notin At("AGENT_RAN")
    <3>1. i = n + 1 /\ x.event.tag = "AGENT_RAN" /\ log'[i] = x
      BY <1>1, <2>3
    <3>2. CASE x.event.hash = SentinelPost /\ x.event.status = "crashed"
      BY <3>1, <3>2
    <3>3. CASE /\ log # << >> /\ LastEvent.tag = "CANDIDATE_SELECTED"
               /\ x.event.hash = LastEvent.tree
      <4>1. n >= 1 /\ i - 1 = n /\ i > 1
        BY <1>1, <1>9, <3>1, <3>3
      <4>2. log'[n] = log[n] /\ LastEvent = log[n].event
        BY <1>1, <1>3, <1>10, <3>3, <4>1
      <4>. QED BY <3>1, <3>3, <4>1, <4>2
    <3>. QED BY <3>1, <3>2, <3>3
  <2>. QED BY <2>2, <2>3
<1>. QED BY <1>4, <1>5, <1>6, <1>7 DEF PastOK

(* The least of some indices is one of them. *)
LEMMA MinIsAMember ==
  ASSUME NEW S, S \subseteq Nat, S # {}
  PROVE  Min(S) \in S
<1>1. \E m \in S : \A x \in S : m <= x
  BY LeastNat
<1>. QED BY <1>1 DEF Min

(* A marker of the turn under way: the fold and the iteration stay. *)
LEMMA MarkedStep ==
  ASSUME TournamentInv, NEW x, x.event.tag \in {"CANDIDATE_RAN", "CANDIDATE_SELECTED"},
         log' = Append(log, x), UNCHANGED << config, world, processes >>,
         x.event.tag = "CANDIDATE_RAN" => CandidateOK(x.event.candidate)
  PROVE  /\ LogOK' /\ LastEvent' = x.event /\ log' # << >>
         /\ Reached' = Reached /\ Iteration' = Iteration /\ Current' = Current
         /\ \A fan : FieldOK(fan) => FieldOK(fan)'
<1>1. LogOK
  BY DEF TournamentInv
<1>2. EventOK(x.event) /\ x.event.tag \in DriverOnlyTags /\ x.event.tag # "RUN_EXTENDED"
      /\ x.event.tag # "AGENT_RAN"
  BY DEF EventOK, DriverOnlyTags
<1>3. LogOK' /\ LastEvent' = x.event /\ log' # << >>
  BY <1>1, <1>2, LogStep
<1>4. Reached' = Reached
  BY <1>1, <1>2, ReachedAppend
<1>5. Current' = Current
  BY <1>1, <1>2, PastAppend
<1>6. Iteration' = Iteration
  BY <1>4 DEF Iteration
<1>7. ASSUME NEW fan, FieldOK(fan) PROVE FieldOK(fan)'
  BY <1>7 DEF FieldOK, Pending, Indices, CandidateOK
<1>. QED BY <1>3, <1>4, <1>5, <1>6, <1>7

(* The marker of a candidate. *)
LEMMA AppendMarkerInv ==
  ASSUME TournamentInv, AppendMarker
  PROVE  TournamentInv'
<1> DEFINE fan == proc.fan
<1>1. /\ fan # Nothing /\ AllSettled(fan) /\ fan.unmarked # {}
      /\ UNCHANGED << config, world, tree, processes >>
  BY DEF AppendMarker
<1>2. PICK c \in fan.fresh :
        /\ c.index = Min(fan.unmarked)
        /\ log' = Marked([tag |-> "CANDIDATE_RAN", iteration |-> fan.iteration,
                          candidate |-> c], fan.seq + 1)
        /\ proc' = FanOut([fan EXCEPT !.unmarked = @ \ {c.index}, !.seq = @ + 1])
  BY DEF AppendMarker
<1> DEFINE x == Entry(fan.seq + 1, [tag |-> "CANDIDATE_RAN", iteration |-> fan.iteration,
                                    candidate |-> c], "RUNNING_AGENT")
           g == [fan EXCEPT !.unmarked = @ \ {c.index}, !.seq = @ + 1]
<1>3. /\ LogOK /\ PastOK /\ UnderWay /\ ProcOK /\ FieldOK(fan) /\ MarkedOK(fan)
      /\ proc.up /\ proc.turn = Nothing /\ proc.st.tag = "RUNNING_AGENT" /\ proc.st = Reached
  BY <1>1 DEF TournamentInv, FanOK, ProcOK
<1>4. /\ x.event.tag = "CANDIDATE_RAN" /\ x.event.iteration = Iteration
      /\ x.event.candidate = c
      /\ log' = Append(log, x) /\ proc' = FanOut(g)
  BY <1>2, <1>3 DEF Entry, Marked, MarkedOK
<1>5. /\ g.unmarked = fan.unmarked \ {c.index} /\ g.todo = fan.todo /\ g.worked = fan.worked
      /\ g.prior = fan.prior /\ g.fresh = fan.fresh /\ g.iteration = fan.iteration
      /\ g.selected = fan.selected /\ DOMAIN g = DOMAIN fan
  BY <1>3 DEF FieldOK
<1> HIDE DEF x, g
<1>6. CandidateOK(c) /\ c \in Field(fan)
  BY <1>3 DEF FieldOK, Field
<1>7. /\ LogOK' /\ LastEvent' = x.event /\ log' # << >>
      /\ Reached' = Reached /\ Iteration' = Iteration /\ Current' = Current
      /\ \A f : FieldOK(f) => FieldOK(f)'
  BY <1>1, <1>4, <1>6, MarkedStep
<1>8. c.index \in fan.unmarked
  <2>1. fan.unmarked \subseteq Indices
    BY <1>3 DEF FieldOK, Pending
  <2>2. ConfigOK(config)
    BY <1>3, ScenarioShape
  <2>3. Indices \subseteq Nat
    BY <2>2 DEF ConfigOK, Knobs, Indices
  <2>. QED BY <1>1, <1>2, <2>1, <2>3, MinIsAMember
<1>9. \A i \in At("CANDIDATE_SELECTED") : ~(i > Current)
  BY <1>1, <1>3 DEF MarkedOK
<1>10. c.index \notin IndicesOf(Logged(Iteration))
  <2>1. ASSUME NEW d \in Logged(Iteration), d.index = c.index PROVE FALSE
    <3>1. d \in Field(fan)
      BY <1>3 DEF MarkedOK, Field
    <3>2. d = c
      BY <1>3, <1>6, <2>1, <3>1 DEF FieldOK, Distinct
    <3>3. d \in fan.prior
      BY <1>3, <1>8, <2>1 DEF MarkedOK
    <3>4. c.index \in IndicesOf(fan.fresh) /\ c.index \in IndicesOf(fan.prior)
      BY <3>2, <3>3, IndexOf
    <3>. QED BY <1>3, <3>4 DEF FieldOK, Pending
  <2>. QED BY <2>1, IndexOf
<1>11. EventOK(x.event) /\ x.event.tag # "RUN_EXTENDED"
  BY <1>4 DEF EventOK, DriverOnlyTags
<1>12. PastOK'
  BY <1>1, <1>3, <1>4, <1>10, <1>11, PastStep
<1>13. /\ \A i : i \in At("CANDIDATE_SELECTED")' <=> i \in At("CANDIDATE_SELECTED")
       /\ \A i : i \in At("CANDIDATE_RAN")' <=> i \in At("CANDIDATE_RAN") \/ i = Len(log) + 1
       /\ \A i \in 1 .. Len(log) : log'[i] = log[i]
       /\ log'[Len(log) + 1] = x
       /\ \A i, tag : i \in At(tag) => i \in 1 .. Len(log)
  BY <1>3, <1>4, <1>11, LogAppend, LogShape
<1>14. UnderWay'
  <2>1. ASSUME NEW i \in At("CANDIDATE_RAN")' \cup At("CANDIDATE_SELECTED")', i > Current
        PROVE  Reached.tag = "RUNNING_AGENT" /\ log'[i].event.iteration = Iteration
    <3>1. CASE i = Len(log) + 1
      BY <1>3, <1>4, <1>13, <3>1
    <3>2. CASE i \in At("CANDIDATE_RAN") \cup At("CANDIDATE_SELECTED")
      BY <1>3, <1>13, <2>1, <3>2 DEF UnderWay
    <3>. QED BY <1>13, <2>1, <3>1, <3>2
  <2>2. \A i \in At("CANDIDATE_SELECTED")' : ~(i > Current)
    BY <1>9, <1>13
  <2>. QED BY <1>7, <2>1, <2>2 DEF UnderWay
<1>15. FieldOK(g)
  <2>1. Field(g) = Field(fan)
    BY <1>5 DEF Field
  <2>. QED BY <1>3, <1>5, <2>1 DEF FieldOK
<1>16. \A f : f = g => MarkedOK(f)'
  <2>1. Logged(Iteration)' = Logged(Iteration) \cup {c}
    <3>1. \A m : m = Iteration => Logged(m)' = Logged(m) \cup {c}
      BY <1>3, <1>4, <1>11, LoggedAppend
    <3>2. Logged(Iteration)' = { log'[i].event.candidate : i \in { j \in DOMAIN log' :
             log'[j].event.tag = "CANDIDATE_RAN" /\ log'[j].event.iteration = Iteration } }
      BY <1>7 DEF Logged
    <3>. QED BY <3>1, <3>2 DEF Logged
  <2>2. { d \in g.fresh : d.index \notin g.unmarked }
          = { d \in fan.fresh : d.index \notin fan.unmarked } \cup {c}
    <3>1. ASSUME NEW d \in fan.fresh
          PROVE  d.index \notin g.unmarked <=> d.index \notin fan.unmarked \/ d = c
      BY <1>3, <1>5, <1>6, <1>8 DEF FieldOK, Distinct, Field
    <3>. QED BY <1>5, <3>1
  <2>3. Logged(Iteration) = fan.prior \cup { d \in fan.fresh : d.index \notin fan.unmarked }
    BY <1>3 DEF MarkedOK
  <2>4. Logged(Iteration)' = g.prior \cup { d \in g.fresh : d.index \notin g.unmarked }
    BY <1>5, <2>1, <2>2, <2>3
  <2>5. ~g.selected
    BY <1>1, <1>3, <1>5 DEF MarkedOK
  <2>6. g.iteration = Iteration
    BY <1>3, <1>5 DEF MarkedOK
  <2>7. \A i \in At("CANDIDATE_SELECTED")' : ~(i > Current')
    BY <1>7, <1>9, <1>13
  <2>. QED BY <1>7, <2>4, <2>5, <2>6, <2>7 DEF MarkedOK
<1>17. /\ proc'.fan = g /\ proc'.up /\ proc'.turn = Nothing /\ proc'.st = proc.st
       /\ DOMAIN proc' = DOMAIN proc
  BY <1>3, <1>4 DEF FanOut, ProcOK
<1>18. FanOK'
  <2>1. FieldOK(proc.fan)'
    BY <1>7, <1>15, <1>17
  <2>2. MarkedOK(proc.fan)'
    BY <1>16, <1>17
  <2>. QED BY <1>3, <1>17, <2>1, <2>2 DEF FanOK
<1>19. ProcOK' /\ TurnOK' /\ VerifiedOK'
  BY <1>1, <1>3, <1>7, <1>17 DEF ProcOK, TurnOK, VerifiedOK
<1>. QED BY <1>7, <1>12, <1>14, <1>18, <1>19 DEF TournamentInv

(* The selection. *)
LEMMA SelectInv ==
  ASSUME TournamentInv, Select
  PROVE  TournamentInv'
<1> DEFINE fan == proc.fan
           w == SelectWinner(Field(fan))
           x == Entry(fan.seq + 1, [tag |-> "CANDIDATE_SELECTED", iteration |-> fan.iteration,
                                    winner |-> w.index, tree |-> w.tree], "RUNNING_AGENT")
           g == [fan EXCEPT !.selected = TRUE, !.seq = @ + 1]
<1>1. /\ fan # Nothing /\ AllSettled(fan) /\ fan.unmarked = {}
      /\ proc' = FanOut(g) /\ log' = Append(log, x)
      /\ UNCHANGED << config, world, tree, processes >>
  BY DEF Select, Marked
<1>2. /\ LogOK /\ PastOK /\ UnderWay /\ ProcOK /\ FieldOK(fan) /\ MarkedOK(fan)
      /\ proc.up /\ proc.turn = Nothing /\ proc.st.tag = "RUNNING_AGENT" /\ proc.st = Reached
  BY <1>1 DEF TournamentInv, FanOK, ProcOK
<1>3. /\ x.event.tag = "CANDIDATE_SELECTED" /\ x.event.iteration = Iteration
      /\ x.event.winner = w.index /\ x.event.tree = w.tree
  BY <1>2 DEF Entry, MarkedOK
<1>4. /\ g.unmarked = fan.unmarked /\ g.todo = fan.todo /\ g.worked = fan.worked
      /\ g.prior = fan.prior /\ g.fresh = fan.fresh /\ g.iteration = fan.iteration
      /\ g.selected = TRUE /\ DOMAIN g = DOMAIN fan
  BY <1>2 DEF FieldOK
<1>5. /\ Logged(Iteration) = Field(fan) /\ Pending(Field(fan)) = {} /\ Field(fan) # {}
      /\ \A c \in Field(fan) : CandidateOK(c)
      /\ w \in Field(fan) /\ \A b \in Field(fan) \ {w} : Beats(w, b)
  BY <1>1, <1>2, SettledField
<1>6. w = SelectWinner(Field(fan))
  OBVIOUS
<1> HIDE DEF x, g, w
<1>7. /\ LogOK' /\ LastEvent' = x.event /\ log' # << >>
      /\ Reached' = Reached /\ Iteration' = Iteration /\ Current' = Current
      /\ \A f : FieldOK(f) => FieldOK(f)'
  BY <1>1, <1>3, MarkedStep
<1>8. EventOK(x.event) /\ x.event.tag # "RUN_EXTENDED"
  BY <1>3 DEF EventOK, DriverOnlyTags
<1>9. PastOK'
  <2>1. ASSUME NEW i \in At("CANDIDATE_SELECTED"), i > Current
        PROVE  log[i].event.winner = x.event.winner /\ log[i].event.tree = x.event.tree
    <3>1. Selects(i, Field(fan))
      BY <1>2, <1>5, <2>1 DEF UnderWay
    <3>. QED BY <1>3, <1>6, <3>1 DEF Selects
  <2>2. ASSUME NEW c \in Field(fan)
        PROVE  c.depth < w.depth \/ (c.depth = w.depth /\ ~Cheaper(c, w))
    <3>1. CandidateOK(c) /\ CandidateOK(w) /\ (c = w \/ Beats(w, c))
      BY <1>5
    <3>. QED BY <3>1 DEF CandidateOK, Beats, Cheaper
  <2>3. ~config.collapse => Indices \subseteq IndicesOf(Field(fan))
    BY <1>5 DEF Pending
  <2>4. x.event.tag # "CANDIDATE_RAN" /\ x.event.tag # "AGENT_RAN"
    BY <1>3
  <2>5. \E v \in Logged(x.event.iteration) :
          /\ v.index = x.event.winner /\ v.tree = x.event.tree
          /\ \A c \in Logged(x.event.iteration) :
               c.depth < v.depth \/ (c.depth = v.depth /\ ~Cheaper(c, v))
    BY <1>3, <1>5, <2>2
  <2>6. ~config.collapse => Indices \subseteq IndicesOf(Logged(x.event.iteration))
    BY <1>3, <1>5, <2>3
  <2>. QED BY <1>1, <1>2, <1>8, <2>1, <2>4, <2>5, <2>6, PastStep
<1>10. /\ \A i : i \in At("CANDIDATE_RAN")' <=> i \in At("CANDIDATE_RAN")
       /\ \A i : i \in At("CANDIDATE_SELECTED")' <=>
                   i \in At("CANDIDATE_SELECTED") \/ i = Len(log) + 1
       /\ \A i \in 1 .. Len(log) : log'[i] = log[i]
       /\ log'[Len(log) + 1] = x /\ Len(log') = Len(log) + 1
       /\ \A i, tag : i \in At(tag) => i \in 1 .. Len(log)
  BY <1>1, <1>2, <1>3, <1>8, LogAppend, LogShape
<1>11. Logged(Iteration)' = Field(fan)
  <2>1. \A m : m = Iteration => Logged(m)' = Logged(m)
    BY <1>1, <1>2, <1>3, <1>8, LoggedAppend
  <2>2. Logged(Iteration)' = { log'[i].event.candidate : i \in { j \in DOMAIN log' :
           log'[j].event.tag = "CANDIDATE_RAN" /\ log'[j].event.iteration = Iteration } }
    BY <1>7 DEF Logged
  <2>. QED BY <1>5, <2>1, <2>2 DEF Logged
<1>12. ASSUME NEW i \in At("CANDIDATE_SELECTED")', i > Current
       PROVE  log'[i].event.winner = w.index /\ log'[i].event.tree = w.tree
  <2>1. CASE i \in At("CANDIDATE_SELECTED")
    <3>1. Selects(i, Field(fan)) /\ log'[i] = log[i]
      BY <1>2, <1>5, <1>10, <1>12, <2>1 DEF UnderWay
    <3>. QED BY <1>6, <3>1 DEF Selects
  <2>2. CASE i = Len(log) + 1
    BY <1>3, <1>10, <2>2
  <2>. QED BY <1>10, <2>1, <2>2
<1>13. UnderWay'
  <2>1. ASSUME NEW i \in At("CANDIDATE_RAN")' \cup At("CANDIDATE_SELECTED")', i > Current
        PROVE  Reached.tag = "RUNNING_AGENT" /\ log'[i].event.iteration = Iteration
    <3>1. CASE i = Len(log) + 1
      BY <1>2, <1>3, <1>10, <3>1
    <3>2. CASE i \in At("CANDIDATE_RAN") \cup At("CANDIDATE_SELECTED")
      BY <1>2, <1>10, <2>1, <3>2 DEF UnderWay
    <3>. QED BY <1>10, <2>1, <3>1, <3>2
  <2>2. /\ Pending(Logged(Iteration))' = {} /\ Logged(Iteration)' # {}
    <3>1. Pending(Logged(Iteration))'
            = IF config.collapse /\ Logged(Iteration)' # {} THEN {}
              ELSE Indices \ IndicesOf(Logged(Iteration)')
      BY <1>1 DEF Pending, Indices
    <3>. QED BY <1>5, <1>11, <3>1 DEF Pending
  <2>3. ASSUME NEW i \in At("CANDIDATE_SELECTED")', i > Current'
        PROVE  Selects(i, Logged(Iteration))'
    <3>1. log'[i].event.winner = w.index /\ log'[i].event.tree = w.tree
      BY <1>7, <1>12, <2>3
    <3>2. SelectWinner(Logged(Iteration))' = w
      BY <1>6, <1>11 DEF SelectWinner
    <3>. QED BY <3>1, <3>2 DEF Selects
  <2>. QED BY <1>7, <2>1, <2>2, <2>3 DEF UnderWay
<1>14. FieldOK(g) /\ Field(g) = Field(fan)
  <2>1. Field(g) = Field(fan)
    BY <1>4 DEF Field
  <2>. QED BY <1>2, <1>4, <2>1 DEF FieldOK
<1>15. \A f : f = g => MarkedOK(f)'
  <2>1. Logged(Iteration)' = g.prior \cup { d \in g.fresh : d.index \notin g.unmarked }
    BY <1>1, <1>4, <1>11 DEF Field
  <2>2. AllSettled(g) /\ g.unmarked = {} /\ g.iteration = Iteration
    BY <1>1, <1>2, <1>4 DEF AllSettled, MarkedOK
  <2>3. log'[Len(log')].event.winner = SelectWinner(Field(g)).index
        /\ log'[Len(log')].event.tree = SelectWinner(Field(g)).tree
    BY <1>3, <1>6, <1>10, <1>14
  <2>4. LastEvent'.tag = "CANDIDATE_SELECTED"
    BY <1>3, <1>7
  <2>. QED BY <1>7, <2>1, <2>2, <2>3, <2>4 DEF MarkedOK, Selects
<1>16. /\ proc'.fan = g /\ proc'.up /\ proc'.turn = Nothing /\ proc'.st = proc.st
       /\ DOMAIN proc' = DOMAIN proc
  BY <1>1, <1>2 DEF FanOut, ProcOK
<1>17. FanOK'
  <2>1. FieldOK(proc.fan)'
    BY <1>7, <1>14, <1>16
  <2>2. MarkedOK(proc.fan)'
    BY <1>15, <1>16
  <2>. QED BY <1>2, <1>16, <2>1, <2>2 DEF FanOK
<1>18. ProcOK' /\ TurnOK' /\ VerifiedOK'
  BY <1>1, <1>2, <1>7, <1>16 DEF ProcOK, TurnOK, VerifiedOK
<1>. QED BY <1>7, <1>9, <1>13, <1>17, <1>18 DEF TournamentInv

(* The result of another command reads as an event that is no turn. *)
LEMMA OtherReads ==
  ASSUME NEW r, ResultOK(r), NEW e,
         e = IF r.tag = "PHASE_ADVANCED" THEN Overlaid(r, [tree |-> tree]) ELSE r
  PROVE  e.tag = r.tag /\ ReadingOK(e) /\ e.tag # "AGENT_RAN" /\ e.tag \notin DriverOnlyTags
<1>1. CASE r.tag = "PHASE_ADVANCED"
  <2>1. r \in [tag : {"PLAN_FAILED", "PHASE_ADVANCED", "COMPILE_FAILED"}]
    BY <1>1 DEF ResultOK
  <2>2. e.tag = r.tag
    BY <1>1, <2>1 DEF Overlaid
  <2>. QED BY <1>1, <2>2 DEF ReadingOK, ResultTags, DriverOnlyTags
<1>2. CASE r.tag # "PHASE_ADVANCED"
  BY <1>2 DEF ResultOK, ReadingOK, ResultTags, DriverOnlyTags
<1>. QED BY <1>1, <1>2

(* Committing an event of the reducer's. *)
LEMMA CommittedStep ==
  ASSUME TournamentInv, proc.up, NEW e, ReadingOK(e), e.tag \in EventsOf(Reached.tag),
         e.tag \notin DriverOnlyTags, Committed(e),
         UNCHANGED << config, world, tree, processes >>,
         e.tag = "AGENT_RAN" => \/ e.hash = SentinelPost /\ e.status = "crashed"
                                \/ /\ log # << >> /\ LastEvent.tag = "CANDIDATE_SELECTED"
                                   /\ e.hash = LastEvent.tree
  PROVE  /\ LogOK' /\ PastOK' /\ LastEvent' = e /\ log' # << >>
         /\ \E x : x.event = e /\ log' = Append(log, x)
         /\ Reached' = Step(config, Reached, e)
         /\ proc' = [proc EXCEPT !.st = Reached', !.seq = proc.seq + 1, !.turn = Nothing]
<1>1. LogOK /\ PastOK /\ proc.st = Reached
  BY DEF TournamentInv, ProcOK
<1> DEFINE next == Step(config, Reached, e)
           x == Entry(proc.seq + 1, e, next.tag)
<1>2. /\ log' = Append(log, x)
      /\ proc' = [proc EXCEPT !.st = next, !.seq = proc.seq + 1, !.turn = Nothing]
  BY <1>1 DEF Committed
<1>3. x.event = e
  BY DEF Entry
<1> HIDE DEF x, next
<1>4. EventOK(x.event) /\ x.event.tag # "RUN_EXTENDED" /\ x.event.tag # "CANDIDATE_RAN"
      /\ x.event.tag # "CANDIDATE_SELECTED"
  BY <1>3 DEF EventOK, DriverOnlyTags
<1>5. LogOK' /\ LastEvent' = e /\ log' # << >>
  BY <1>1, <1>2, <1>3, <1>4, LogStep
<1>6. PastOK'
  BY <1>1, <1>2, <1>3, <1>4, PastStep
<1>7. Reached' = next
  BY <1>1, <1>2, <1>3, <1>4, ReachedAppend DEF next
<1>. QED BY <1>2, <1>3, <1>5, <1>6, <1>7 DEF next

(* Any other command. *)
LEMMA PerformOtherInv ==
  ASSUME TournamentInv, NEW r \in world.results, PerformOther(r)
  PROVE  TournamentInv'
<1> DEFINE e == IF r.tag = "PHASE_ADVANCED" THEN Overlaid(r, [tree |-> tree]) ELSE r
<1>1. /\ proc.up /\ r.tag \in EventsOf(proc.st.tag) /\ Committed(e)
      /\ UNCHANGED << config, world, tree, processes >>
  BY DEF PerformOther
<1>2. /\ LogOK /\ UnderWay /\ ProcOK /\ FanOK /\ TurnOK /\ proc.st = Reached
  BY <1>1 DEF TournamentInv, ProcOK
<1>3. ResultOK(r) /\ ConfigOK(config)
  BY <1>2, ScenarioShape
<1>4. e.tag = r.tag /\ ReadingOK(e) /\ e.tag # "AGENT_RAN" /\ e.tag \notin DriverOnlyTags
  BY <1>3, OtherReads
<1> HIDE DEF e
<1>5. Reached.tag # "RUNNING_AGENT"
  BY <1>1, <1>2, <1>4 DEF EventsOf
<1>6. /\ LogOK' /\ PastOK' /\ log' # << >>
      /\ Reached' = Step(config, Reached, e)
      /\ proc' = [proc EXCEPT !.st = Reached', !.seq = proc.seq + 1, !.turn = Nothing]
  BY <1>1, <1>2, <1>4, CommittedStep
<1>7. PICK x : x.event = e /\ log' = Append(log, x)
  BY <1>1, <1>2, <1>4, CommittedStep
<1>8. proc.fan = Nothing
  BY <1>2, <1>5 DEF FanOK
<1>9. Reached'.tag # "VERIFYING"
  <2>1. StateShape(config, Reached, Len(log)) /\ Len(log) \in Nat
    BY <1>2, ReachedShape
  <2>. QED BY <1>1, <1>2, <1>3, <1>4, <1>5, <1>6, <2>1, TurnsAreVerified
<1>10. UnderWay'
  <2>1. EventOK(x.event) /\ x.event.tag # "RUN_EXTENDED" /\ x.event.tag # "AGENT_RAN"
        /\ x.event.tag # "CANDIDATE_RAN" /\ x.event.tag # "CANDIDATE_SELECTED"
    BY <1>4, <1>7 DEF EventOK, DriverOnlyTags
  <2>2. /\ Current' = Current
        /\ \A i : i \in At("CANDIDATE_RAN")' <=> i \in At("CANDIDATE_RAN")
        /\ \A i : i \in At("CANDIDATE_SELECTED")' <=> i \in At("CANDIDATE_SELECTED")
    BY <1>2, <1>7, <2>1, PastAppend, LogAppend
  <2>3. \A i \in At("CANDIDATE_RAN") \cup At("CANDIDATE_SELECTED") : ~(i > Current)
    BY <1>2, <1>5 DEF UnderWay
  <2>. QED BY <2>2, <2>3 DEF UnderWay
<1>11. /\ proc'.fan = Nothing /\ proc'.turn = Nothing /\ proc'.up /\ proc'.st = Reached'
       /\ DOMAIN proc' = DOMAIN proc
  BY <1>1, <1>2, <1>6, <1>8 DEF ProcOK
<1>12. ProcOK' /\ FanOK' /\ TurnOK' /\ VerifiedOK'
  BY <1>1, <1>2, <1>9, <1>11 DEF ProcOK, FanOK, TurnOK, VerifiedOK
<1>. QED BY <1>6, <1>10, <1>12 DEF TournamentInv

(* The turn. *)
LEMMA CommitTurnInv ==
  ASSUME TournamentInv, CommitTurn
  PROVE  TournamentInv'
<1> DEFINE e == proc.turn
<1>1. /\ proc.up /\ e # Nothing /\ Committed(e)
      /\ UNCHANGED << config, world, tree, processes >>
  BY DEF CommitTurn
<1>2. /\ LogOK /\ ProcOK /\ proc.st = Reached /\ proc.fan = Nothing
      /\ Reached.tag = "RUNNING_AGENT"
      /\ e = Turn(e.status, e.prev, e.hash) /\ e.status \in RunStatuses
      /\ \/ e.status = "crashed" /\ e.hash = SentinelPost
         \/ /\ log # << >> /\ LastEvent.tag = "CANDIDATE_SELECTED"
            /\ LastEvent.tree = e.hash /\ Holds(e.hash)
  BY <1>1 DEF TournamentInv, ProcOK, TurnOK
<1> HIDE DEF e
<1>3. e.tag = "AGENT_RAN" /\ ReadingOK(e) /\ e.tag \notin DriverOnlyTags
      /\ e.tag \in EventsOf(Reached.tag)
  <2>1. /\ e.tag = "AGENT_RAN" /\ e.budget = FALSE
        /\ DOMAIN e = {"tag", "status", "prev", "hash", "budget"}
    <3>1. \A s, p, h : /\ Turn(s, p, h).tag = "AGENT_RAN" /\ Turn(s, p, h).budget = FALSE
                       /\ DOMAIN Turn(s, p, h) = {"tag", "status", "prev", "hash", "budget"}
      BY DEF Turn
    <3>. QED BY <1>2, <3>1
  <2>. QED BY <1>2, <2>1 DEF ReadingOK, ResultTags, DriverOnlyTags, EventsOf
<1>4. /\ LogOK' /\ PastOK' /\ LastEvent' = e /\ log' # << >>
      /\ Reached' = Step(config, Reached, e)
      /\ proc' = [proc EXCEPT !.st = Reached', !.seq = proc.seq + 1, !.turn = Nothing]
  BY <1>1, <1>2, <1>3, CommittedStep
<1>5. PICK x : x.event = e /\ log' = Append(log, x)
  BY <1>1, <1>2, <1>3, CommittedStep
<1>6. UnderWay'
  <2>1. EventOK(x.event) /\ x.event.tag # "RUN_EXTENDED"
    BY <1>3, <1>5 DEF EventOK
  <2>2. Current' = Len(log) + 1
    BY <1>2, <1>3, <1>5, <2>1, PastAppend
  <2>3. ASSUME NEW i \in At("CANDIDATE_RAN")' \cup At("CANDIDATE_SELECTED")'
        PROVE  ~(i > Len(log) + 1)
    BY <1>2, <1>5, <2>1, LogAppend, LogShape
  <2>. QED BY <2>2, <2>3 DEF UnderWay
<1>7. /\ proc'.fan = Nothing /\ proc'.turn = Nothing /\ proc'.up /\ proc'.st = Reached'
      /\ DOMAIN proc' = DOMAIN proc
  BY <1>1, <1>2, <1>4 DEF ProcOK
<1>8. ProcOK' /\ FanOK' /\ TurnOK'
  BY <1>1, <1>2, <1>7 DEF ProcOK, FanOK, TurnOK
<1>9. VerifiedOK'
  <2>1. e.hash # SentinelPost => Holds(e.hash)
    BY <1>2
  <2>2. \A h : Holds(h) => Holds(h)'
    BY <1>1 DEF Holds
  <2>3. LastEvent'.hash # SentinelPost => Holds(LastEvent.hash)'
    BY <1>4, <2>1, <2>2
  <2>. QED BY <1>3, <1>4, <2>3 DEF VerifiedOK
<1>. QED BY <1>4, <1>6, <1>8, <1>9 DEF TournamentInv

-----------------------------------------------------------------------------
(* The theorems. *)

(* Every step preserves the invariant. *)
LEMMA NextInv == TournamentInv /\ [Next]_vars => TournamentInv'
<1> SUFFICES ASSUME TournamentInv, [Next]_vars PROVE TournamentInv'
  OBVIOUS
<1>1. CASE UNCHANGED vars
  <2>1. /\ LogOK' /\ PastOK' /\ UnderWay' /\ VerifiedOK'
        /\ Reached' = Reached /\ LastEvent' = LastEvent /\ log' = log /\ processes' = processes
        /\ \A f : (FieldOK(f) => FieldOK(f)') /\ (MarkedOK(f) => MarkedOK(f)')
    BY <1>1, QuietStep DEF vars
  <2>2. proc' = proc /\ tree' = tree
    BY <1>1 DEF vars
  <2>3. ProcOK'
    BY <2>1, <2>2 DEF TournamentInv, ProcOK
  <2>4. FanOK'
    BY <2>1, <2>2 DEF TournamentInv, FanOK
  <2>5. \A h : Holds(h)' = Holds(h)
    BY <2>2 DEF Holds
  <2>6. TurnOK'
    <3>1. Holds(proc.turn.hash)' = Holds(proc.turn.hash)
      BY <2>2 DEF Holds
    <3>. QED BY <2>1, <2>2, <3>1 DEF TournamentInv, TurnOK
  <2>. QED BY <2>1, <2>3, <2>4, <2>6 DEF TournamentInv
<1>2. CASE Start \/ Resume
  BY <1>2, BeginsInv
<1>3. CASE Stop
  BY <1>3, StopInv
<1>4. CASE \E r \in world.results : PerformOther(r)
  BY <1>4, PerformOtherInv
<1>5. CASE BeginFanOut
  BY <1>5, BeginFanOutInv
<1>6. CASE SnapshotThrows \/ AppendThrows \/ PromoteThrows
  BY <1>6, ThrownInv
<1>7. CASE Candidate
  <2>1. CASE \E i \in Indices, edit \in world.edits, status \in world.statuses,
               cost \in world.costs : RunWorker(i, edit, status, cost)
    BY <2>1, RunWorkerInv
  <2>2. CASE proc.fan # Nothing /\ \E w \in proc.fan.worked, depth \in world.depths :
               ScoreCandidate(w, depth)
    BY <2>2, ScoreInv
  <2>3. CASE \E i \in Indices : CandidateThrows(i)
    BY <2>3, CandidateThrowsInv
  <2>. QED BY <1>7, <2>1, <2>2, <2>3 DEF Candidate
<1>8. CASE AppendMarker
  BY <1>8, AppendMarkerInv
<1>9. CASE Select
  BY <1>9, SelectInv
<1>10. CASE Promote
  BY <1>10, PromoteInv
<1>11. CASE CommitTurn
  BY <1>11, CommitTurnInv
<1>. QED BY <1>1, <1>2, <1>3, <1>4, <1>5, <1>6, <1>7, <1>8, <1>9, <1>10, <1>11 DEF Next, Conclude

(* Every reachable state satisfies it. *)
LEMMA TournamentHolds == Spec => []TournamentInv
<1>. QED BY InitInv, NextInv, PTL DEF Spec

(* The fields of a tournament, as its type has them. *)
LEMMA TypesFollow == TournamentInv => TypeOK
<1> SUFFICES ASSUME TournamentInv PROVE TypeOK
  OBVIOUS
<1>1. LogOK /\ FanOK /\ TurnOK /\ ProcOK
  BY DEF TournamentInv
<1>2. ASSUME proc.fan # Nothing
      PROVE  /\ proc.up /\ proc.turn = Nothing /\ proc.st.tag = "RUNNING_AGENT"
             /\ proc.fan.todo \cap IndicesOf(proc.fan.worked) = {}
             /\ (proc.fan.todo \cup IndicesOf(proc.fan.worked))
                  \cap IndicesOf(Field(proc.fan)) = {}
             /\ Cardinality(Field(proc.fan)) = Cardinality(IndicesOf(Field(proc.fan)))
             /\ proc.fan.selected => AllSettled(proc.fan) /\ proc.fan.unmarked = {}
  <2>1. FieldOK(proc.fan) /\ MarkedOK(proc.fan)
    BY <1>1, <1>2 DEF FanOK
  <2>2. Cardinality(Field(proc.fan)) = Cardinality(IndicesOf(Field(proc.fan)))
    BY <1>1, <2>1, ScenarioShape, DistinctAreCounted DEF FieldOK, CandidateOK
  <2>3. ASSUME NEW i \in proc.fan.todo \cup IndicesOf(proc.fan.worked)
        PROVE  i \notin IndicesOf(Field(proc.fan))
    <3>1. i \notin IndicesOf(proc.fan.fresh) /\ i \in Pending(proc.fan.prior)
      BY <2>1 DEF FieldOK
    <3>2. i \notin IndicesOf(proc.fan.prior)
      BY <3>1 DEF Pending
    <3>. QED BY <3>1, <3>2, IndexOf DEF Field
  <2>. QED BY <1>1, <1>2, <2>1, <2>2, <2>3 DEF FanOK, FieldOK, MarkedOK
<1>. QED BY <1>1, <1>2 DEF TypeOK, LogOK, TurnOK

(* A candidate logged once in the run is logged once in its turn, and so on. *)
LEMMA SoundFollows == TournamentInv => SelectionSound
<1> SUFFICES ASSUME TournamentInv PROVE SelectionSound
  OBVIOUS
<1>1. PastOK /\ ProcOK
  BY DEF TournamentInv
<1>2. TurnMatchesLog
  BY <1>1 DEF ProcOK, TurnMatchesLog, Reached
<1>3. NeverRunAgain
  BY <1>1 DEF PastOK, LoggedOnce, NeverRunAgain
<1>. QED BY <1>1, <1>2, <1>3, TypesFollow DEF PastOK, SelectionSound

(***************************************************************************)
(* A best-of-N turn is decided by its log, once (best-of-driver.ts,        *)
(* tournament.ts): over every run, with any number of processes, dying and *)
(* throwing anywhere, every candidate that is logged competes and is never *)
(* run again, the best wins, a turn selects once, and the reducer's turn   *)
(* is the winner's.                                                        *)
(***************************************************************************)
THEOREM TournamentSound == Spec => []SelectionSound
<1>. QED BY TournamentHolds, SoundFollows, PTL

(***************************************************************************)
(* What the verifier runs on has the winner's tracked files, whatever the  *)
(* candidates of the turn, or of those before it, wrote, and the files it  *)
(* created (git-worktree-host.ts, promote).                                *)
(***************************************************************************)
THEOREM VerifierHasTheWinner == Spec => []VerifierSeesWinner
<1>1. TournamentInv => VerifierSeesWinner
  <2> SUFFICES ASSUME TournamentInv, proc.up, proc.st.tag = "VERIFYING"
               PROVE  log[Max(At("AGENT_RAN"))].event.hash # SentinelPost =>
                        Holds(log[Max(At("AGENT_RAN"))].event.hash)
    BY DEF VerifierSeesWinner, Holds
  <2>1. LogOK /\ VerifiedOK /\ proc.st = Reached
    BY DEF TournamentInv, ProcOK
  <2>2. /\ log # << >> /\ LastEvent.tag = "AGENT_RAN"
        /\ LastEvent.hash # SentinelPost => Holds(LastEvent.hash)
    BY <2>1 DEF VerifiedOK
  <2>3. Len(log) \in Nat /\ \A i \in At("AGENT_RAN") : i \in 1 .. Len(log)
    BY <2>1, LogShape
  <2>4. Len(log) # 0
    BY <2>1, <2>2 DEF LogOK, EntriesOK, IsSequence
  <2>5. Len(log) \in At("AGENT_RAN")
    BY <2>1, <2>2, <2>3, <2>4, LogShape DEF LastEvent
  <2>6. Max(At("AGENT_RAN")) = Len(log)
    <3>1. At("AGENT_RAN") \subseteq Int /\ \A i \in At("AGENT_RAN") : Len(log) >= i
      BY <2>3
    <3>. QED BY <2>5, <3>1, MaxIs
  <2>. QED BY <2>2, <2>6 DEF LastEvent
<1>. QED BY <1>1, TournamentHolds, PTL

=============================================================================
