---------------------------- MODULE JournalProofs ----------------------------
(***************************************************************************)
(* Theorems about the journal, for every scenario the assumption allows:   *)
(* what the live process holds in memory is what a reader folds out of the *)
(* log.  The fold is a recursive function of the log, so what it computes  *)
(* is shown by induction over the positions of the log.                    *)
(***************************************************************************)
EXTENDS Journal, ReplayProofs

-----------------------------------------------------------------------------
(* The inductive invariant. *)

(* The process's memory. *)
ProcFields ==
  DOMAIN proc = {"up", "st", "pending", "seq", "checked", "due", "judge", "approver", "note",
                 "meter"}

(* A turn's entry says what the turn spent and what the meter showed, others what models cost. *)
MeteredOK(e) ==
  /\ e.tag = "AGENT_RAN" =>
       /\ DOMAIN e = {"tag", "status", "hash", "tokensUsed", "abandoned", "prev", "spent",
                      "noted", "budget"}
       /\ e.tokensUsed \in Nat /\ e.spent \in Nat
  /\ e.tag \in Charged => e.llm \in Nat

Metered(l) == \A i \in DOMAIN l : MeteredOK(l[i].event)

(* The file: whole but for a torn tail, entries the fold can read, in order. *)
FileOK ==
  /\ DOMAIN file = {"entries", "torn", "fused"}
  /\ file.torn \in BOOLEAN /\ file.fused = FALSE
  /\ EntriesOK(log) /\ Metered(log)
  /\ SequenceUnbroken
  /\ processes = 0 => log = << >> /\ ~file.torn /\ ~proc.up

(* What an event was read off: the meter under the cap in force. *)
PendingOK ==
  /\ ReadingOK(proc.pending) /\ MeteredOK(proc.pending)
  /\ proc.pending.tag \in EventsOf(proc.st.tag)
  /\ ~proc.due
  /\ RejudgeBudget(Effective, proc.pending) = proc.pending

(***************************************************************************)
(* The memory of a live process: what the log folds to and, while an event *)
(* waits to be appended, what that event will make of it.                  *)
(***************************************************************************)
MemoryOK ==
  /\ proc.st = Replay(config, log) /\ proc.st # Invalid
  /\ proc.seq = Len(log)
  /\ proc.checked \in BOOLEAN /\ (file.torn => ~proc.checked)
  /\ proc.meter \in Nat
  /\ proc.pending # NoEvent => PendingOK
  /\ proc.note = (PendingNote(log) /\ proc.pending.tag # "AGENT_RAN")
  /\ proc.judge = IF proc.pending.tag \in {"PHASE_ADVANCED", "WAVE_RAN"}
                  THEN proc.pending.tree ELSE Baseline(log, RunStart)
  /\ ~config.parallelPhases => proc.approver = PhaseBaseline(log, RunStart)
  /\ proc.due => /\ config.deltaVerify /\ proc.pending = NoEvent
                 /\ proc.st.tag \notin TerminalTags

(* The inductive invariant. *)
JournalInv ==
  /\ [config |-> config, world |-> world] \in Scenarios
  /\ processes \in 0 .. world.processes
  /\ ProcFields /\ proc.up \in BOOLEAN /\ proc.due \in BOOLEAN
  /\ FileOK
  /\ ~proc.up => ~proc.due
  /\ proc.up => processes > 0 /\ MemoryOK

(* What the assumption says of the scenario of a run. *)
LEMMA ScenarioFacts ==
  ASSUME [config |-> config, world |-> world] \in Scenarios
  PROVE  ConfigOK(config) /\ WorldOK(world)
<1> DEFINE s == [config |-> config, world |-> world]
<1>1. ConfigOK(s.config) /\ WorldOK(s.world)
  BY ScenarioAssumption
<1>. QED BY <1>1

(* A streak is a number. *)
LEMMA StreakType ==
  ASSUME NEW l, EntriesOK(l), NEW S, S \subseteq DOMAIN l
  PROVE  Cardinality(S) \in Nat
<1>1. DOMAIN l = 1 .. Len(l) /\ Len(l) \in Nat
  BY SequenceShape DEF EntriesOK
<1>2. IsFiniteSet(1 .. Len(l))
  BY <1>1, FS_Interval
<1>. QED BY <1>1, <1>2, FS_Subset, FS_CardinalityType

(* The streaks relief looks at are numbers. *)
LEMMA StreakTypes ==
  ASSUME NEW l, EntriesOK(l)
  PROVE  /\ TrailingCrashStreak(l) \in Nat
         /\ TrailingUnevaluableStreak(l) \in Nat
         /\ TrailingRepeatStreak(l) \in Nat
<1>1. TrailingCrashStreak(l) \in Nat
  BY StreakType DEF TrailingCrashStreak, TrailingStreak
<1>2. TrailingUnevaluableStreak(l) \in Nat
  BY StreakType DEF TrailingUnevaluableStreak, TrailingStreak
<1>3. TrailingRepeatStreak(l) \in Nat
  BY StreakType DEF TrailingRepeatStreak, TrailingStreak
<1>. QED BY <1>1, <1>2, <1>3

(* Relief overlays thresholds, with thresholds. *)
LEMMA ReliefType ==
  ASSUME NEW c, ConfigOK(c), NEW l, EntriesOK(l)
  PROVE  OverlayOK(ResumeStreakRelief(c, l))
<1> DEFINE crash  == TrailingCrashStreak(l)
           uneval == TrailingUnevaluableStreak(l)
           repeat == IF Adjudicated(l) THEN 0 ELSE TrailingRepeatStreak(l)
           raised == [harnessCrashThreshold  |-> c.harnessCrashThreshold + crash,
                      unevaluableThreshold   |-> c.unevaluableThreshold + uneval,
                      repeatFailureThreshold |-> c.repeatFailureThreshold + repeat]
           fields == { k \in DOMAIN raised :
                         \/ k = "harnessCrashThreshold"  /\ crash > 0
                         \/ k = "unevaluableThreshold"   /\ uneval > 0
                         \/ k = "repeatFailureThreshold" /\ repeat > 1 }
           relief == [k \in fields |-> raised[k]]
<1>1. crash \in Nat /\ uneval \in Nat /\ repeat \in Nat
  BY StreakTypes
<1>2. /\ c.harnessCrashThreshold \in Nat \ {0, 1} /\ c.unevaluableThreshold \in Nat \ {0, 1}
      /\ c.repeatFailureThreshold \in Nat \ {0, 1}
      /\ Knobs["harnessCrashThreshold"] = Nat \ {0, 1}
      /\ Knobs["unevaluableThreshold"] = Nat \ {0, 1}
      /\ Knobs["repeatFailureThreshold"] = Nat \ {0, 1}
  BY DEF ConfigOK, Knobs
<1> HIDE DEF crash, uneval, repeat
<1>3. \A k \in DOMAIN raised : k \in Extendable /\ raised[k] \in Knobs[k]
  <2>1. /\ raised["harnessCrashThreshold"] \in Nat \ {0, 1}
        /\ raised["unevaluableThreshold"] \in Nat \ {0, 1}
        /\ raised["repeatFailureThreshold"] \in Nat \ {0, 1}
    BY <1>1, <1>2
  <2>. QED BY <1>2, <2>1 DEF Extendable
<1>4. DOMAIN relief \subseteq DOMAIN raised /\ \A k \in DOMAIN relief : relief[k] = raised[k]
  OBVIOUS
<1>5. OverlayOK(relief)
  <2> HIDE DEF relief, raised
  <2>. QED BY <1>3, <1>4 DEF OverlayOK
<1>6. OverlayOK(NoOverlay)
  BY DEF OverlayOK, NoOverlay
<1>7. ResumeStreakRelief(c, l) \in {relief, NoOverlay}
  BY DEF ResumeStreakRelief, crash, uneval, repeat
<1> HIDE DEF relief
<1>. QED BY <1>5, <1>6, <1>7

(* An overlay over an overlay is one. *)
LEMMA OverlaidType ==
  ASSUME NEW o, OverlayOK(o), NEW p, OverlayOK(p)
  PROVE  OverlayOK(Overlaid(o, p))
<1> DEFINE q == Overlaid(o, p)
<1>1. DOMAIN q = DOMAIN o \cup DOMAIN p
      /\ \A k \in DOMAIN q : q[k] = IF k \in DOMAIN p THEN p[k] ELSE o[k]
  BY DEF Overlaid
<1> HIDE DEF q
<1>2. OverlayOK(q)
  BY <1>1 DEF OverlayOK
<1>. QED BY <1>2 DEF q

(* Entries are numbered from one when each is appended with the next number. *)
Numbered(l) == \A i \in DOMAIN l : l[i].seq = i

(* An entry with the next number keeps the numbering. *)
LEMMA AppendNumbered ==
  ASSUME NEW l, EntriesOK(l), Numbered(l), NEW x, EventOK(x.event), x.seq = Len(l) + 1
  PROVE  Numbered(Append(l, x))
<1> DEFINE g == Append(l, x)
<1>1. /\ Len(l) \in Nat /\ DOMAIN l = 1 .. Len(l) /\ DOMAIN g = 1 .. (Len(l) + 1)
      /\ \A i \in 1 .. Len(l) : g[i] = l[i]
      /\ g[Len(l) + 1] = x
  BY AppendEntry
<1> HIDE DEF g
<1>2. ASSUME NEW i \in DOMAIN g PROVE g[i].seq = i
  <2>1. CASE i \in 1 .. Len(l)
    BY <1>1, <2>1 DEF Numbered
  <2>2. CASE i = Len(l) + 1
    BY <1>1, <2>2
  <2>. QED BY <1>1, <2>1, <2>2
<1>. QED BY <1>2 DEF Numbered, g

(* ... and metered. *)
LEMMA AppendMetered ==
  ASSUME NEW l, EntriesOK(l), Metered(l), NEW x, EventOK(x.event), MeteredOK(x.event)
  PROVE  Metered(Append(l, x))
<1>1. /\ DOMAIN l = 1 .. Len(l) /\ DOMAIN Append(l, x) = 1 .. (Len(l) + 1) /\ Len(l) \in Nat
      /\ \A i \in 1 .. Len(l) : Append(l, x)[i] = l[i]
      /\ Append(l, x)[Len(l) + 1] = x
  BY AppendEntry
<1>2. ASSUME NEW i \in DOMAIN Append(l, x) PROVE MeteredOK(Append(l, x)[i].event)
  <2>1. CASE i \in 1 .. Len(l)
    BY <1>1, <2>1 DEF Metered
  <2>2. CASE i = Len(l) + 1
    BY <1>1, <2>2
  <2>. QED BY <1>1, <1>2, <2>1, <2>2
<1>. QED BY <1>2 DEF Metered

(* The fields of a result, none of which the Driver reads itself. *)
LEMMA ResultShape ==
  ASSUME NEW r, ResultOK(r)
  PROVE  /\ "tag" \in DOMAIN r /\ r.tag \in ResultTags
         /\ DOMAIN r \cap {"prev", "spent", "noted", "budget", "tree", "llm"} = {}
         /\ r.tag = "PLAN_COMPILED" => "plan" \in DOMAIN r /\ ValidPlan(r.plan)
         /\ r.tag = "CONTRACT_COMPILED" => "contract" \in DOMAIN r
         /\ r.tag = "PLAN_SEAL_DECIDED" =>
              "decision" \in DOMAIN r /\ r.decision \in {"approve", "reject", "revise"}
         /\ r.tag = "SEAL_DECIDED" =>
              "decision" \in DOMAIN r /\ r.decision \in {"approve", "reject", "revise", "edited"}
         /\ r.tag = "WORKSPACE_PREPARED" =>
              /\ "prepared" \in DOMAIN r
              /\ r.prepared \in {"proceed", "tools-missing", "setup-failed", "contract-unsound"}
         /\ r.tag = "WAVE_RAN" => "merged" \in DOMAIN r
         /\ r.tag = "AGENT_RAN" =>
              /\ DOMAIN r = {"tag", "status", "hash", "tokensUsed", "abandoned"}
              /\ r.status \in RunStatuses /\ r.tokensUsed \in Nat /\ r.abandoned \in Nat
         /\ r.tag = "VERIFIED" =>
              /\ "pass" \in DOMAIN r /\ r.pass \in BOOLEAN
              /\ ~r.pass => {"evaluable", "detail"} \subseteq DOMAIN r /\ r.evaluable \in BOOLEAN
         /\ r.tag = "SIGNOFF_DECIDED" =>
              "approval" \in DOMAIN r /\ r.approval \in {"approve", "veto"}
         /\ r.tag = "CONTRACT_ADJUDICATED" => "defective" \in DOMAIN r /\ r.defective \in BOOLEAN
<1>1. CASE r \in [tag : {"PLAN_FAILED", "PHASE_ADVANCED", "COMPILE_FAILED"}]
  <2>1. DOMAIN r = {"tag"} /\ r.tag \in {"PLAN_FAILED", "PHASE_ADVANCED", "COMPILE_FAILED"}
    BY <1>1
  <2>. QED BY <2>1 DEF ResultTags
<1>2. CASE r.tag = "PLAN_COMPILED" /\ r = [tag |-> r.tag, plan |-> r.plan] /\ ValidPlan(r.plan)
  <2>1. DOMAIN r = {"tag", "plan"}
    BY <1>2
  <2>. QED BY <1>2, <2>1 DEF ResultTags
<1>3. CASE r.tag = "CONTRACT_COMPILED" /\ r = [tag |-> r.tag, contract |-> r.contract]
  <2>1. DOMAIN r = {"tag", "contract"}
    BY <1>3
  <2>. QED BY <1>3, <2>1 DEF ResultTags
<1>4. CASE r \in [tag : {"PLAN_SEAL_DECIDED"}, decision : {"approve", "reject", "revise"}]
  <2>1. DOMAIN r = {"tag", "decision"} /\ r.tag = "PLAN_SEAL_DECIDED"
        /\ r.decision \in {"approve", "reject", "revise"}
    BY <1>4
  <2>. QED BY <2>1 DEF ResultTags
<1>5. CASE r \in [tag : {"SEAL_DECIDED"}, decision : {"approve", "reject", "revise", "edited"}]
  <2>1. DOMAIN r = {"tag", "decision"} /\ r.tag = "SEAL_DECIDED"
        /\ r.decision \in {"approve", "reject", "revise", "edited"}
    BY <1>5
  <2>. QED BY <2>1 DEF ResultTags
<1>6. CASE r \in [tag : {"WORKSPACE_PREPARED"},
                  prepared : {"proceed", "tools-missing", "setup-failed", "contract-unsound"}]
  <2>1. DOMAIN r = {"tag", "prepared"} /\ r.tag = "WORKSPACE_PREPARED"
        /\ r.prepared \in {"proceed", "tools-missing", "setup-failed", "contract-unsound"}
    BY <1>6
  <2>. QED BY <2>1 DEF ResultTags
<1>7. CASE r.tag = "WAVE_RAN" /\ r = [tag |-> r.tag, merged |-> r.merged, hash |-> r.hash]
  <2>1. DOMAIN r = {"tag", "merged", "hash"}
    BY <1>7
  <2>. QED BY <1>7, <2>1 DEF ResultTags
<1>8. CASE /\ r.tag = "AGENT_RAN"
           /\ r \in [tag : {r.tag}, status : RunStatuses, hash : {r.hash},
                     tokensUsed : Nat, abandoned : Nat]
  <2>1. DOMAIN r = {"tag", "status", "hash", "tokensUsed", "abandoned"}
        /\ r.status \in RunStatuses /\ r.tokensUsed \in Nat /\ r.abandoned \in Nat
    BY <1>8
  <2>. QED BY <1>8, <2>1 DEF ResultTags
<1>9. CASE r \in [tag : {"VERIFIED"}, pass : {TRUE}]
  <2>1. DOMAIN r = {"tag", "pass"} /\ r.tag = "VERIFIED" /\ r.pass = TRUE
    BY <1>9
  <2>. QED BY <2>1 DEF ResultTags
<1>10. CASE /\ r.tag = "VERIFIED"
            /\ r \in [tag : {r.tag}, pass : {FALSE}, evaluable : BOOLEAN, detail : {r.detail}]
  <2>1. DOMAIN r = {"tag", "pass", "evaluable", "detail"} /\ r.pass = FALSE
        /\ r.evaluable \in BOOLEAN
    BY <1>10
  <2>. QED BY <1>10, <2>1 DEF ResultTags
<1>11. CASE r \in [tag : {"SIGNOFF_DECIDED"}, approval : {"approve", "veto"}]
  <2>1. DOMAIN r = {"tag", "approval"} /\ r.tag = "SIGNOFF_DECIDED"
        /\ r.approval \in {"approve", "veto"}
    BY <1>11
  <2>. QED BY <2>1 DEF ResultTags
<1>12. CASE r \in [tag : {"CONTRACT_ADJUDICATED"}, defective : BOOLEAN]
  <2>1. DOMAIN r = {"tag", "defective"} /\ r.tag = "CONTRACT_ADJUDICATED"
        /\ r.defective \in BOOLEAN
    BY <1>12
  <2>. QED BY <2>1 DEF ResultTags
<1>. QED BY <1>1, <1>2, <1>3, <1>4, <1>5, <1>6, <1>7, <1>8, <1>9, <1>10, <1>11, <1>12 DEF ResultOK

(* What the Driver reads with a result leaves the result as it is, *)
LEMMA ReadFields ==
  ASSUME NEW r, ResultOK(r), NEW llm
  PROVE  /\ DOMAIN r \subseteq DOMAIN Read(r, llm) /\ "llm" \notin DOMAIN Read(r, llm)
         /\ \A k \in DOMAIN r : Read(r, llm)[k] = r[k]
         /\ r.tag = "AGENT_RAN" =>
              /\ DOMAIN Read(r, llm) = DOMAIN r \cup {"prev", "spent", "noted", "budget"}
              /\ Read(r, llm).prev = tree /\ Read(r, llm).spent = MeterAfter(r, llm)
              /\ Read(r, llm).noted = proc.note
         /\ r.tag \in {"AGENT_RAN", "VERIFIED", "SIGNOFF_DECIDED"} =>
              /\ "budget" \in DOMAIN Read(r, llm)
              /\ Read(r, llm).budget = (MeterAfter(r, llm) >= Effective.tokens)
         /\ r.tag \in {"PHASE_ADVANCED", "WAVE_RAN"} =>
              "tree" \in DOMAIN Read(r, llm) /\ Read(r, llm).tree = TreeAfter(r)
<1> DEFINE b == MeterAfter(r, llm) >= Effective.tokens
           agent == [prev |-> tree, spent |-> MeterAfter(r, llm), noted |-> proc.note,
                     budget |-> b]
           verdict == [budget |-> b]
           boundary == [tree |-> TreeAfter(r)]
<1>1. DOMAIN r \cap {"prev", "spent", "noted", "budget", "tree", "llm"} = {}
  BY ResultShape
<1>2. /\ DOMAIN agent = {"prev", "spent", "noted", "budget"} /\ agent.prev = tree
      /\ agent.spent = MeterAfter(r, llm) /\ agent.noted = proc.note /\ agent.budget = b
      /\ DOMAIN verdict = {"budget"} /\ verdict.budget = b
      /\ DOMAIN boundary = {"tree"} /\ boundary.tree = TreeAfter(r)
  OBVIOUS
<1>3. CASE r.tag = "AGENT_RAN"
  <2>1. Read(r, llm) = Overlaid(r, agent)
    BY <1>3 DEF Read
  <2> HIDE DEF agent, b
  <2>2. /\ DOMAIN Read(r, llm) = DOMAIN r \cup DOMAIN agent
        /\ \A k \in DOMAIN agent : Read(r, llm)[k] = agent[k]
        /\ \A k \in DOMAIN r \ DOMAIN agent : Read(r, llm)[k] = r[k]
    BY <2>1 DEF Overlaid
  <2>3. \A k \in DOMAIN r : Read(r, llm)[k] = r[k]
    BY <1>1, <1>2, <2>2
  <2>4. "llm" \notin DOMAIN Read(r, llm)
    BY <1>2, <1>3, <2>2, ResultShape
  <2>5. /\ Read(r, llm).prev = agent.prev /\ Read(r, llm).spent = agent.spent
        /\ Read(r, llm).noted = agent.noted /\ Read(r, llm).budget = agent.budget
        /\ DOMAIN Read(r, llm) = DOMAIN r \cup {"prev", "spent", "noted", "budget"}
    BY <1>2, <2>2
  <2>. QED BY <1>2, <1>3, <2>3, <2>4, <2>5 DEF b
<1>4. CASE r.tag \in {"VERIFIED", "SIGNOFF_DECIDED"}
  <2>1. Read(r, llm) = Overlaid(r, verdict)
    BY <1>4 DEF Read
  <2> HIDE DEF verdict, b
  <2>2. /\ DOMAIN Read(r, llm) = DOMAIN r \cup DOMAIN verdict
        /\ \A k \in DOMAIN verdict : Read(r, llm)[k] = verdict[k]
        /\ \A k \in DOMAIN r \ DOMAIN verdict : Read(r, llm)[k] = r[k]
    BY <2>1 DEF Overlaid
  <2>3. \A k \in DOMAIN r : Read(r, llm)[k] = r[k]
    BY <1>1, <1>2, <2>2
  <2>4. /\ "llm" \notin DOMAIN Read(r, llm) /\ "budget" \in DOMAIN Read(r, llm)
        /\ DOMAIN r \subseteq DOMAIN Read(r, llm) /\ Read(r, llm).budget = b
    BY <1>1, <1>2, <2>2
  <2>. QED BY <1>4, <2>3, <2>4 DEF b
<1>5. CASE r.tag \in {"PHASE_ADVANCED", "WAVE_RAN"}
  <2>1. Read(r, llm) = Overlaid(r, boundary)
    BY <1>5 DEF Read
  <2> HIDE DEF boundary
  <2>2. /\ DOMAIN Read(r, llm) = DOMAIN r \cup DOMAIN boundary
        /\ \A k \in DOMAIN boundary : Read(r, llm)[k] = boundary[k]
        /\ \A k \in DOMAIN r \ DOMAIN boundary : Read(r, llm)[k] = r[k]
    BY <2>1 DEF Overlaid
  <2>3. \A k \in DOMAIN r : Read(r, llm)[k] = r[k]
    BY <1>1, <1>2, <2>2
  <2>4. /\ "llm" \notin DOMAIN Read(r, llm) /\ "tree" \in DOMAIN Read(r, llm)
        /\ DOMAIN r \subseteq DOMAIN Read(r, llm) /\ Read(r, llm).tree = TreeAfter(r)
    BY <1>1, <1>2, <2>2
  <2>. QED BY <1>5, <2>3, <2>4
<1>6. CASE r.tag \notin {"AGENT_RAN", "VERIFIED", "SIGNOFF_DECIDED", "PHASE_ADVANCED", "WAVE_RAN"}
  <2>1. Read(r, llm) = r
    BY <1>6 DEF Read
  <2>. QED BY <1>1, <1>6, <2>1
<1>. QED BY <1>3, <1>4, <1>5, <1>6

(* and so does what its models cost. *)
LEMMA EventFields ==
  ASSUME NEW r, ResultOK(r), NEW llm
  PROVE  /\ \A k \in DOMAIN r : Event(r, llm)[k] = r[k]
         /\ r.tag = "AGENT_RAN" =>
              /\ DOMAIN Event(r, llm) = {"tag", "status", "hash", "tokensUsed", "abandoned",
                                         "prev", "spent", "noted", "budget"}
              /\ Event(r, llm).prev = tree /\ Event(r, llm).spent = MeterAfter(r, llm)
              /\ Event(r, llm).noted = proc.note
         /\ r.tag \in {"AGENT_RAN", "VERIFIED", "SIGNOFF_DECIDED"} =>
              Event(r, llm).budget = (MeterAfter(r, llm) >= Effective.tokens)
         /\ r.tag \in {"PHASE_ADVANCED", "WAVE_RAN"} => Event(r, llm).tree = TreeAfter(r)
         /\ r.tag \in Charged => Event(r, llm).llm = llm
<1> DEFINE d == Read(r, llm)
           over == [llm |-> llm]
<1>1. /\ DOMAIN r \subseteq DOMAIN d /\ "llm" \notin DOMAIN d
      /\ \A k \in DOMAIN r : d[k] = r[k]
      /\ r.tag = "AGENT_RAN" =>
           /\ DOMAIN d = DOMAIN r \cup {"prev", "spent", "noted", "budget"}
           /\ d.prev = tree /\ d.spent = MeterAfter(r, llm) /\ d.noted = proc.note
      /\ r.tag \in {"AGENT_RAN", "VERIFIED", "SIGNOFF_DECIDED"} =>
           "budget" \in DOMAIN d /\ d.budget = (MeterAfter(r, llm) >= Effective.tokens)
      /\ r.tag \in {"PHASE_ADVANCED", "WAVE_RAN"} => "tree" \in DOMAIN d /\ d.tree = TreeAfter(r)
  BY ReadFields
<1>2. r.tag = "AGENT_RAN" => DOMAIN r = {"tag", "status", "hash", "tokensUsed", "abandoned"}
  BY ResultShape
<1>3. CASE r.tag \notin Charged
  <2>1. Event(r, llm) = d
    BY <1>3 DEF Event
  <2> HIDE DEF d
  <2>. QED BY <1>1, <1>2, <1>3, <2>1
<1>4. CASE r.tag \in Charged
  <2>1. Event(r, llm) = Overlaid(d, over)
    BY <1>4 DEF Event
  <2>2. DOMAIN over = {"llm"} /\ over.llm = llm /\ r.tag # "AGENT_RAN"
    BY <1>4 DEF Charged
  <2> HIDE DEF d, over
  <2>3. /\ Event(r, llm)["llm"] = llm
        /\ \A k \in DOMAIN d : Event(r, llm)[k] = d[k]
    BY <1>1, <2>1, <2>2 DEF Overlaid
  <2>4. \A k \in DOMAIN r : Event(r, llm)[k] = r[k]
    BY <1>1, <2>3
  <2>. QED BY <1>1, <2>2, <2>3, <2>4
<1>. QED BY <1>3, <1>4

(* The event the Driver builds is one the fold can read. *)
LEMMA EventShape ==
  ASSUME NEW r, ResultOK(r), NEW llm \in Nat, proc.meter \in Nat
  PROVE  /\ ReadingOK(Event(r, llm)) /\ Event(r, llm).tag = r.tag /\ MeteredOK(Event(r, llm))
         /\ r.tag \in ResultTags
         /\ MeterAfter(r, llm) \in Nat
         /\ RejudgeBudget(Effective, Event(r, llm)) = Event(r, llm)
<1> DEFINE e == Event(r, llm)
           m == MeterAfter(r, llm)
<1>1. r.tag \in ResultTags /\ "tag" \in DOMAIN r
  BY ResultShape
<1>2. e.tag = r.tag
  BY <1>1, EventFields
<1>3. m \in Nat
  <2>1. r.tag = "AGENT_RAN" => r.tokensUsed \in Nat /\ r.abandoned \in Nat
    BY ResultShape
  <2>. QED BY <2>1 DEF MeterAfter
<1>4. CASE r.tag = "AGENT_RAN"
  <2>1. /\ DOMAIN r = {"tag", "status", "hash", "tokensUsed", "abandoned"}
        /\ r.status \in RunStatuses /\ r.tokensUsed \in Nat
    BY <1>4, ResultShape
  <2>2. /\ DOMAIN e = {"tag", "status", "hash", "tokensUsed", "abandoned", "prev", "spent",
                       "noted", "budget"}
        /\ e.status = r.status /\ e.tokensUsed = r.tokensUsed /\ e.spent = m
        /\ e.budget = (m >= Effective.tokens)
    BY <1>4, <2>1, EventFields
  <2>3. e = [k \in DOMAIN e |-> e[k]]
    BY <1>4 DEF Event, Read, Charged, Overlaid
  <2> HIDE DEF e, m
  <2>4. e.budget \in BOOLEAN
    BY <2>2
  <2>5. ReadingOK(e)
    BY <1>1, <1>2, <1>4, <2>1, <2>2, <2>4 DEF ReadingOK
  <2>6. MeteredOK(e)
    BY <1>2, <1>3, <1>4, <2>1, <2>2 DEF MeteredOK, Charged
  <2>7. [e EXCEPT !.budget = e.budget] = e
    BY <2>2, <2>3
  <2>8. RejudgeBudget(Effective, e) = e
    BY <1>2, <1>4, <2>2, <2>7 DEF RejudgeBudget
  <2>. QED BY <1>1, <1>2, <1>3, <2>5, <2>6, <2>8 DEF e, m
<1>5. CASE r.tag # "AGENT_RAN"
  <2>1. /\ r.tag \in {"VERIFIED", "SIGNOFF_DECIDED"} => e.budget = (m >= Effective.tokens)
        /\ r.tag \in Charged => e.llm = llm
        /\ \A k \in DOMAIN r : e[k] = r[k]
    BY EventFields
  <2>2. /\ r.tag = "VERIFIED" => e.pass \in BOOLEAN
        /\ r.tag = "SIGNOFF_DECIDED" => e.approval \in {"approve", "veto"}
        /\ r.tag = "PLAN_SEAL_DECIDED" => e.decision \in {"approve", "reject", "revise"}
        /\ r.tag = "SEAL_DECIDED" => e.decision \in {"approve", "reject", "revise", "edited"}
        /\ r.tag = "WORKSPACE_PREPARED" =>
             e.prepared \in {"proceed", "tools-missing", "setup-failed", "contract-unsound"}
    <3> HIDE DEF e
    <3>. QED BY <2>1, ResultShape
  <2>6. r.tag \in {"VERIFIED", "SIGNOFF_DECIDED"} => e.budget \in BOOLEAN
    <3>1. SUFFICES ASSUME r.tag \in {"VERIFIED", "SIGNOFF_DECIDED"} PROVE e.budget \in BOOLEAN
      OBVIOUS
    <3>2. e.budget = (m >= Effective.tokens)
      BY <2>1, <3>1
    <3> HIDE DEF e, m
    <3>. QED BY <3>2
  <2> HIDE DEF e, m
  <2>3. ReadingOK(e)
    BY <1>1, <1>2, <1>5, <2>2, <2>6 DEF ReadingOK
  <2>4. MeteredOK(e)
    BY <1>2, <1>5, <2>1 DEF MeteredOK
  <2>5. RejudgeBudget(Effective, e) = e
    BY <1>2, <1>5 DEF RejudgeBudget
  <2>. QED BY <1>1, <1>2, <1>3, <2>3, <2>4, <2>5 DEF e, m
<1>. QED BY <1>4, <1>5

(* The spend of a log is a number. *)
LEMMA SpentByType ==
  ASSUME NEW l, EntriesOK(l), Metered(l), NEW i \in DOMAIN l
  PROVE  SpentBy(l[i]) \in Nat
BY DEF EntriesOK, EventOK, ReadingOK, Metered, MeteredOK, SpentBy, Summed, DriverOnlyTags

(* The spend of a longer log adds the spend of its last entry. *)
LEMMA LoggedRecurs ==
  ASSUME NEW l, IsSequence(l)
  PROVE  \E spent :
           /\ spent[0] = 0
           /\ \A i \in 1 .. Len(l) : spent[i] = spent[i - 1] + SpentBy(l[i])
           /\ Logged(l) = spent[Len(l)]
<1> DEFINE Is(f, n) == f = [i \in 0 .. n |-> IF i = 0 THEN 0 ELSE f[i - 1] + SpentBy(l[i])]
           T == { n \in 0 .. Len(l) : \E f : Is(f, n) }
<1>1. Len(l) \in Nat
  BY SequenceShape
<1>2. 0 \in T
  <2> DEFINE f == [i \in 0 .. 0 |-> 0]
  <2>1. Is(f, 0)
    OBVIOUS
  <2>2. \E h : Is(h, 0)
    BY <2>1
  <2> HIDE DEF Is
  <2>. QED BY <1>1, <2>2
<1>3. ASSUME NEW n \in 1 .. Len(l), n - 1 \in T PROVE n \in T
  <2>1. PICK f : Is(f, n - 1)
    BY <1>3
  <2> DEFINE h == [i \in 0 .. n |-> IF i = n THEN f[n - 1] + SpentBy(l[n]) ELSE f[i]]
             b == [i \in 0 .. n |-> IF i = 0 THEN 0 ELSE h[i - 1] + SpentBy(l[i])]
  <2>2. ASSUME NEW i \in 0 .. n PROVE h[i] = b[i]
    <3>1. CASE i = 0
      <4>1. h[i] = f[0]
        BY <1>1, <3>1
      <4>2. f[0] = 0
        BY <1>1, <2>1
      <4>. QED BY <3>1, <4>1, <4>2
    <3>2. CASE i \in 1 .. (n - 1)
      <4>1. h[i] = f[i] /\ h[i - 1] = f[i - 1] /\ b[i] = h[i - 1] + SpentBy(l[i])
        BY <1>1, <3>2
      <4>2. f[i] = f[i - 1] + SpentBy(l[i])
        BY <1>1, <2>1, <3>2
      <4>. QED BY <4>1, <4>2
    <3>3. CASE i = n
      BY <1>1, <3>3
    <3>. QED BY <1>1, <3>1, <3>2, <3>3
  <2>3. h = b
    <3>2. h = [i \in 0 .. n |-> h[i]] /\ b = [i \in 0 .. n |-> b[i]]
      OBVIOUS
    <3> HIDE DEF h, b
    <3>. QED BY <2>2, <3>2
  <2>4. Is(h, n)
    BY <2>3
  <2>5. \E k : Is(k, n)
    <3> HIDE DEF Is, h
    <3>. QED BY <2>4
  <2> HIDE DEF Is
  <2>. QED BY <1>1, <2>5
<1>4. \E f : Is(f, Len(l))
  <2> HIDE DEF T
  <2>1. 0 .. Len(l) \subseteq T
    BY <1>1, <1>2, <1>3, PositionInduction
  <2>2. Len(l) \in T
    BY <1>1, <2>1
  <2>. QED BY <2>2 DEF T
<1> DEFINE f == CHOOSE f : Is(f, Len(l))
<1>5. Is(f, Len(l))
  BY <1>4
<1>6. Logged(l) = f[Len(l)]
  BY DEF Logged
<1> HIDE DEF f
<1>7. f[0] = 0 /\ \A i \in 1 .. Len(l) : f[i] = f[i - 1] + SpentBy(l[i])
  BY <1>1, <1>5
<1>. QED BY <1>6, <1>7

(* The spend of a log is a number. *)
LEMMA LoggedType ==
  ASSUME NEW l, EntriesOK(l), Metered(l)
  PROVE  Logged(l) \in Nat
<1> DEFINE n == Len(l)
<1>1. n \in Nat /\ DOMAIN l = 1 .. n
  BY SequenceShape DEF EntriesOK
<1>2. PICK f : /\ f[0] = 0 /\ Logged(l) = f[n]
               /\ \A i \in 1 .. n : f[i] = f[i - 1] + SpentBy(l[i])
  BY LoggedRecurs DEF EntriesOK
<1> DEFINE T == { i \in 0 .. n : f[i] \in Nat }
<1> HIDE DEF n
<1>3. 0 \in T
  BY <1>1, <1>2
<1>4. ASSUME NEW i \in 1 .. n, i - 1 \in T PROVE i \in T
  <2>1. SpentBy(l[i]) \in Nat
    BY <1>1, SpentByType
  <2>. QED BY <1>1, <1>2, <1>4, <2>1
<1>5. n \in T
  <2> HIDE DEF T
  <2>1. 0 .. n \subseteq T
    BY <1>1, <1>3, <1>4, PositionInduction
  <2>. QED BY <1>1, <2>1
<1>. QED BY <1>2, <1>5

-----------------------------------------------------------------------------
(* Each action keeps the invariant. *)

(* What is folded, read and accounted for off an empty log. *)
LEMMA EmptyLog ==
  ASSUME NEW c, ConfigOK(c)
  PROVE  /\ EntriesOK(<< >>) /\ Metered(<< >>) /\ Replay(c, << >>) = InitialState(c)
         /\ ExtendedRunConfig(c, << >>) = c
         /\ Baseline(<< >>, RunStart) = RunStart /\ PhaseBaseline(<< >>, RunStart) = RunStart
         /\ PendingNote(<< >>) = FALSE /\ Logged(<< >>) = 0
<1>1. DOMAIN << >> = {} /\ Len(<< >>) = 0 /\ IsSequence(<< >>)
  BY EmptySequence, EmptySeq
<1>2. EntriesOK(<< >>) /\ Metered(<< >>)
  BY <1>1 DEF EntriesOK, Metered
<1>3. Markers(<< >>) = {}
  BY <1>1 DEF Markers
<1>4. ExtendedRunConfig(c, << >>) = c
  BY <1>3 DEF ExtendedRunConfig
<1>5. Replay(c, << >>) = InitialState(c)
  BY <1>1, <1>4, FoldRecurs DEF Replay
<1>6. \A tags : LastTree(<< >>, tags, RunStart) = RunStart
  BY <1>1 DEF LastTree
<1>7. PendingNote(<< >>) = FALSE
  BY <1>3 DEF PendingNote
<1>8. Logged(<< >>) = 0
  BY <1>1, LoggedRecurs
<1>. QED BY <1>2, <1>4, <1>5, <1>6, <1>7, <1>8 DEF Baseline, PhaseBaseline

(* It holds before the first process, *)
LEMMA InitInv == Init => JournalInv
<1>1. SUFFICES ASSUME Init PROVE JournalInv
  OBVIOUS
<1>2. PICK s \in Scenarios : config = s.config /\ world = s.world
  BY <1>1 DEF Init
<1>3. [config |-> config, world |-> world] \in Scenarios
  <2>1. s = [config |-> s.config, world |-> s.world]
    BY ScenarioAssumption
  <2>. QED BY <1>2, <2>1
<1>4. ConfigOK(config) /\ WorldOK(world)
  BY <1>3, ScenarioFacts
<1>5. file = [entries |-> << >>, torn |-> FALSE, fused |-> FALSE] /\ proc = Down /\ processes = 0
  BY <1>1 DEF Init
<1>6. log = << >>
  BY <1>5 DEF log
<1>7. ProcFields /\ ~proc.up /\ ~proc.due /\ proc.up \in BOOLEAN /\ proc.due \in BOOLEAN
  BY <1>5 DEF ProcFields, Down
<1>8. SequenceUnbroken
  BY <1>6, EmptySequence, EmptySeq DEF SequenceUnbroken
<1>9. FileOK
  BY <1>4, <1>5, <1>6, <1>7, <1>8, EmptyLog DEF FileOK
<1>10. processes \in 0 .. world.processes
  BY <1>4, <1>5 DEF WorldOK
<1>. QED BY <1>3, <1>7, <1>9, <1>10 DEF JournalInv

(* when that process starts, *)
LEMMA StartInv ==
  ASSUME JournalInv, Start
  PROVE  JournalInv'
<1>1. ConfigOK(config) /\ WorldOK(world) /\ log = << >> /\ ~file.torn
  BY ScenarioFacts DEF JournalInv, FileOK, Start
<1>2. /\ config' = config /\ world' = world /\ file' = file /\ processes' = 1
      /\ proc' = Booted(<< >>, InitialState(config), 0, FALSE) /\ log' = log
  BY DEF Start, log
<1>3. /\ proc'.up = TRUE /\ proc'.st = InitialState(config) /\ proc'.pending = NoEvent
      /\ proc'.seq = 0 /\ proc'.checked = FALSE /\ proc'.due = FALSE
      /\ proc'.judge = Baseline(<< >>, RunStart)
      /\ proc'.approver = PhaseBaseline(<< >>, RunStart)
      /\ proc'.note = PendingNote(<< >>) /\ proc'.meter = PriorSpend(<< >>)
      /\ ProcFields'
  BY <1>2 DEF Booted, Down, ProcFields
<1>4. FileOK'
  BY <1>1, <1>2 DEF JournalInv, FileOK, SequenceUnbroken
<1>5. processes' \in 0 .. world'.processes
  BY <1>1, <1>2 DEF WorldOK
<1>6. proc'.st # Invalid
  <2>1. StateShape(config, InitialState(config), 0)
    BY <1>1, InitialShape
  <2>. QED BY <1>3, <2>1, ShapeValid
<1>7. NoEvent.tag = "none"
  BY DEF NoEvent
<1>8. MemoryOK'
  <2>0. /\ Logged(<< >>) = 0 /\ PendingNote(<< >>) = FALSE
        /\ Baseline(<< >>, RunStart) = RunStart /\ PhaseBaseline(<< >>, RunStart) = RunStart
    BY <1>1, EmptyLog
  <2>1. proc'.meter \in Nat
    BY <1>3, <2>0 DEF PriorSpend
  <2>2. proc'.st = Replay(config', log') /\ proc'.seq = Len(log')
    BY <1>1, <1>2, <1>3, EmptyLog, EmptySequence
  <2>3. proc'.note = FALSE /\ PendingNote(log') = FALSE
    BY <1>1, <1>2, <1>3, <2>0
  <2>4. /\ proc'.judge = Baseline(log', RunStart) /\ proc'.approver = PhaseBaseline(log', RunStart)
        /\ ~file'.torn
    BY <1>1, <1>2, <1>3
  <2>. QED BY <1>3, <1>6, <1>7, <2>1, <2>2, <2>3, <2>4 DEF MemoryOK
<1>9. [config |-> config', world |-> world'] \in Scenarios
  BY <1>2 DEF JournalInv
<1>10. proc'.up /\ ~proc'.due /\ proc'.up \in BOOLEAN /\ proc'.due \in BOOLEAN
  BY <1>3, Zenon
<1>11. processes' > 0
  BY <1>2
<1>. QED BY <1>3, <1>4, <1>5, <1>8, <1>9, <1>10, <1>11 DEF JournalInv

(* when there is no process any more, *)
LEMMA DownInv ==
  ASSUME JournalInv, proc.up, proc' = Down, UNCHANGED << config, world, processes >>,
         log' = log, file'.fused = FALSE, file'.torn \in BOOLEAN,
         DOMAIN file' = {"entries", "torn", "fused"}
  PROVE  JournalInv'
<1>1. processes > 0 /\ processes # 0
  BY DEF JournalInv
<1>2. ProcFields' /\ ~proc'.up /\ ~proc'.due /\ proc'.up \in BOOLEAN /\ proc'.due \in BOOLEAN
  BY DEF ProcFields, Down
<1>3. FileOK'
  BY <1>1 DEF JournalInv, FileOK, SequenceUnbroken
<1>. QED BY <1>2, <1>3 DEF JournalInv

(* when one dies, even in the middle of an append, *)
LEMMA StopInv ==
  ASSUME JournalInv, Stop \/ CommitTorn
  PROVE  JournalInv'
<1>1. /\ proc.up /\ proc' = Down /\ UNCHANGED << config, world, processes >>
      /\ file' \in {file, [file EXCEPT !.torn = TRUE]}
  BY DEF Stop, CommitTorn
<1>2. DOMAIN file = {"entries", "torn", "fused"} /\ file.fused = FALSE /\ file.torn \in BOOLEAN
  BY DEF JournalInv, FileOK
<1>3. /\ log' = log /\ file'.fused = FALSE /\ file'.torn \in BOOLEAN
      /\ DOMAIN file' = {"entries", "torn", "fused"}
  BY <1>1, <1>2 DEF log
<1>. QED BY <1>1, <1>3, DownInv

(* when a command was performed, *)
LEMMA PerformInv ==
  ASSUME JournalInv, NEW r \in world.results, NEW llm \in world.charges, Perform(r, llm)
  PROVE  JournalInv'
<1>1. ConfigOK(config) /\ WorldOK(world) /\ MemoryOK /\ FileOK /\ ProcFields
  BY ScenarioFacts DEF JournalInv, Perform
<1>2. ResultOK(r) /\ llm \in Nat /\ proc.meter \in Nat /\ proc.note \in BOOLEAN
  BY <1>1 DEF WorldOK, MemoryOK, PendingNote
<1>3. /\ ReadingOK(Event(r, llm)) /\ Event(r, llm).tag = r.tag /\ MeteredOK(Event(r, llm))
      /\ r.tag \in ResultTags
      /\ MeterAfter(r, llm) \in Nat
      /\ r.tag \in {"PHASE_ADVANCED", "WAVE_RAN"} => Event(r, llm).tree = TreeAfter(r)
      /\ RejudgeBudget(Effective, Event(r, llm)) = Event(r, llm)
  BY <1>2, EventShape, EventFields
<1> DEFINE e == Event(r, llm)
           m == MeterAfter(r, llm)
           t == TreeAfter(r)
<1> HIDE DEF e, m, t
<1>4. /\ UNCHANGED << config, world, file, processes >>
      /\ proc.up /\ proc.pending = NoEvent /\ ~proc.due /\ r.tag \in EventsOf(proc.st.tag)
      /\ proc' = [proc EXCEPT !.pending = e, !.meter = m,
                              !.note  = @ /\ r.tag # "AGENT_RAN",
                              !.judge = IF r.tag \in {"PHASE_ADVANCED", "WAVE_RAN"}
                                        THEN t ELSE @]
  BY DEF Perform, e, m, t
<1>5. /\ ProcFields' /\ proc'.up = proc.up /\ proc'.st = proc.st /\ proc'.pending = e
      /\ proc'.seq = proc.seq /\ proc'.checked = proc.checked /\ proc'.due = proc.due
      /\ proc'.judge = (IF r.tag \in {"PHASE_ADVANCED", "WAVE_RAN"} THEN t ELSE proc.judge)
      /\ proc'.approver = proc.approver /\ proc'.note = (proc.note /\ r.tag # "AGENT_RAN")
      /\ proc'.meter = m
  BY <1>1, <1>4 DEF ProcFields
<1>6. log' = log /\ Effective' = Effective
  BY <1>4 DEF log, Effective
<1>7. FileOK'
  BY <1>1, <1>4, <1>5, <1>6 DEF FileOK, SequenceUnbroken
<1>8. NoEvent.tag = "none" /\ "none" \notin ResultTags
  BY DEF NoEvent, ResultTags
<1>9. PendingOK'
  BY <1>3, <1>4, <1>5, <1>6 DEF PendingOK, e
<1>10. e.tag = r.tag /\ (r.tag \in {"PHASE_ADVANCED", "WAVE_RAN"} => e.tree = t) /\ m \in Nat
  BY <1>3 DEF e, t, m
<1>11. MemoryOK'
  <2>1. /\ proc.st = Replay(config, log) /\ proc.st # Invalid /\ proc.seq = Len(log)
        /\ proc.checked \in BOOLEAN /\ (file.torn => ~proc.checked)
        /\ proc.note = PendingNote(log) /\ proc.judge = Baseline(log, RunStart)
        /\ ~config.parallelPhases => proc.approver = PhaseBaseline(log, RunStart)
    <3>1. proc.pending.tag = "none"
      BY <1>4, <1>8
    <3>2. proc.note = (PendingNote(log) /\ proc.pending.tag # "AGENT_RAN")
      BY <1>1 DEF MemoryOK
    <3>3. proc.note = PendingNote(log)
      BY <3>1, <3>2 DEF PendingNote
    <3>4. proc.judge = IF proc.pending.tag \in {"PHASE_ADVANCED", "WAVE_RAN"}
                       THEN proc.pending.tree ELSE Baseline(log, RunStart)
      BY <1>1 DEF MemoryOK
    <3>5. proc.judge = Baseline(log, RunStart)
      BY <3>1, <3>4
    <3>. QED BY <1>1, <3>3, <3>5 DEF MemoryOK
  <2>. QED BY <1>4, <1>5, <1>6, <1>9, <1>10, <2>1 DEF MemoryOK
<1>. QED BY <1>4, <1>5, <1>7, <1>11 DEF JournalInv

(* What a resume appends: a marker the fold can read, with the next number. *)
LEMMA ExtendedShape ==
  ASSUME ConfigOK(config), NEW l, EntriesOK(l), Numbered(l), Metered(l), NEW x,
         x = [overlay |-> x.overlay, note |-> x.note], OverlayOK(x.overlay)
  PROVE  /\ EntriesOK(Extended(l, Extension(l, x))) /\ Numbered(Extended(l, Extension(l, x)))
         /\ Metered(Extended(l, Extension(l, x)))
<1> DEFINE relief == ResumeStreakRelief(config, l)
           y == Extension(l, x)
           marker == [tag |-> "RUN_EXTENDED", overlay |-> y.overlay, note |-> y.note]
           tag == Replay(config, Append(l, Entry(Len(l) + 1, marker, "COMPILING"))).tag
           z == Entry(Len(l) + 1, marker, tag)
<1>1. y.overlay = Overlaid(relief, x.overlay)
  BY DEF Extension
<1>2. OverlayOK(y.overlay)
  BY <1>1, ReliefType, OverlaidType
<1> HIDE DEF y
<1>3. Extended(l, y) = IF ~HasExtension(y) THEN l ELSE Append(l, z)
  BY DEF Extended
<1>4. EventOK(marker) /\ MeteredOK(marker)
  BY <1>2 DEF EventOK, DriverOnlyTags, MeteredOK, Charged
<1> HIDE DEF marker, tag
<1>5. z.event = marker /\ z.seq = Len(l) + 1
  BY DEF Entry
<1> HIDE DEF z
<1>6. EntriesOK(Append(l, z)) /\ Numbered(Append(l, z)) /\ Metered(Append(l, z))
  BY <1>4, <1>5, AppendEntry, AppendNumbered, AppendMetered
<1>. QED BY <1>3, <1>6 DEF y

(* A rewired run's own marker folds to where the log was. *)
LEMMA ReconciledShape ==
  ASSUME NEW c, ConfigOK(c), NEW l, EntriesOK(l), Numbered(l), Metered(l),
         Replay(c, l) # Invalid, NEW rewired \in BOOLEAN, NEW tag
  PROVE  /\ EntriesOK(ReconcileDegraded(l, rewired, tag))
         /\ Metered(ReconcileDegraded(l, rewired, tag))
         /\ Numbered(ReconcileDegraded(l, rewired, tag))
         /\ Replay(c, ReconcileDegraded(l, rewired, tag)) = Replay(c, l)
         /\ Len(ReconcileDegraded(l, rewired, tag)) = ResumedSeq(l, rewired)
<1> DEFINE e == [tag |-> "DEGRADED_ESCALATED"]
           z == Entry(Len(l) + 1, e, tag)
           eff == ExtendedRunConfig(c, l)
           judged == IF BudgetExtended(l) THEN RejudgeBudget(eff, z.event) ELSE z.event
<1>1. z.event = e /\ z.seq = Len(l) + 1 /\ e.tag = "DEGRADED_ESCALATED"
  BY DEF Entry
<1>2. EventOK(z.event) /\ z.event.tag \in DriverOnlyTags
      /\ z.event.tag \notin {"RUN_EXTENDED", "CONTRACT_ADJUDICATED"}
      /\ MeteredOK(z.event)
  BY <1>1 DEF EventOK, DriverOnlyTags, MeteredOK, Charged
<1>3. CASE ~rewired
  <2>1. ReconcileDegraded(l, rewired, tag) = l
    BY <1>3 DEF ReconcileDegraded
  <2>2. Len(l) \in Nat
    BY SequenceShape DEF EntriesOK
  <2>. QED BY <1>3, <2>1, <2>2 DEF ResumedSeq
<1>4. CASE rewired
  <2>1. ReconcileDegraded(l, rewired, tag) = Append(l, z)
    BY <1>4 DEF ReconcileDegraded
  <2> HIDE DEF z, e, eff, judged
  <2>2. EntriesOK(Append(l, z)) /\ Numbered(Append(l, z)) /\ Len(Append(l, z)) = Len(l) + 1
        /\ Metered(Append(l, z))
    BY <1>1, <1>2, AppendEntry, AppendNumbered, AppendMetered
  <2>3. Replay(c, Append(l, z)) = Replay(c, l)
    BY <1>2, FoldAppend DEF eff, judged
  <2>. QED BY <1>4, <2>1, <2>2, <2>3 DEF ResumedSeq
<1>. QED BY <1>3, <1>4

(* when a process resumes the run, with an extension or without, *)
LEMMA ResumeInv ==
  ASSUME JournalInv, NEW x \in world.extensions, NEW rewired \in world.rewired,
         Resume(x, rewired)
  PROVE  JournalInv'
<1>1. /\ ConfigOK(config) /\ WorldOK(world) /\ FileOK
      /\ rewired \in BOOLEAN /\ OverlayOK(x.overlay)
      /\ x = [overlay |-> x.overlay, note |-> x.note]
      /\ world.processes \in Nat
  BY ScenarioFacts DEF JournalInv, WorldOK
<1> DEFINE marked == Extended(log, Extension(log, x))
           s == Replay(config, marked)
           final == ReconcileDegraded(marked, rewired, s.tag)
           seq == ResumedSeq(marked, rewired)
<1>2. /\ processes \in 1 .. (world.processes - 1) /\ processes' = processes + 1
      /\ s # Invalid
      /\ file' = [file EXCEPT !.entries = final, !.torn = @ /\ final = log]
      /\ proc' = Booted(final, s, seq, final # log)
      /\ config' = config /\ world' = world
  BY DEF Resume
<1>3. EntriesOK(log) /\ Numbered(log) /\ Metered(log)
  BY <1>1 DEF FileOK, SequenceUnbroken, Numbered
<1>4. EntriesOK(marked) /\ Numbered(marked) /\ Metered(marked)
  BY <1>1, <1>3, ExtendedShape
<1> HIDE DEF marked
<1>5. EntriesOK(final) /\ Numbered(final) /\ Metered(final)
      /\ Replay(config, final) = s /\ Len(final) = seq
  BY <1>1, <1>2, <1>4, ReconciledShape
<1> HIDE DEF s, final, seq
<1>6. /\ proc'.up = TRUE /\ proc'.st = s /\ proc'.pending = NoEvent
      /\ proc'.seq = seq /\ proc'.checked = (final # log) /\ proc'.due = FALSE
      /\ proc'.judge = Baseline(final, RunStart)
      /\ proc'.approver = PhaseBaseline(final, RunStart)
      /\ proc'.note = PendingNote(final) /\ proc'.meter = Logged(final)
      /\ ProcFields'
  BY <1>2 DEF Booted, Down, ProcFields, PriorSpend
<1>7. /\ log' = final /\ file'.torn = (file.torn /\ final = log) /\ file'.fused = FALSE
      /\ DOMAIN file' = {"entries", "torn", "fused"}
  BY <1>1, <1>2 DEF FileOK, log
<1>8. processes' \in 0 .. world'.processes /\ processes' > 0 /\ processes' # 0
  BY <1>1, <1>2
<1>9. file'.torn \in BOOLEAN /\ (file'.torn => ~proc'.checked) /\ proc'.checked \in BOOLEAN
  BY <1>6, <1>7, Zenon
<1>10. FileOK'
  BY <1>5, <1>7, <1>8, <1>9 DEF FileOK, SequenceUnbroken, Numbered
<1>11. MemoryOK'
  <2>1. proc'.meter \in Nat
    BY <1>5, <1>6, LoggedType
  <2>2. proc'.st = Replay(config', log') /\ proc'.st # Invalid /\ proc'.seq = Len(log')
    BY <1>2, <1>5, <1>6, <1>7
  <2>3. proc'.pending.tag = "none"
    BY <1>6 DEF NoEvent
  <2>4. proc'.note = (PendingNote(log') /\ proc'.pending.tag # "AGENT_RAN")
    <3>1. proc'.note = PendingNote(log') /\ PendingNote(log') \in BOOLEAN
      BY <1>6, <1>7 DEF PendingNote
    <3>. QED BY <2>3, <3>1
  <2>5. /\ proc'.judge = Baseline(log', RunStart)
        /\ proc'.approver = PhaseBaseline(log', RunStart)
    BY <1>6, <1>7
  <2>6. proc'.judge = IF proc'.pending.tag \in {"PHASE_ADVANCED", "WAVE_RAN"}
                      THEN proc'.pending.tree ELSE Baseline(log', RunStart)
    BY <2>3, <2>5
  <2>7. ~proc'.due
    BY <1>6
  <2>. QED BY <1>6, <1>9, <2>1, <2>2, <2>4, <2>5, <2>6, <2>7 DEF MemoryOK
<1>12. [config |-> config', world |-> world'] \in Scenarios
  BY <1>2 DEF JournalInv
<1>13. proc'.up /\ ~proc'.due /\ proc'.up \in BOOLEAN /\ proc'.due \in BOOLEAN
  BY <1>6, Zenon
<1>. QED BY <1>6, <1>8, <1>10, <1>11, <1>12, <1>13 DEF JournalInv

(* A live process appends to a whole file: the entry lands after the log. *)
LEMMA AppendedShape ==
  ASSUME FileOK, MemoryOK, NEW z
  PROVE  /\ Appended(file, proc.checked, z).entries = Append(log, z)
         /\ Appended(file, proc.checked, z).torn = FALSE
         /\ Appended(file, proc.checked, z).fused = FALSE
         /\ DOMAIN Appended(file, proc.checked, z) = {"entries", "torn", "fused"}
BY DEF FileOK, MemoryOK, Appended, log

(***************************************************************************)
(* Appending the event of a performed command: the state adopted is the    *)
(* one the longer log folds to, and so are baselines and note.             *)
(***************************************************************************)
LEMMA CommitInv ==
  ASSUME JournalInv, Commit, proc.st.tag = "ADJUDICATING" => RepeatNotLowered(config, log)
  PROVE  JournalInv'
<1> DEFINE e == proc.pending
           s == proc.st
           next == Step(Effective, s, e)
           z == Entry(proc.seq + 1, e, next.tag)
           n == Len(log)
<1>1. /\ ConfigOK(config) /\ WorldOK(world) /\ FileOK /\ MemoryOK /\ PendingOK /\ ProcFields
      /\ processes > 0 /\ processes # 0
  BY ScenarioFacts DEF JournalInv, Commit, MemoryOK
<1>2. /\ ReadingOK(e) /\ MeteredOK(e) /\ e.tag \in EventsOf(s.tag)
      /\ RejudgeBudget(Effective, e) = e
      /\ EntriesOK(log) /\ Numbered(log) /\ s = Replay(config, log) /\ s # Invalid
      /\ proc.seq = n
  BY <1>1 DEF PendingOK, MemoryOK, FileOK, SequenceUnbroken, Numbered
<1>3. /\ file' = Appended(file, proc.checked, z)
      /\ proc' = [proc EXCEPT
                    !.st = next, !.pending = NoEvent, !.seq = @ + 1, !.checked = TRUE,
                    !.approver = IF e.tag = "PHASE_ADVANCED" THEN e.tree ELSE @,
                    !.due = CheckpointFollows(e, next)]
      /\ UNCHANGED << config, world, processes >> /\ proc.up
  BY DEF Commit
<1>4. e.tag \in ResultTags /\ e.tag \notin DriverOnlyTags
      /\ e.tag \notin {"RUN_EXTENDED", "CHECKPOINTED"}
  BY <1>2 DEF ReadingOK, ResultTags, DriverOnlyTags
<1>5. z.event = e /\ z.seq = n + 1
  BY <1>2 DEF Entry
<1> HIDE DEF e, s, next, z
<1>6. ConfigOK(Effective) /\ Effective.parallelPhases = config.parallelPhases
      /\ n \in Nat
  <2>1. "parallelPhases" \in DOMAIN Knobs \ Extendable
    BY DEF Knobs, Extendable
  <2>2. n \in Nat
    BY <1>2, SequenceShape DEF EntriesOK
  <2>. QED BY <1>1, <1>2, <2>1, <2>2, EffectiveType DEF Effective
<1>7. StateShape(Effective, s, n)
  <2>1. \A i \in 0 .. n : Fold(config, log)[i] = Invalid \/ StateShape(Effective, Fold(config, log)[i], i)
    BY <1>1, <1>2, FoldShape DEF Effective
  <2>2. n \in 0 .. n
    BY <1>6
  <2>. QED BY <1>2, <2>1, <2>2 DEF Replay
<1>8. StateShape(Effective, next, n + 1) /\ next # Invalid
  <2>1. StateShape(Effective, next, n + 1)
    BY <1>2, <1>6, <1>7, StepShape DEF next
  <2>. QED BY <2>1, ShapeValid
<1>9. EventOK(z.event) /\ MeteredOK(z.event)
  BY <1>2, <1>5 DEF EventOK
<1>10. log' = Append(log, z) /\ file'.torn = FALSE /\ file'.fused = FALSE
       /\ DOMAIN file' = {"entries", "torn", "fused"}
  BY <1>1, <1>3, AppendedShape DEF log
<1>11. EntriesOK(log') /\ Numbered(log') /\ Metered(log') /\ Len(log') = n + 1
  BY <1>1, <1>2, <1>5, <1>9, <1>10, AppendEntry, AppendNumbered, AppendMetered DEF FileOK
<1>12. Replay(config, log') = next
  <2> DEFINE judged == IF BudgetExtended(log) THEN RejudgeBudget(Effective, z.event) ELSE z.event
  <2>1. judged = e
    BY <1>2, <1>5
  <2> HIDE DEF judged
  <2>2. /\ z.event.tag # "RUN_EXTENDED" /\ z.event.tag \notin DriverOnlyTags
        /\ z.event.tag \in EventsOf(Replay(config, log).tag)
    BY <1>2, <1>4, <1>5
  <2>3. z.event.tag = "CONTRACT_ADJUDICATED" => RepeatNotLowered(config, log)
    <3>1. e.tag = "CONTRACT_ADJUDICATED" => s.tag = "ADJUDICATING"
      BY <1>2 DEF EventsOf
    <3>. QED BY <1>5, <3>1 DEF s
  <2>4. Replay(config, Append(log, z)) = Step(Effective, Replay(config, log), judged)
    BY <1>1, <1>2, <1>9, <2>2, <2>3, FoldAppend DEF judged, Effective
  <2>. QED BY <1>2, <1>10, <2>1, <2>4 DEF next
<1>13. /\ ProcFields' /\ proc'.up = proc.up /\ proc'.st = next /\ proc'.pending = NoEvent
       /\ proc'.seq = n + 1 /\ proc'.checked = TRUE
       /\ proc'.approver = (IF e.tag = "PHASE_ADVANCED" THEN e.tree ELSE proc.approver)
       /\ proc'.judge = proc.judge /\ proc'.note = proc.note /\ proc'.meter = proc.meter
       /\ proc'.due = CheckpointFollows(e, next)
  BY <1>1, <1>2, <1>3 DEF ProcFields
<1>14. FileOK'
  BY <1>3, <1>1, <1>10, <1>11 DEF FileOK, SequenceUnbroken, Numbered
<1>15. proc'.due \in BOOLEAN /\ (proc'.due => config.deltaVerify /\ next.tag \notin TerminalTags)
  <2>1. next.cmd = "RUN_AGENT" => next.tag \notin TerminalTags
    BY <1>8 DEF StateShape, WaitsFor, StateTags, TerminalTags
  <2>2. CheckpointFollows(e, next) \in BOOLEAN
    BY DEF CheckpointFollows
  <2>3. CheckpointFollows(e, next) => config.deltaVerify /\ next.cmd = "RUN_AGENT"
    BY DEF CheckpointFollows
  <2>. QED BY <1>13, <2>1, <2>2, <2>3, Zenon
<1>16. NoEvent.tag = "none"
  BY DEF NoEvent
<1>17. proc'.note = (PendingNote(log') /\ proc'.pending.tag # "AGENT_RAN")
  <2>1. PendingNote(log') <=> PendingNote(log) /\ e.tag # "AGENT_RAN"
    BY <1>2, <1>4, <1>5, <1>9, <1>10, AppendNote
  <2>2. proc.note = (PendingNote(log) /\ e.tag # "AGENT_RAN")
    BY <1>1 DEF MemoryOK, e
  <2>3. PendingNote(log') \in BOOLEAN /\ PendingNote(log) \in BOOLEAN
    BY DEF PendingNote
  <2>4. proc'.note = PendingNote(log')
    BY <1>13, <2>1, <2>2, <2>3, Zenon
  <2>. QED BY <1>13, <1>16, <2>3, <2>4
<1>18. proc'.judge = Baseline(log', RunStart)
  <2> DEFINE tags == {"CHECKPOINTED", "PHASE_ADVANCED", "WAVE_RAN"}
  <2>1. Baseline(log', RunStart) = IF e.tag \in tags THEN e.tree ELSE Baseline(log, RunStart)
    BY <1>2, <1>5, <1>9, <1>10, AppendTree DEF Baseline
  <2>2. proc.judge = IF e.tag \in {"PHASE_ADVANCED", "WAVE_RAN"} THEN e.tree
                     ELSE Baseline(log, RunStart)
    BY <1>1 DEF MemoryOK, e
  <2>. QED BY <1>4, <1>13, <2>1, <2>2
<1>19. ~config.parallelPhases => proc'.approver = PhaseBaseline(log', RunStart)
  <2> DEFINE tags == {"PHASE_ADVANCED", "WAVE_RAN"}
  <2>1. PhaseBaseline(log', RunStart) = IF e.tag \in tags THEN e.tree ELSE PhaseBaseline(log, RunStart)
    BY <1>2, <1>5, <1>9, <1>10, AppendTree DEF PhaseBaseline
  <2>2. ~config.parallelPhases => proc.approver = PhaseBaseline(log, RunStart)
    BY <1>1 DEF MemoryOK
  <2>3. e.tag = "WAVE_RAN" => config.parallelPhases
    <3>1. e.tag = "WAVE_RAN" => s.tag = "RUNNING_WAVE"
      BY <1>2 DEF EventsOf
    <3>. QED BY <1>6, <1>7, <3>1 DEF StateShape
  <2>. QED BY <1>13, <2>1, <2>2, <2>3
<1>20. MemoryOK'
  <2>1. config' = config
    BY <1>3
  <2>2. proc'.meter \in Nat
    BY <1>1, <1>13 DEF MemoryOK
  <2>3. proc'.checked \in BOOLEAN /\ (file'.torn => ~proc'.checked)
    BY <1>10, <1>13
  <2>4. proc'.judge = IF proc'.pending.tag \in {"PHASE_ADVANCED", "WAVE_RAN"}
                      THEN proc'.pending.tree ELSE Baseline(log', RunStart)
    BY <1>13, <1>16, <1>18
  <2>5. proc'.due => /\ config'.deltaVerify /\ proc'.pending = NoEvent
                     /\ proc'.st.tag \notin TerminalTags
    BY <1>13, <1>15, <2>1
  <2>6. proc'.st = Replay(config', log') /\ proc'.st # Invalid /\ proc'.seq = Len(log')
    BY <1>8, <1>11, <1>12, <1>13, <2>1
  <2>7. ~config'.parallelPhases => proc'.approver = PhaseBaseline(log', RunStart)
    BY <1>19, <2>1
  <2>. QED BY <1>13, <1>17, <2>2, <2>3, <2>4, <2>5, <2>6, <2>7 DEF MemoryOK
<1>21. /\ [config |-> config', world |-> world'] \in Scenarios
       /\ processes' \in 0 .. world'.processes /\ processes' > 0
  BY <1>1, <1>3 DEF JournalInv
<1>22. proc'.up /\ proc'.up \in BOOLEAN
  BY <1>3, <1>13
<1>. QED BY <1>13, <1>14, <1>15, <1>20, <1>21, <1>22 DEF JournalInv

(* and when a checkpoint is appended. *)
LEMMA CheckpointInv ==
  ASSUME JournalInv, Checkpoint
  PROVE  JournalInv'
<1> DEFINE e == [tag |-> "CHECKPOINTED", tree |-> tree]
           z == Entry(proc.seq + 1, e, proc.st.tag)
           n == Len(log)
<1>1. /\ ConfigOK(config) /\ WorldOK(world) /\ FileOK /\ MemoryOK /\ ProcFields
      /\ processes > 0 /\ processes # 0
  BY ScenarioFacts DEF JournalInv, Checkpoint
<1>2. /\ EntriesOK(log) /\ Numbered(log) /\ proc.st = Replay(config, log) /\ proc.st # Invalid
      /\ proc.seq = n /\ proc.pending = NoEvent
  BY <1>1 DEF MemoryOK, FileOK, SequenceUnbroken, Numbered, Checkpoint
<1>3. /\ file' = Appended(file, proc.checked, z)
      /\ proc' = [proc EXCEPT !.due = FALSE, !.seq = @ + 1, !.judge = tree]
      /\ UNCHANGED << config, world, processes >> /\ proc.up
  BY DEF Checkpoint
<1>4. /\ z.event = e /\ z.seq = n + 1 /\ e.tag = "CHECKPOINTED" /\ e.tree = tree
  BY <1>2 DEF Entry
<1> HIDE DEF e, z
<1>5. /\ EventOK(z.event) /\ z.event.tag \in DriverOnlyTags
      /\ z.event.tag \notin {"RUN_EXTENDED", "CONTRACT_ADJUDICATED", "AGENT_RAN"}
      /\ MeteredOK(z.event)
  BY <1>4 DEF EventOK, DriverOnlyTags, MeteredOK, Charged
<1>6. log' = Append(log, z) /\ file'.torn = FALSE /\ file'.fused = FALSE
      /\ DOMAIN file' = {"entries", "torn", "fused"}
  BY <1>1, <1>3, AppendedShape DEF log
<1>7. EntriesOK(log') /\ Numbered(log') /\ Metered(log') /\ Len(log') = n + 1
  BY <1>1, <1>2, <1>4, <1>5, <1>6, AppendEntry, AppendNumbered, AppendMetered DEF FileOK
<1>8. Replay(config, log') = proc.st
  <2> DEFINE eff == ExtendedRunConfig(config, log)
             judged == IF BudgetExtended(log) THEN RejudgeBudget(eff, z.event) ELSE z.event
  <2> HIDE DEF eff, judged
  <2>. QED BY <1>1, <1>2, <1>5, <1>6, FoldAppend DEF eff, judged
<1>9. /\ ProcFields' /\ proc'.up = proc.up /\ proc'.st = proc.st /\ proc'.pending = proc.pending
      /\ proc'.seq = n + 1 /\ proc'.checked = proc.checked /\ proc'.approver = proc.approver
      /\ proc'.judge = tree /\ proc'.note = proc.note /\ proc'.meter = proc.meter
      /\ proc'.due = FALSE
  BY <1>1, <1>2, <1>3 DEF ProcFields
<1>10. FileOK'
  BY <1>3, <1>1, <1>6, <1>7 DEF FileOK, SequenceUnbroken, Numbered
<1>11. NoEvent.tag = "none"
  BY DEF NoEvent
<1>12. proc'.note = (PendingNote(log') /\ proc'.pending.tag # "AGENT_RAN")
  <2>1. PendingNote(log') <=> PendingNote(log)
    BY <1>2, <1>5, <1>6, AppendNote
  <2>2. proc.note = (PendingNote(log) /\ proc.pending.tag # "AGENT_RAN")
    BY <1>1 DEF MemoryOK
  <2>3. PendingNote(log') \in BOOLEAN /\ PendingNote(log) \in BOOLEAN
    BY DEF PendingNote
  <2>4. PendingNote(log') = PendingNote(log)
    BY <2>1, <2>3, SMT
  <2>. QED BY <1>9, <2>2, <2>4
<1>13. Baseline(log', RunStart) = tree
  BY <1>2, <1>4, <1>5, <1>6, AppendTree DEF Baseline
<1>14. PhaseBaseline(log', RunStart) = PhaseBaseline(log, RunStart)
  BY <1>2, <1>4, <1>5, <1>6, AppendTree DEF PhaseBaseline
<1>15. MemoryOK'
  <2>1. config' = config
    BY <1>3
  <2>2. proc'.meter \in Nat /\ proc'.checked \in BOOLEAN /\ (file'.torn => ~proc'.checked)
    BY <1>1, <1>6, <1>9 DEF MemoryOK
  <2>3. proc'.judge = IF proc'.pending.tag \in {"PHASE_ADVANCED", "WAVE_RAN"}
                      THEN proc'.pending.tree ELSE Baseline(log', RunStart)
    BY <1>2, <1>9, <1>11, <1>13
  <2>4. ~config'.parallelPhases => proc'.approver = PhaseBaseline(log', RunStart)
    BY <1>1, <1>9, <1>14, <2>1 DEF MemoryOK
  <2>5. proc'.st = Replay(config', log') /\ proc'.st # Invalid /\ proc'.seq = Len(log')
    BY <1>2, <1>7, <1>8, <1>9, <2>1
  <2>6. ~proc'.due /\ proc'.pending = NoEvent
    BY <1>2, <1>9
  <2>. QED BY <1>12, <2>2, <2>3, <2>4, <2>5, <2>6 DEF MemoryOK
<1>16. /\ [config |-> config', world |-> world'] \in Scenarios
       /\ processes' \in 0 .. world'.processes /\ processes' > 0
  BY <1>1, <1>3 DEF JournalInv
<1>17. proc'.up /\ ~proc'.due /\ proc'.up \in BOOLEAN /\ proc'.due \in BOOLEAN
  BY <1>3, <1>9, Zenon
<1>. QED BY <1>9, <1>10, <1>15, <1>16, <1>17 DEF JournalInv

(* A checkpoint that failed before it wrote leaves the run as it was. *)
LEMMA CheckpointFailsInv ==
  ASSUME JournalInv, CheckpointFails("unwritten")
  PROVE  JournalInv'
<1>1. /\ proc' = [proc EXCEPT !.due = FALSE] /\ file' = file
      /\ UNCHANGED << config, world, processes >> /\ proc.up /\ proc.due
  BY DEF CheckpointFails
<1>2. FileOK /\ MemoryOK /\ ProcFields /\ processes > 0
  BY <1>1 DEF JournalInv
<1>3. /\ ProcFields' /\ proc'.up = proc.up /\ proc'.st = proc.st /\ proc'.pending = proc.pending
      /\ proc'.seq = proc.seq /\ proc'.checked = proc.checked /\ proc'.approver = proc.approver
      /\ proc'.judge = proc.judge /\ proc'.note = proc.note /\ proc'.meter = proc.meter
      /\ proc'.due = FALSE
  BY <1>1, <1>2 DEF ProcFields
<1>4. log' = log
  BY <1>1 DEF log
<1>5. FileOK'
  BY <1>1, <1>2, <1>3, <1>4 DEF FileOK, SequenceUnbroken
<1>6. proc'.pending = NoEvent
  BY <1>1, <1>2, <1>3 DEF MemoryOK
<1>7. MemoryOK'
  BY <1>1, <1>2, <1>3, <1>4, <1>6 DEF MemoryOK
<1>8. proc'.up /\ ~proc'.due /\ proc'.up \in BOOLEAN /\ proc'.due \in BOOLEAN
  BY <1>1, <1>3, Zenon
<1>. QED BY <1>1, <1>2, <1>3, <1>5, <1>7, <1>8 DEF JournalInv

(* So it is inductive. *)
LEMMA NextInv ==
  ASSUME JournalInv, [Next]_vars,
         proc.up /\ proc.st.tag = "ADJUDICATING" => RepeatNotLowered(config, log),
         world.faults \subseteq {"unwritten"}
  PROVE  JournalInv'
<1>1. CASE Start
  BY <1>1, StartInv
<1>2. CASE \E x \in world.extensions, rewired \in world.rewired : Resume(x, rewired)
  BY <1>2, ResumeInv
<1>3. CASE \E r \in world.results, llm \in world.charges : Perform(r, llm)
  BY <1>3, PerformInv
<1>4. CASE Commit
  <2>1. proc.up
    BY <1>4 DEF Commit
  <2>. QED BY <1>4, <2>1, CommitInv
<1>5. CASE Stop \/ CommitTorn
  BY <1>5, StopInv
<1>6. CASE Checkpoint
  BY <1>6, CheckpointInv
<1>7. CASE \E fault \in world.faults : CheckpointFails(fault)
  BY <1>7, CheckpointFailsInv
<1>8. CASE UNCHANGED vars
  <2>1. log' = log /\ Effective' = Effective
    BY <1>8 DEF vars, log, Effective
  <2>2. FileOK' /\ ProcFields'
    BY <1>8, <2>1 DEF JournalInv, FileOK, ProcFields, SequenceUnbroken, vars
  <2>3. PendingOK => PendingOK'
    BY <1>8, <2>1 DEF PendingOK, vars
  <2>4. MemoryOK => MemoryOK'
    BY <1>8, <2>1, <2>3 DEF MemoryOK, vars
  <2>. QED BY <1>8, <2>2, <2>4 DEF JournalInv, vars
<1>. QED BY <1>1, <1>2, <1>3, <1>4, <1>5, <1>6, <1>7, <1>8 DEF Next

-----------------------------------------------------------------------------
(* The theorems of the state. *)

(* What the invariant says of the properties the runs check. *)
LEMMA InvMatches ==
  ASSUME JournalInv
  PROVE  /\ TypeOK /\ StateMatchesLog /\ SequenceUnbroken
         /\ ~config.parallelPhases => BaselinesMatchLog
<1>1. NoEvent.tag = "none"
  BY DEF NoEvent
<1>2. TypeOK
  <2>1. /\ [config |-> config, world |-> world] \in Scenarios
        /\ file.torn \in BOOLEAN /\ file.fused \in BOOLEAN
        /\ processes \in 0 .. world.processes
    BY DEF JournalInv, FileOK
  <2>2. ASSUME proc.up
        PROVE  /\ proc.st # Invalid /\ processes > 0
               /\ proc.st.tag \in TerminalTags => proc.pending = NoEvent /\ ~proc.due
    <3>1. MemoryOK /\ processes > 0
      BY <2>2 DEF JournalInv
    <3>2. proc.st.tag \in TerminalTags => EventsOf(proc.st.tag) = {}
      BY DEF TerminalTags, EventsOf
    <3>. QED BY <3>1, <3>2 DEF MemoryOK, PendingOK
  <2>3. proc.due => config.deltaVerify /\ proc.pending = NoEvent
    BY DEF JournalInv, MemoryOK
  <2>. QED BY <2>1, <2>2, <2>3 DEF TypeOK
<1>3. StateMatchesLog
  <2>1. SUFFICES ASSUME Idle PROVE proc.st = Replay(config, log) /\ proc.note = PendingNote(log)
    BY DEF StateMatchesLog
  <2>2. MemoryOK /\ proc.pending.tag # "AGENT_RAN"
    BY <1>1, <2>1 DEF JournalInv, Idle
  <2>3. PendingNote(log) \in BOOLEAN
    BY DEF PendingNote
  <2>. QED BY <2>2, <2>3 DEF MemoryOK
<1>4. ~config.parallelPhases => BaselinesMatchLog
  <2>1. SUFFICES ASSUME Idle, ~config.parallelPhases
                 PROVE  /\ proc.judge = Baseline(log, RunStart)
                        /\ proc.approver = PhaseBaseline(log, RunStart)
    BY DEF BaselinesMatchLog
  <2>2. MemoryOK /\ proc.pending.tag \notin {"PHASE_ADVANCED", "WAVE_RAN"}
    BY <1>1, <2>1 DEF JournalInv, Idle
  <2>. QED BY <2>1, <2>2 DEF MemoryOK
<1>. QED BY <1>2, <1>3, <1>4 DEF JournalInv, FileOK

(***************************************************************************)
(* What the theorems assume of a run. A checkpoint fails before it writes:  *)
(* one that tears the tail, or is written and reported as failed, does      *)
(* break the log, because file-runlog.ts looks at the tail once per         *)
(* process. No extension lowers the repeat threshold while an adjudication  *)
(* of a repeated red is pending: the fold goes back to the threshold the    *)
(* red tripped at only after the adjudication is logged, and may then find  *)
(* that it had not tripped.                                                 *)
(***************************************************************************)
Tame ==
  /\ world.faults \subseteq {"unwritten"}
  /\ proc.up /\ proc.st.tag = "ADJUDICATING" => RepeatNotLowered(config, log)

(***************************************************************************)
(* The invariant holds in every scenario, of any number of processes, any   *)
(* results, extensions and rewirings, while checkpoints fail only before    *)
(* they write and no extension lowers the threshold a pending adjudication  *)
(* was decided under: a repeat detector raised later is then told apart in  *)
(* every later fold (driver/driver.ts, driver/resume.ts,                    *)
(* runlog/replay.ts).                                                       *)
(***************************************************************************)
THEOREM JournalHolds == Spec /\ []Tame => []JournalInv
<1>1. Init => JournalInv
  BY InitInv
<1>2. JournalInv /\ Tame /\ [Next]_vars => JournalInv'
  BY NextInv DEF Tame
<1>. QED BY <1>1, <1>2, PTL DEF Spec

(***************************************************************************)
(* Between two steps the live process's state and pending note are what     *)
(* any reader folds out of the log, and the entries are numbered without    *)
(* gaps, across processes, kills and torn tails (driver.ts, file-           *)
(* runlog.ts).                                                              *)
(***************************************************************************)
THEOREM StateHolds == Spec /\ []Tame => [](TypeOK /\ StateMatchesLog /\ SequenceUnbroken)
<1>1. JournalInv => TypeOK /\ StateMatchesLog /\ SequenceUnbroken
  BY InvMatches
<1>. QED BY <1>1, JournalHolds, PTL

(***************************************************************************)
(* So are, without parallel waves, the two diff baselines: the judge and    *)
(* the approver are shown what they would have been without an              *)
(* interruption (driver/baseline.ts). A wave is why the theorem is about    *)
(* the others: the live approver's baseline is not moved by one, a resumed  *)
(* one's is.                                                                *)
(***************************************************************************)
THEOREM MemoryHolds == Spec /\ []Tame => [](~config.parallelPhases => MemoryMatchesLog)
<1>1. JournalInv => (~config.parallelPhases => MemoryMatchesLog)
  BY InvMatches DEF MemoryMatchesLog
<1>. QED BY <1>1, JournalHolds, PTL

-----------------------------------------------------------------------------
(* The spend. *)

(* An entry adds its spend to what the log accounts for. *)
LEMMA LoggedAppend ==
  ASSUME NEW l, EntriesOK(l), NEW x, EventOK(x.event)
  PROVE  Logged(Append(l, x)) = Logged(l) + SpentBy(x)
<1> DEFINE g == Append(l, x)
           n == Len(l)
<1>1. /\ EntriesOK(g) /\ n \in Nat /\ Len(g) = n + 1 /\ g[n + 1] = x
      /\ \A i \in 1 .. n : g[i] = l[i]
  BY AppendEntry
<1> HIDE DEF g, n
<1>2. PICK f : /\ f[0] = 0 /\ Logged(l) = f[n]
               /\ \A i \in 1 .. n : f[i] = f[i - 1] + SpentBy(l[i])
  BY LoggedRecurs DEF EntriesOK, n
<1>3. PICK h : /\ h[0] = 0 /\ Logged(g) = h[Len(g)]
               /\ \A i \in 1 .. Len(g) : h[i] = h[i - 1] + SpentBy(g[i])
  BY <1>1, LoggedRecurs DEF EntriesOK
<1> DEFINE T == { i \in 0 .. n : h[i] = f[i] }
<1>4. 0 \in T
  BY <1>1, <1>2, <1>3
<1>5. ASSUME NEW i \in 1 .. n, i - 1 \in T PROVE i \in T
  <2>1. h[i] = h[i - 1] + SpentBy(l[i])
    BY <1>1, <1>3
  <2>. QED BY <1>1, <1>2, <1>5, <2>1
<1>6. n \in T
  <2> HIDE DEF T
  <2>1. 0 .. n \subseteq T
    BY <1>1, <1>4, <1>5, PositionInduction
  <2>. QED BY <1>1, <2>1
<1>7. h[n] = f[n] /\ h[n + 1] = h[n] + SpentBy(x)
  BY <1>1, <1>3, <1>6
<1>. QED BY <1>1, <1>2, <1>3, <1>7 DEF g

(* The detector of the token cap is consulted first and never excused. *)
LEMMA BudgetStops ==
  ASSUME NEW c, NEW contract, NEW ctx, ctx.lastBudget, NEW pass, NEW approval,
         ~(pass /\ approval = "approve")
  PROVE  Decide(c, contract, ctx, pass, approval).kind = "ABORTED"
<1>1. DetectStuck(c, ctx) = "budget"
  <2>1. Trips(c, ctx, "budget")
    BY DEF Trips
  <2>. QED BY <2>1, StuckChain
<1>2. ~Remediable(c, ctx, "budget") /\ ~SuspectsContractFault(contract, ctx, "budget")
  BY DEF Remediable, SuspectsContractFault
<1>. QED BY <1>1, <1>2 DEF Decide, Decision

(* Where a decision leads back to the agent, no budget stood in the way. *)
LEMMA TurnAfterDecision ==
  ASSUME NEW c, ConfigOK(c), NEW s, StateFields(s), NEW ctx, HistoriesOK(ctx),
         NEW pass, NEW approval, NEW t,
         t = ApplyDecision(c, s, ctx, Decide(c, s.contract, ctx, pass, approval)),
         t.tag = "RUNNING_AGENT"
  PROVE  ~ctx.lastBudget
<1> DEFINE d == Decide(c, s.contract, ctx, pass, approval)
<1>1. d.kind \in {"CONTINUE", "DONE", "ADJUDICATE", "FAILED", "ABORTED"}
  BY DecideShape
<1>2. pass /\ approval = "approve" => d.kind = "DONE"
  BY DEF Decide, Decision
<1>3. ctx.lastBudget /\ ~(pass /\ approval = "approve") => d.kind = "ABORTED"
  BY BudgetStops
<1> HIDE DEF d
<1>4. d.kind = "DONE" => t.tag # "RUNNING_AGENT"
  BY DEF ApplyDecision, PhaseDone, Stopped, State, d
<1>5. d.kind = "ABORTED" => t.tag # "RUNNING_AGENT"
  BY DEF ApplyDecision, Stopped, State, d
<1>. QED BY <1>2, <1>3, <1>4, <1>5

(***************************************************************************)
(* A turn that is not the first of its contract follows a verdict or a     *)
(* veto that was within the budget.                                        *)
(***************************************************************************)
LEMMA TurnAfterReading ==
  ASSUME NEW c, ConfigOK(c), NEW n \in Nat, NEW s, StateShape(c, s, n), NEW e, ReadingOK(e),
         e.tag \in EventsOf(s.tag), NEW t, t = Step(c, s, e),
         t.tag = "RUNNING_AGENT", t.ctx.runStatusHistory # << >>
  PROVE  e.tag \in {"VERIFIED", "SIGNOFF_DECIDED"} /\ ~e.budget
<1>0. StateFields(s) /\ CtxFields(s.ctx) /\ HistoriesOK(s.ctx)
  BY DEF StateShape
<1>1. \A phase : StartPhaseCompile(c, phase).tag # "RUNNING_AGENT"
  BY DEF StartPhaseCompile, Compiling, State
<1>2. \A contract, phase : StartIteration(c, contract, phase, InitialCtx).ctx.runStatusHistory = << >>
  BY DEF StartIteration, State, InitialCtx
<1>3. ASSUME s.tag = "PLANNING" PROVE FALSE
  <2>1. e.tag \in {"PLAN_COMPILED", "PLAN_FAILED"} /\ t = StepPlanning(c, s, e)
    BY <1>3 DEF EventsOf, Step
  <2>2. s.planRound \in Nat /\ c.maxPlanRetries \in Nat
    BY KnobTypes DEF StateShape
  <2>3. t.tag \in {"AWAIT_PLAN_SEAL", "PLANNING", "FAILED"}
    BY <2>1, <2>2 DEF StepPlanning, Planning, Stopped, State
  <2>. QED BY <2>3
<1>4. ASSUME s.tag = "AWAIT_PLAN_SEAL" PROVE FALSE
  <2>1. e.tag = "PLAN_SEAL_DECIDED" /\ t = StepAwaitPlanSeal(c, s, e)
    BY <1>4 DEF EventsOf, Step
  <2>2. s.reviseRound \in Nat /\ c.maxPlanRevisions \in Nat
        /\ e.decision \in {"approve", "reject", "revise"}
    BY <2>1, KnobTypes DEF StateShape, ReadingOK
  <2>3. t.tag \in {"ABORTED", "PLANNING"} \/ t = StartPhaseCompile(c, s.phase)
    BY <2>1, <2>2 DEF StepAwaitPlanSeal, Planning, Stopped, State
  <2>. QED BY <1>1, <2>3
<1>5. ASSUME s.tag = "ADVANCING_PHASE" PROVE FALSE
  BY <1>1, <1>5 DEF Step, StepAdvancingPhase
<1>6. ASSUME s.tag = "RUNNING_WAVE" PROVE FALSE
  BY <1>1, <1>6 DEF Step, StepRunningWave
<1>7. ASSUME s.tag = "COMPILING" PROVE FALSE
  <2>1. e.tag \in {"CONTRACT_COMPILED", "COMPILE_FAILED"} /\ t = StepCompiling(c, s, e)
    BY <1>7 DEF EventsOf, Step
  <2>2. s.compileRound \in Nat /\ c.maxCompileRetries \in Nat
    BY KnobTypes DEF StateShape
  <2>3. t.tag \in {"AWAIT_SEAL", "COMPILING", "FAILED"}
    BY <2>1, <2>2 DEF StepCompiling, Compiling, Stopped, State
  <2>. QED BY <2>3
<1>8. ASSUME s.tag = "AWAIT_SEAL" PROVE FALSE
  <2>1. e.tag = "SEAL_DECIDED" /\ t = StepAwaitSeal(c, s, e)
    BY <1>8 DEF EventsOf, Step
  <2>2. s.reviseRound \in Nat /\ c.maxSealRevisions \in Nat
        /\ e.decision \in {"approve", "reject", "revise", "edited"}
    BY <2>1, KnobTypes DEF StateShape, ReadingOK
  <2>3. \/ t.tag \in {"PREPARING", "ABORTED", "COMPILING"}
        \/ t = StartIteration(c, s.contract, s.phase, InitialCtx)
    BY <2>1, <2>2 DEF StepAwaitSeal, Compiling, Stopped, State
  <2>. QED BY <1>2, <2>3
<1>9. ASSUME s.tag = "PREPARING" PROVE FALSE
  <2>1. t = StepPreparing(c, s, e)
    BY <1>9 DEF Step
  <2>2. t.tag = "FAILED" \/ t = StartIteration(c, s.contract, s.phase, InitialCtx)
    BY <2>1 DEF StepPreparing, Stopped, State
  <2>. QED BY <1>2, <2>2
<1>10. ASSUME s.tag = "RUNNING_AGENT" PROVE FALSE
  <2>1. t.tag = "VERIFYING"
    BY <1>0, <1>10 DEF Step, StepRunningAgent, StateFields
  <2>. QED BY <2>1
<1>11. ASSUME s.tag = "VERIFYING"
       PROVE  e.tag = "VERIFIED" /\ ~e.budget
  <2>1. e.tag = "VERIFIED" /\ t = StepVerifying(c, s, e)
    BY <1>11 DEF EventsOf, Step
  <2>2. CASE e.pass
    <3>1. t.tag = "AWAIT_SIGNOFF"
      BY <1>0, <2>1, <2>2 DEF StepVerifying, StateFields
    <3>. QED BY <3>1
  <2>3. CASE ~e.pass
    <3> DEFINE ctx == AfterRed(s.ctx, e)
    <3>1. t = ApplyDecision(c, s, ctx, Decide(c, s.contract, ctx, FALSE, "none"))
      BY <2>1, <2>3 DEF StepVerifying
    <3>2. ctx.lastBudget = e.budget /\ HistoriesOK(ctx)
      <4>1. /\ ctx.lastBudget = e.budget /\ ctx.runStatusHistory = s.ctx.runStatusHistory
            /\ ctx.remediations = s.ctx.remediations /\ ctx.iteration = s.ctx.iteration
            /\ ctx.verifierDetailHistory =
                 Append(s.ctx.verifierDetailHistory, NormalizeDetail(e.detail))
        BY <1>0 DEF AfterRed, CtxFields
      <4>2. IsSequence(ctx.verifierDetailHistory)
        BY <1>0, <4>1, SequenceAppend DEF HistoriesOK
      <4>. QED BY <1>0, <4>1, <4>2 DEF HistoriesOK
    <3> HIDE DEF ctx
    <3>3. ~ctx.lastBudget
      BY <1>0, <3>1, <3>2, TurnAfterDecision
    <3>. QED BY <2>1, <3>2, <3>3
  <2>. QED BY <2>2, <2>3
<1>12. ASSUME s.tag = "AWAIT_SIGNOFF"
       PROVE  e.tag = "SIGNOFF_DECIDED" /\ ~e.budget
  <2>1. e.tag = "SIGNOFF_DECIDED" /\ t = StepAwaitSignoff(c, s, e)
    BY <1>12 DEF EventsOf, Step
  <2> DEFINE ctx == [s.ctx EXCEPT !.lastBudget = e.budget]
  <2>2. t = ApplyDecision(c, s, ctx,
              Decide(c, s.contract, ctx, ctx.lastVerdict = "pass", e.approval))
    BY <2>1 DEF StepAwaitSignoff
  <2>3. ctx.lastBudget = e.budget /\ HistoriesOK(ctx)
    <3>1. /\ ctx.lastBudget = e.budget /\ ctx.runStatusHistory = s.ctx.runStatusHistory
          /\ ctx.remediations = s.ctx.remediations /\ ctx.iteration = s.ctx.iteration
          /\ ctx.verifierDetailHistory = s.ctx.verifierDetailHistory
      BY <1>0 DEF CtxFields
    <3>. QED BY <1>0, <3>1 DEF HistoriesOK
  <2> HIDE DEF ctx
  <2>4. ~ctx.lastBudget
    BY <1>0, <2>2, <2>3, TurnAfterDecision
  <2>. QED BY <2>1, <2>3, <2>4
<1>13. ASSUME s.tag = "ADJUDICATING" PROVE FALSE
  <2>1. t.tag = "ABORTED"
    BY <1>13 DEF Step, StepAdjudicating, Stopped, State
  <2>. QED BY <2>1
<1>14. s.tag \in {"PLANNING", "AWAIT_PLAN_SEAL", "ADVANCING_PHASE", "RUNNING_WAVE", "COMPILING",
                  "AWAIT_SEAL", "PREPARING", "RUNNING_AGENT", "VERIFYING", "AWAIT_SIGNOFF",
                  "ADJUDICATING"}
  BY DEF EventsOf
<1>. QED BY <1>3, <1>4, <1>5, <1>6, <1>7, <1>8, <1>9, <1>10, <1>11, <1>12, <1>13, <1>14

(* The last event the reducer saw was a verdict or a veto within the budget. *)
ClearedTail(l) ==
  LET tail == l[LastFoldedIndex(l)].event
  IN  Folded(l) # {} /\ tail.tag \in {"VERIFIED", "SIGNOFF_DECIDED"} /\ ~tail.budget

(* A turn that is not a contract's first follows a cleared tail. *)
LEMMA TurnAfterClearedTail ==
  ASSUME NEW c, ConfigOK(c), NEW l, EntriesOK(l), Replay(c, l).tag = "RUNNING_AGENT",
         Replay(c, l).ctx.runStatusHistory # << >>
  PROVE  ClearedTail(l)
<1> DEFINE eff == ExtendedRunConfig(c, l)
           f == Fold(c, l)
           m == LastFoldedIndex(l)
           e == l[m].event
           judged == IF BudgetExtended(l) THEN RejudgeBudget(eff, e) ELSE e
           d == ConfigAt(c, eff, l, m)
           s == f[m - 1]
<1>1. Folded(l) # {}
  <2>1. InitialState(eff).tag # "RUNNING_AGENT"
    BY DEF InitialState, State
  <2>. QED BY <2>1, UnfoldedStart
<1>2. m \in Folded(l) /\ m \in 1 .. Len(l) /\ Len(l) \in Nat /\ DOMAIN l = 1 .. Len(l)
  BY <1>1, FoldedPositions, SequenceShape DEF EntriesOK
<1>3. e.tag \notin DriverOnlyTags /\ ReadingOK(e)
  BY <1>2 DEF Folded, EntriesOK, EventOK
<1>4. Replay(c, l) = f[m] /\ f[m] = FoldEntry(c, l, m, s)
  BY <1>1, <1>2, TailFold, FoldRecurs DEF EntriesOK
<1>5. FoldEntry(c, l, m, s) = StepOrThrow(d, s, judged)
  BY <1>3 DEF FoldEntry
<1>6. SameBut(eff, d) /\ ConfigOK(eff)
  BY <1>2, ConfigAtShape, EffectiveType
<1>7. s = Invalid \/ StateShape(eff, s, m - 1)
  BY <1>2, FoldShape
<1>8. ReadingOK(judged) /\ judged.tag = e.tag
      /\ (e.tag # "AGENT_RAN" => judged = e)
  BY <1>3, <1>6, RejudgedOK DEF RejudgeBudget
<1> HIDE DEF eff, f, m, e, judged, d, s
<1>9. judged.tag \in EventsOf(s.tag) /\ Replay(c, l) = Step(d, s, judged)
  BY <1>4, <1>5, InvalidTag DEF StepOrThrow
<1>10. StateShape(d, s, m - 1) /\ ConfigOK(d) /\ m - 1 \in Nat
  <2>1. s # Invalid
    BY <1>9, InvalidTag
  <2>2. ConfigOK(d) /\ m - 1 \in Nat
    BY <1>2, <1>6 DEF SameBut
  <2>. QED BY <1>6, <1>7, <2>1, <2>2, ShapeSame
<1>11. judged.tag \in {"VERIFIED", "SIGNOFF_DECIDED"} /\ ~judged.budget
  BY <1>8, <1>9, <1>10, TurnAfterReading
<1>. QED BY <1>1, <1>8, <1>11 DEF ClearedTail, e, m

(* An entry the reducer does not see changes neither the last it saw nor the spend. *)
LEMMA DriverAppend ==
  ASSUME NEW l, EntriesOK(l), Metered(l), NEW x, EventOK(x.event),
         x.event.tag \in DriverOnlyTags
  PROVE  /\ EntriesOK(Append(l, x)) /\ Metered(Append(l, x))
         /\ ClearedTail(Append(l, x)) <=> ClearedTail(l)
         /\ Logged(Append(l, x)) = Logged(l)
<1> DEFINE g == Append(l, x)
<1>1. /\ EntriesOK(g) /\ Len(l) \in Nat
      /\ \A i \in 1 .. Len(l) : g[i] = l[i]
  BY AppendEntry
<1>2. Folded(g) = Folded(l) /\ LastFoldedIndex(g) = LastFoldedIndex(l)
  BY AppendFolded
<1>3. Folded(l) # {} => g[LastFoldedIndex(l)] = l[LastFoldedIndex(l)]
  BY <1>1, FoldedPositions
<1>4. SpentBy(x) = 0
  BY DEF SpentBy, Summed, Charged, DriverOnlyTags
<1>5. Logged(g) = Logged(l)
  BY <1>4, LoggedAppend, LoggedType
<1>6. Metered(g)
  <2>1. MeteredOK(x.event)
    BY DEF MeteredOK, DriverOnlyTags, Charged
  <2>. QED BY <2>1, AppendMetered
<1> HIDE DEF g
<1>. QED BY <1>1, <1>2, <1>3, <1>5, <1>6 DEF ClearedTail, g

(* The spend of the command whose event is not appended yet. *)
Outstanding == SpentBy([event |-> proc.pending])

(***************************************************************************)
(* The meter counts at least what the log accounts for, what was read off  *)
(* it says so, and the verdict or veto that let the run go on was read off *)
(* a meter below the cap.                                                  *)
(***************************************************************************)
SpendInv ==
  /\ proc.up =>
       /\ proc.meter >= Logged(log) + Outstanding
       /\ proc.pending.tag \in {"VERIFIED", "SIGNOFF_DECIDED"} =>
            proc.pending.budget = (proc.meter >= Effective.tokens)
  /\ ClearedTail(log) => Logged(log) < Effective.tokens

(***************************************************************************)
(* No step lowers the token cap in force.                                   *)
(***************************************************************************)
TokensNotLowered == Effective'.tokens >= Effective.tokens

(* The sums are numbers. *)
LEMMA SpendTypes ==
  ASSUME JournalInv
  PROVE  /\ EntriesOK(log) /\ Metered(log) /\ Logged(log) \in Nat /\ Effective.tokens \in Nat
         /\ proc.up => proc.meter \in Nat /\ Outstanding \in Nat
<1>1. EntriesOK(log) /\ Metered(log) /\ ConfigOK(config)
  BY ScenarioFacts DEF JournalInv, FileOK
<1>2. Effective.tokens \in Nat
  BY <1>1, EffectiveType, KnobTypes DEF Effective
<1>3. proc.up => proc.meter \in Nat /\ Outstanding \in Nat
  <2>1. NoEvent.tag = "none"
    BY DEF NoEvent
  <2>. QED BY <2>1 DEF JournalInv, MemoryOK, PendingOK, MeteredOK, Outstanding, SpentBy, Summed,
                       Charged
<1>. QED BY <1>1, <1>2, <1>3, LoggedType

(* Nothing is outstanding between two steps. *)
LEMMA NothingOutstanding ==
  ASSUME proc.pending = NoEvent
  PROVE  Outstanding = 0 /\ proc.pending.tag \notin {"VERIFIED", "SIGNOFF_DECIDED"}
BY DEF NoEvent, Outstanding, SpentBy, Summed, Charged

(* The tail stays cleared while only the Driver's own markers are appended. *)
LEMMA TailStaysCleared ==
  ASSUME JournalInv, JournalInv', SpendInv, TokensNotLowered,
         ClearedTail(log') <=> ClearedTail(log), Logged(log') = Logged(log)
  PROVE  ClearedTail(log') => Logged(log') < Effective'.tokens
<1>1. Logged(log) \in Nat /\ Effective.tokens \in Nat
  BY SpendTypes
<1>2. Effective'.tokens \in Nat
  <2>1. EntriesOK(log') /\ ConfigOK(config')
    BY ScenarioAssumption DEF JournalInv, FileOK
  <2>. QED BY <2>1, EffectiveType, KnobTypes DEF Effective
<1>. QED BY <1>1, <1>2 DEF SpendInv, TokensNotLowered

(* Before the first process nothing is spent. *)
LEMMA SpendInit == Init => SpendInv
<1>1. SUFFICES ASSUME Init PROVE SpendInv
  OBVIOUS
<1>2. log = << >> /\ ~proc.up
  BY <1>1 DEF Init, log, Down
<1>3. Folded(log) = {}
  BY <1>2, EmptySeq DEF Folded
<1>. QED BY <1>2, <1>3 DEF SpendInv, ClearedTail

(* The first process counts from nothing, *)
LEMMA SpendStart ==
  ASSUME JournalInv, JournalInv', SpendInv, TokensNotLowered, Start
  PROVE  SpendInv'
<1>1. /\ log = << >> /\ log' = log /\ ConfigOK(config)
      /\ proc' = Booted(<< >>, InitialState(config), 0, FALSE)
  BY ScenarioFacts DEF JournalInv, FileOK, Start, log
<1>2. proc'.pending = NoEvent /\ proc'.meter = Logged(<< >>)
  BY <1>1 DEF Booted, Down, PriorSpend
<1>3. Logged(<< >>) = 0
  BY <1>1, EmptyLog
<1>4. Outstanding' = 0 /\ proc'.pending.tag \notin {"VERIFIED", "SIGNOFF_DECIDED"}
  BY <1>2 DEF NoEvent, Outstanding, SpentBy, Summed, Charged
<1>5. ClearedTail(log') => Logged(log') < Effective'.tokens
  BY <1>1, TailStaysCleared
<1>6. log' = << >>
  BY <1>1
<1>7. proc'.meter >= Logged(log') + Outstanding'
  BY <1>2, <1>3, <1>4, <1>6
<1>. QED BY <1>4, <1>5, <1>7 DEF SpendInv

(* What a resume appends are the Driver's own markers. *)
LEMMA ResumedTail ==
  ASSUME ConfigOK(config), NEW l, EntriesOK(l), Metered(l), NEW x, OverlayOK(x.overlay),
         x = [overlay |-> x.overlay, note |-> x.note],
         NEW rewired, NEW tag, NEW marked, marked = Extended(l, Extension(l, x))
  PROVE  /\ ClearedTail(ReconcileDegraded(marked, rewired, tag)) <=> ClearedTail(l)
         /\ Logged(ReconcileDegraded(marked, rewired, tag)) = Logged(l)
<1> DEFINE y == Extension(l, x)
           marker == [tag |-> "RUN_EXTENDED", overlay |-> y.overlay, note |-> y.note]
           after == Replay(config, Append(l, Entry(Len(l) + 1, marker, "COMPILING"))).tag
           z == Entry(Len(l) + 1, marker, after)
           degraded == [tag |-> "DEGRADED_ESCALATED"]
           w == Entry(Len(marked) + 1, degraded, tag)
<1>1. OverlayOK(y.overlay)
  BY ReliefType, OverlaidType DEF Extension
<1>2. marked = IF ~HasExtension(y) THEN l ELSE Append(l, z)
  BY DEF Extended
<1>3. EventOK(marker) /\ marker.tag \in DriverOnlyTags
  BY <1>1 DEF EventOK, DriverOnlyTags
<1>4. EventOK(degraded) /\ degraded.tag \in DriverOnlyTags
  BY DEF EventOK, DriverOnlyTags
<1>5. z.event = marker /\ w.event = degraded
  BY DEF Entry
<1>6. ReconcileDegraded(marked, rewired, tag) = IF rewired THEN Append(marked, w) ELSE marked
  BY DEF ReconcileDegraded
<1> HIDE DEF y, marker, after, z, degraded, w
<1>7. /\ EntriesOK(marked) /\ Metered(marked) /\ (ClearedTail(marked) <=> ClearedTail(l))
      /\ Logged(marked) = Logged(l)
  BY <1>2, <1>3, <1>5, DriverAppend
<1>8. /\ ClearedTail(Append(marked, w)) <=> ClearedTail(marked)
      /\ Logged(Append(marked, w)) = Logged(marked)
  BY <1>4, <1>5, <1>7, DriverAppend
<1>. QED BY <1>6, <1>7, <1>8

(* a later one from what the log accounts for. *)
LEMMA SpendResume ==
  ASSUME JournalInv, JournalInv', SpendInv, TokensNotLowered,
         NEW x \in world.extensions, NEW rewired \in world.rewired, Resume(x, rewired)
  PROVE  SpendInv'
<1>1. /\ ConfigOK(config) /\ EntriesOK(log) /\ Metered(log) /\ OverlayOK(x.overlay)
      /\ x = [overlay |-> x.overlay, note |-> x.note]
      /\ DOMAIN file = {"entries", "torn", "fused"}
  BY ScenarioFacts DEF JournalInv, WorldOK, FileOK
<1> DEFINE marked == Extended(log, Extension(log, x))
           s == Replay(config, marked)
           final == ReconcileDegraded(marked, rewired, s.tag)
<1>2. /\ file' = [file EXCEPT !.entries = final, !.torn = @ /\ final = log]
      /\ proc' = Booted(final, s, ResumedSeq(marked, rewired), final # log)
  BY DEF Resume
<1>3. (ClearedTail(final) <=> ClearedTail(log)) /\ Logged(final) = Logged(log)
  BY <1>1, ResumedTail
<1> HIDE DEF marked, s, final
<1>4. log' = final /\ proc'.pending = NoEvent /\ proc'.meter = Logged(final)
  BY <1>1, <1>2 DEF log, Booted, Down, PriorSpend
<1>5. Outstanding' = 0 /\ proc'.pending.tag \notin {"VERIFIED", "SIGNOFF_DECIDED"}
  BY <1>4 DEF NoEvent, Outstanding, SpentBy, Summed, Charged
<1>6. ClearedTail(log') => Logged(log') < Effective'.tokens
  BY <1>3, <1>4, TailStaysCleared
<1>7. Logged(final) \in Nat
  BY <1>3, SpendTypes
<1>. QED BY <1>4, <1>5, <1>6, <1>7 DEF SpendInv

(* A spend is metered before it is logged, *)
LEMMA SpendPerform ==
  ASSUME JournalInv, JournalInv', SpendInv, TokensNotLowered,
         NEW r \in world.results, NEW llm \in world.charges, Perform(r, llm)
  PROVE  SpendInv'
<1>1. /\ ResultOK(r) /\ llm \in Nat /\ proc.meter \in Nat /\ proc.up /\ ProcFields
      /\ proc.pending = NoEvent
      /\ UNCHANGED << config, file >>
      /\ proc' = [proc EXCEPT !.pending = Event(r, llm), !.meter = MeterAfter(r, llm),
                              !.note  = @ /\ r.tag # "AGENT_RAN",
                              !.judge = IF r.tag \in {"PHASE_ADVANCED", "WAVE_RAN"}
                                        THEN TreeAfter(r) ELSE @]
  BY ScenarioFacts DEF JournalInv, WorldOK, MemoryOK, Perform
<1> DEFINE e == Event(r, llm)
           m == MeterAfter(r, llm)
<1>2. /\ e.tag = r.tag
      /\ r.tag = "AGENT_RAN" => /\ e.tokensUsed = r.tokensUsed
                                /\ r.tokensUsed \in Nat /\ r.abandoned \in Nat
      /\ r.tag \in Charged => e.llm = llm
      /\ r.tag \in {"VERIFIED", "SIGNOFF_DECIDED"} => e.budget = (m >= Effective.tokens)
  <2>1. /\ "tag" \in DOMAIN r
        /\ r.tag = "AGENT_RAN" => /\ "tokensUsed" \in DOMAIN r
                                  /\ r.tokensUsed \in Nat /\ r.abandoned \in Nat
    BY <1>1, ResultShape
  <2>. QED BY <1>1, <2>1, EventFields
<1>3. m = proc.meter + IF r.tag = "AGENT_RAN" THEN r.tokensUsed + r.abandoned ELSE llm
  BY DEF MeterAfter
<1> HIDE DEF e, m
<1>4. proc'.pending = e /\ proc'.meter = m
  BY <1>1 DEF ProcFields, e, m
<1>5. log' = log /\ Effective' = Effective
  BY <1>1 DEF log, Effective
<1>6. /\ Logged(log) \in Nat /\ Outstanding = 0 /\ proc.meter >= Logged(log)
  <2>1. Outstanding = 0 /\ Logged(log) \in Nat
    BY <1>1, NothingOutstanding, SpendTypes
  <2>. QED BY <1>1, <2>1 DEF SpendInv
<1>7. Outstanding' = CASE r.tag = "AGENT_RAN" -> r.tokensUsed
                       [] r.tag \in Summed    -> llm
                       [] OTHER               -> 0
  BY <1>2, <1>4 DEF Outstanding, SpentBy, Summed, Charged
<1>8. proc'.meter >= Logged(log') + Outstanding'
  <2>1. CASE r.tag = "AGENT_RAN"
    <3>1. Outstanding' = r.tokensUsed
      BY <1>7, <2>1 DEF Summed, Charged
    <3>. QED BY <1>1, <1>2, <1>3, <1>4, <1>5, <1>6, <2>1, <3>1
  <2>2. CASE r.tag # "AGENT_RAN"
    <3>1. Outstanding' \in {0, llm}
      BY <1>7, <2>2
    <3>. QED BY <1>1, <1>3, <1>4, <1>5, <1>6, <2>2, <3>1
  <2>. QED BY <2>1, <2>2
<1>9. proc'.pending.tag \in {"VERIFIED", "SIGNOFF_DECIDED"} =>
         proc'.pending.budget = (proc'.meter >= Effective'.tokens)
  BY <1>2, <1>4, <1>5
<1>10. ClearedTail(log') => Logged(log') < Effective'.tokens
  BY <1>5 DEF SpendInv
<1>. QED BY <1>8, <1>9, <1>10 DEF SpendInv

(* and logged with the event. *)
LEMMA SpendCommit ==
  ASSUME JournalInv, JournalInv', SpendInv, TokensNotLowered, Commit
  PROVE  SpendInv'
<1> DEFINE e == proc.pending
           next == Step(Effective, proc.st, e)
           z == Entry(proc.seq + 1, e, next.tag)
           n == Len(log)
<1>1. /\ FileOK /\ MemoryOK /\ ProcFields /\ PendingOK /\ proc.up
  BY DEF JournalInv, MemoryOK, Commit
<1>2. /\ file' = Appended(file, proc.checked, z)
      /\ proc' = [proc EXCEPT
                    !.st = next, !.pending = NoEvent, !.seq = @ + 1, !.checked = TRUE,
                    !.approver = IF e.tag = "PHASE_ADVANCED" THEN e.tree ELSE @,
                    !.due = CheckpointFollows(e, next)]
      /\ config' = config
  BY DEF Commit
<1>3. z.event = e
  BY DEF Entry
<1>4. ReadingOK(e) /\ EntriesOK(log)
  BY <1>1 DEF PendingOK, FileOK
<1> HIDE DEF e, next, z
<1>5. EventOK(z.event) /\ e.tag \notin DriverOnlyTags /\ e.tag # "RUN_EXTENDED"
  BY <1>3, <1>4 DEF EventOK, ReadingOK, ResultTags, DriverOnlyTags
<1>6. log' = Append(log, z) /\ proc'.pending = NoEvent /\ proc'.meter = proc.meter
  BY <1>1, <1>2, AppendedShape DEF log, ProcFields
<1>7. Effective' = Effective
  BY <1>2, <1>3, <1>4, <1>5, <1>6, AppendMarkers DEF Effective
<1>8. SpentBy(z) = Outstanding
  BY <1>3 DEF SpentBy, Outstanding, e
<1>9. Logged(log') = Logged(log) + Outstanding
  BY <1>4, <1>5, <1>6, <1>8, LoggedAppend
<1>10. /\ Logged(log) \in Nat /\ Outstanding \in Nat /\ proc.meter \in Nat
       /\ Effective.tokens \in Nat /\ proc.meter >= Logged(log) + Outstanding
  BY <1>1, SpendTypes DEF SpendInv
<1>11. Outstanding' = 0 /\ proc'.pending.tag \notin {"VERIFIED", "SIGNOFF_DECIDED"}
  BY <1>6 DEF NoEvent, Outstanding, SpentBy, Summed, Charged
<1>12. ASSUME ClearedTail(log') PROVE Logged(log') < Effective'.tokens
  <2>1. LastFoldedIndex(log') = n + 1 /\ log'[n + 1] = z
    BY <1>3, <1>4, <1>5, <1>6, AppendFolded, AppendEntry
  <2>2. e.tag \in {"VERIFIED", "SIGNOFF_DECIDED"} /\ ~e.budget
    BY <1>3, <1>12, <2>1 DEF ClearedTail
  <2>3. e.budget = (proc.meter >= Effective.tokens)
    BY <1>1, <2>2 DEF SpendInv, e
  <2>4. ~(proc.meter >= Effective.tokens)
    BY <2>2, <2>3
  <2>. QED BY <1>7, <1>9, <1>10, <2>4
<1>13. proc'.meter >= Logged(log') + Outstanding'
  BY <1>6, <1>9, <1>10, <1>11
<1>. QED BY <1>11, <1>12, <1>13 DEF SpendInv

(* A checkpoint spends nothing. *)
LEMMA SpendCheckpoint ==
  ASSUME JournalInv, JournalInv', SpendInv, TokensNotLowered, Checkpoint
  PROVE  SpendInv'
<1> DEFINE e == [tag |-> "CHECKPOINTED", tree |-> tree]
           z == Entry(proc.seq + 1, e, proc.st.tag)
<1>1. /\ FileOK /\ MemoryOK /\ ProcFields /\ proc.up /\ proc.due
  BY DEF JournalInv, Checkpoint
<1>2. /\ file' = Appended(file, proc.checked, z)
      /\ proc' = [proc EXCEPT !.due = FALSE, !.seq = @ + 1, !.judge = tree]
  BY DEF Checkpoint
<1>3. EventOK(z.event) /\ z.event.tag \in DriverOnlyTags
  BY DEF Entry, EventOK, DriverOnlyTags
<1> HIDE DEF e, z
<1>4. /\ log' = Append(log, z) /\ proc'.pending = NoEvent /\ proc'.meter = proc.meter
      /\ EntriesOK(log) /\ Metered(log)
  BY <1>1, <1>2, AppendedShape DEF log, ProcFields, MemoryOK, FileOK
<1>5. (ClearedTail(log') <=> ClearedTail(log)) /\ Logged(log') = Logged(log)
  BY <1>3, <1>4, DriverAppend
<1>6. ClearedTail(log') => Logged(log') < Effective'.tokens
  BY <1>5, TailStaysCleared
<1>7. /\ Outstanding' = 0 /\ proc'.pending.tag \notin {"VERIFIED", "SIGNOFF_DECIDED"}
      /\ Outstanding = 0
  BY <1>1, <1>4 DEF NoEvent, Outstanding, SpentBy, Summed, Charged, MemoryOK
<1>8. proc.meter >= Logged(log) + Outstanding
  BY <1>1 DEF SpendInv
<1>9. proc'.meter >= Logged(log') + Outstanding'
  BY <1>4, <1>5, <1>7, <1>8
<1>. QED BY <1>6, <1>7, <1>9 DEF SpendInv

(* The process is gone, or only what it owes the log changed. *)
LEMMA SpendSame ==
  ASSUME JournalInv, SpendInv, log' = log, config' = config,
         \/ ~proc'.up
         \/ proc'.up = proc.up /\ proc'.pending = proc.pending /\ proc'.meter = proc.meter
  PROVE  SpendInv'
<1>1. Effective' = Effective
  BY DEF Effective
<1>2. proc'.pending = proc.pending => Outstanding' = Outstanding
  BY DEF Outstanding
<1>3. ClearedTail(log') => Logged(log') < Effective'.tokens
  BY <1>1 DEF SpendInv
<1>4. CASE ~proc'.up
  BY <1>3, <1>4 DEF SpendInv
<1>5. CASE proc'.up = proc.up /\ proc'.pending = proc.pending /\ proc'.meter = proc.meter
  BY <1>1, <1>2, <1>3, <1>5 DEF SpendInv
<1>. QED BY <1>4, <1>5

(* So the invariant of the spend is inductive, while the cap is not lowered. *)
LEMMA SpendNext ==
  ASSUME JournalInv, JournalInv', SpendInv, [Next]_vars, [TokensNotLowered]_vars,
         world.faults \subseteq {"unwritten"}
  PROVE  SpendInv'
<1>1. CASE UNCHANGED vars
  BY <1>1, SpendSame DEF vars, log
<1>2. CASE Next /\ TokensNotLowered
  <2>1. CASE Start
    BY <1>2, <2>1, SpendStart
  <2>2. CASE \E x \in world.extensions, rewired \in world.rewired : Resume(x, rewired)
    BY <1>2, <2>2, SpendResume
  <2>3. CASE \E r \in world.results, llm \in world.charges : Perform(r, llm)
    BY <1>2, <2>3, SpendPerform
  <2>4. CASE Commit
    BY <1>2, <2>4, SpendCommit
  <2>5. CASE Stop \/ CommitTorn
    <3>1. DOMAIN file = {"entries", "torn", "fused"}
      BY DEF JournalInv, FileOK
    <3>2. ~proc'.up /\ log' = log /\ config' = config
      BY <2>5, <3>1 DEF Stop, CommitTorn, Down, log
    <3>. QED BY <3>2, SpendSame
  <2>6. CASE Checkpoint
    BY <1>2, <2>6, SpendCheckpoint
  <2>7. CASE \E fault \in world.faults : CheckpointFails(fault)
    <3>1. CheckpointFails("unwritten")
      BY <2>7
    <3>2. /\ proc' = [proc EXCEPT !.due = FALSE] /\ file' = file /\ config' = config
          /\ ProcFields
      BY <3>1 DEF CheckpointFails, JournalInv
    <3>3. /\ log' = log /\ proc'.up = proc.up /\ proc'.pending = proc.pending
          /\ proc'.meter = proc.meter
      BY <3>2 DEF log, ProcFields
    <3>. QED BY <3>2, <3>3, SpendSame
  <2>. QED BY <1>2, <2>1, <2>2, <2>3, <2>4, <2>5, <2>6, <2>7 DEF Next
<1>. QED BY <1>1, <1>2

(***************************************************************************)
(* The token cap is the run's: no turn but a contract's first starts once   *)
(* the log accounts for the cap, however often the meter was re-armed by a  *)
(* resume (driver/budget.ts, cli/usage.ts), unless an extension lowers the  *)
(* cap under what a decided turn was let run by.                            *)
(***************************************************************************)
THEOREM SpendHolds ==
  Spec /\ []Tame /\ [][TokensNotLowered]_vars => []SpendWithinCap
<1>1. Init => JournalInv /\ SpendInv
  BY InitInv, SpendInit
<1>2. JournalInv /\ SpendInv /\ Tame /\ [Next]_vars /\ [TokensNotLowered]_vars
        => JournalInv' /\ SpendInv'
  <2>1. SUFFICES ASSUME JournalInv, SpendInv, Tame, [Next]_vars, [TokensNotLowered]_vars
                 PROVE  JournalInv' /\ SpendInv'
    OBVIOUS
  <2>2. JournalInv'
    BY <2>1, NextInv DEF Tame
  <2>3. SpendInv'
    BY <2>1, <2>2, SpendNext DEF Tame
  <2>. QED BY <2>2, <2>3
<1>3. JournalInv /\ SpendInv => SpendWithinCap
  <2>1. SUFFICES ASSUME JournalInv, SpendInv, Idle, proc.st.tag = "RUNNING_AGENT",
                        proc.st.ctx.runStatusHistory # << >>
                 PROVE  Logged(log) < Effective.tokens
    BY DEF SpendWithinCap
  <2>2. /\ ConfigOK(config) /\ EntriesOK(log) /\ proc.st = Replay(config, log)
    BY <2>1, ScenarioFacts DEF JournalInv, MemoryOK, FileOK, Idle
  <2>3. ClearedTail(log)
    BY <2>1, <2>2, TurnAfterClearedTail
  <2>. QED BY <2>1, <2>3 DEF SpendInv
<1>. QED BY <1>1, <1>2, <1>3, PTL DEF Spec

-----------------------------------------------------------------------------
(* The refinement: the reducer of the abstract run is the reducer. *)

(* The least element of a set is that of the abstract run's copy, *)
LEMMA SameMin == \A S : Uninterrupted!Min(S) = Min(S)
BY DEF Min, Uninterrupted!Min

(* so is its size, *)
LEMMA SameCardinality == \A S : Uninterrupted!Cardinality(S) = Cardinality(S)
BY DEF Cardinality, Uninterrupted!Cardinality

(* so are the detectors, *)
LEMMA SameTrips ==
  ASSUME NEW c, NEW ctx, NEW kind
  PROVE  Uninterrupted!Trips(c, ctx, kind) <=> Trips(c, ctx, kind)
<1>1. Uninterrupted!LastRunStatus(ctx) = LastRunStatus(ctx)
  BY DEF LastRunStatus, Uninterrupted!LastRunStatus
<1>2. Uninterrupted!TimeoutNoDiffStreak(ctx) = TimeoutNoDiffStreak(ctx)
  BY <1>1, SameCardinality DEF TimeoutNoDiffStreak, Uninterrupted!TimeoutNoDiffStreak
<1>3. Uninterrupted!NoDiffTrips(c, ctx) <=> NoDiffTrips(c, ctx)
  BY <1>1, <1>2 DEF NoDiffTrips, Uninterrupted!NoDiffTrips, NoDiffExcusedByRun,
         Uninterrupted!NoDiffExcusedByRun
<1>4. \A h, n : Uninterrupted!IsCrashStreak(h, n) <=> IsCrashStreak(h, n)
  BY DEF IsCrashStreak, Uninterrupted!IsCrashStreak, TailPositions, Uninterrupted!TailPositions
<1>5. \A h, n : Uninterrupted!IsUnevaluableStreak(h, n) <=> IsUnevaluableStreak(h, n)
  BY DEF IsUnevaluableStreak, Uninterrupted!IsUnevaluableStreak, TailPositions, Uninterrupted!TailPositions
<1>6. \A h, n : Uninterrupted!IsRepeating(h, n) <=> IsRepeating(h, n)
  BY DEF IsRepeating, Uninterrupted!IsRepeating, TailPositions, Uninterrupted!TailPositions
<1>7. \A h : Uninterrupted!Oscillates(h) <=> Oscillates(h)
  <2>1. \A h, p : Uninterrupted!IsRepeatingBlock(h, p) <=> IsRepeatingBlock(h, p)
    BY DEF IsRepeatingBlock, Uninterrupted!IsRepeatingBlock
  <2>. QED BY <2>1 DEF Oscillates, Uninterrupted!Oscillates, MaxOscillationPeriod,
         Uninterrupted!MaxOscillationPeriod
<1>. QED BY <1>2, <1>3, <1>4, <1>5, <1>6, <1>7
     DEF Trips, Uninterrupted!Trips, CrashThreshold, Uninterrupted!CrashThreshold,
         RepeatThreshold, Uninterrupted!RepeatThreshold

(* what they detect together, *)
LEMMA SameStuck == \A c, ctx : Uninterrupted!DetectStuck(c, ctx) = DetectStuck(c, ctx)
<1> TAKE c, ctx
<1> DEFINE S == { i \in 1 .. Len(StuckOrder) : Trips(c, ctx, StuckOrder[i]) }
           U == { i \in 1 .. Len(StuckOrder) : Uninterrupted!Trips(c, ctx, StuckOrder[i]) }
<1>1. U = S
  BY SameTrips
<1>2. Uninterrupted!DetectStuck(c, ctx) = IF U = {} THEN "none" ELSE StuckOrder[Uninterrupted!Min(U)]
  BY DEF Uninterrupted!DetectStuck, StuckOrder, Uninterrupted!StuckOrder
<1>3. DetectStuck(c, ctx) = IF S = {} THEN "none" ELSE StuckOrder[Min(S)]
  BY DEF DetectStuck
<1> HIDE DEF S, U
<1>. QED BY <1>1, <1>2, <1>3, SameMin

(* and what is decided of it. *)
LEMMA SameDecide ==
  \A c, contract, ctx, pass, approval :
    Uninterrupted!Decide(c, contract, ctx, pass, approval) = Decide(c, contract, ctx, pass, approval)
<1>1. \A c, ctx, k : Uninterrupted!Remediable(c, ctx, k) <=> Remediable(c, ctx, k)
  BY DEF Remediable, Uninterrupted!Remediable, MaxStuckRemediations, Uninterrupted!MaxStuckRemediations
<1>2. \A l, k : Uninterrupted!Spent(l, k) = Spent(l, k)
  BY DEF Spent, Uninterrupted!Spent
<1>3. \A d, ctx, k : Uninterrupted!SuspectsContractFault(d, ctx, k) <=> SuspectsContractFault(d, ctx, k)
  <2>1. \A ctx : Uninterrupted!TreePopulated(ctx) <=> TreePopulated(ctx)
    BY DEF TreePopulated, Uninterrupted!TreePopulated
  <2>2. \A d, ctx : Uninterrupted!MatchedGeneratedFiles(d, ctx) = MatchedGeneratedFiles(d, ctx)
    BY DEF MatchedGeneratedFiles, Uninterrupted!MatchedGeneratedFiles
  <2>. QED BY <2>1, <2>2 DEF SuspectsContractFault, Uninterrupted!SuspectsContractFault
<1>4. \A ctx, p, a : Uninterrupted!FreshVeto(ctx, p, a) <=> FreshVeto(ctx, p, a)
  BY DEF FreshVeto, Uninterrupted!FreshVeto
<1>5. \A c, ctx : Uninterrupted!IterationCap(c, ctx) = IterationCap(c, ctx)
  BY DEF IterationCap, Uninterrupted!IterationCap
<1>6. \A k, s, l, r : Uninterrupted!Decision(k, s, l, r) = Decision(k, s, l, r)
  BY DEF Decision, Uninterrupted!Decision
<1> TAKE c, contract, ctx, pass, approval
<1>. QED BY <1>1, <1>2, <1>3, <1>4, <1>5, <1>6, SameStuck DEF Decide, Uninterrupted!Decide

(* A plan's graph is the same, *)
LEMMA SamePlan ==
  /\ \A plan : Uninterrupted!PlanSize(plan) = PlanSize(plan)
  /\ \A plan, i : Uninterrupted!DependenciesOf(plan, i) = DependenciesOf(plan, i)
  /\ \A plan, i, done : Uninterrupted!WaveIndicesAt(plan, i, done) = WaveIndicesAt(plan, i, done)
<1>1. \A plan : Uninterrupted!PlanSize(plan) = PlanSize(plan)
  BY SameCardinality DEF PlanSize, Uninterrupted!PlanSize
<1>2. \A plan : Uninterrupted!PlanIds(plan) = PlanIds(plan)
  BY DEF PlanIds, Uninterrupted!PlanIds
<1>3. \A plan, id : Uninterrupted!IndexOfId(plan, id) = IndexOfId(plan, id)
  BY SameMin DEF IndexOfId, Uninterrupted!IndexOfId
<1>4. \A plan, i : Uninterrupted!PositionalPrerequisites(plan, i) = PositionalPrerequisites(plan, i)
  <2>1. \A plan, i : Uninterrupted!BandStart(plan, i) = BandStart(plan, i)
    BY SameMin DEF BandStart, Uninterrupted!BandStart
  <2>. QED BY <2>1 DEF PositionalPrerequisites, Uninterrupted!PositionalPrerequisites
<1>5. \A plan, i : Uninterrupted!DependenciesOf(plan, i) = DependenciesOf(plan, i)
  BY <1>2, <1>3, <1>4 DEF DependenciesOf, Uninterrupted!DependenciesOf
<1>6. \A plan, done : Uninterrupted!ReadyFrontier(plan, done) = ReadyFrontier(plan, done)
  BY <1>5 DEF ReadyFrontier, Uninterrupted!ReadyFrontier
<1>7. \A plan, i : Uninterrupted!MidBand(plan, i) <=> MidBand(plan, i)
  BY DEF MidBand, Uninterrupted!MidBand
<1>8. \A plan, i, done : Uninterrupted!WaveIndicesAt(plan, i, done) = WaveIndicesAt(plan, i, done)
  BY <1>6, <1>7 DEF WaveIndicesAt, Uninterrupted!WaveIndicesAt
<1>. QED BY <1>1, <1>5, <1>8

(* so is which plans are valid, *)
LEMMA SameValidPlan == \A plan : Uninterrupted!ValidPlan(plan) <=> ValidPlan(plan)
<1> TAKE plan
<1>1. Uninterrupted!PlanDependencies(plan) = PlanDependencies(plan)
  BY SamePlan DEF PlanDependencies, Uninterrupted!PlanDependencies
<1>2. \A d : Uninterrupted!HasCycle(d) <=> HasCycle(d)
  BY DEF HasCycle, Uninterrupted!HasCycle
<1>3. Uninterrupted!PlanIds(plan) = PlanIds(plan)
  BY DEF PlanIds, Uninterrupted!PlanIds
<1>. QED BY <1>1, <1>2, <1>3 DEF ValidPlan, Uninterrupted!ValidPlan, PlanViolations,
         Uninterrupted!PlanViolations

(* the states a step leads to, *)
LEMMA SameStates ==
  /\ \A tag, cmd : Uninterrupted!State(tag, cmd) = State(tag, cmd)
  /\ \A tag, reason, contract, n :
       Uninterrupted!Stopped(tag, reason, contract, n) = Stopped(tag, reason, contract, n)
  /\ \A cmd, phase, n, k : Uninterrupted!Compiling(cmd, phase, n, k) = Compiling(cmd, phase, n, k)
  /\ \A n, k : Uninterrupted!Planning(n, k) = Planning(n, k)
  /\ \A c, contract, phase, ctx :
       Uninterrupted!StartIteration(c, contract, phase, ctx) = StartIteration(c, contract, phase, ctx)
  /\ \A c : Uninterrupted!InitialState(c) = InitialState(c)
  /\ Uninterrupted!InitialCtx = InitialCtx
<1>1. Uninterrupted!InitialCtx = InitialCtx
  BY DEF InitialCtx, Uninterrupted!InitialCtx, NoRemediations, Uninterrupted!NoRemediations
<1>2. Uninterrupted!NoPhase = NoPhase
  BY DEF NoPhase, Uninterrupted!NoPhase, EmptyPlan, Uninterrupted!EmptyPlan
<1>3. \A tag, cmd : Uninterrupted!State(tag, cmd) = State(tag, cmd)
  BY <1>1, <1>2 DEF State, Uninterrupted!State
<1>4. \A tag, reason, contract, n :
        Uninterrupted!Stopped(tag, reason, contract, n) = Stopped(tag, reason, contract, n)
  BY <1>3 DEF Stopped, Uninterrupted!Stopped
<1>5. \A cmd, phase, n, k : Uninterrupted!Compiling(cmd, phase, n, k) = Compiling(cmd, phase, n, k)
  BY <1>3 DEF Compiling, Uninterrupted!Compiling
<1>6. \A n, k : Uninterrupted!Planning(n, k) = Planning(n, k)
  BY <1>3 DEF Planning, Uninterrupted!Planning
<1>7. \A c, contract, phase, ctx :
        Uninterrupted!StartIteration(c, contract, phase, ctx) = StartIteration(c, contract, phase, ctx)
  BY <1>3 DEF StartIteration, Uninterrupted!StartIteration
<1>8. \A c : Uninterrupted!InitialState(c) = InitialState(c)
  BY <1>3 DEF InitialState, Uninterrupted!InitialState
<1>. QED BY <1>1, <1>3, <1>4, <1>5, <1>6, <1>7, <1>8

(* the phase that comes next, *)
LEMMA SamePhases ==
  /\ \A phase, from : Uninterrupted!NextPhaseIndex(phase, from) = NextPhaseIndex(phase, from)
  /\ \A c, phase : Uninterrupted!StartPhaseCompile(c, phase) = StartPhaseCompile(c, phase)
<1>1. \A phase, from : Uninterrupted!NextPhaseIndex(phase, from) = NextPhaseIndex(phase, from)
  BY SameMin, SamePlan DEF NextPhaseIndex, Uninterrupted!NextPhaseIndex
<1>2. \A c, phase : Uninterrupted!PendingWaveAt(c, phase) = PendingWaveAt(c, phase)
  BY SamePlan DEF PendingWaveAt, Uninterrupted!PendingWaveAt
<1>3. \A c, phase : Uninterrupted!StartPhaseCompile(c, phase) = StartPhaseCompile(c, phase)
  BY <1>2, SameCardinality, SameStates DEF StartPhaseCompile, Uninterrupted!StartPhaseCompile
<1>. QED BY <1>1, <1>3

(* and what a decision leads to. *)
LEMMA SameDecision ==
  \A c, s, ctx, d : Uninterrupted!ApplyDecision(c, s, ctx, d) = ApplyDecision(c, s, ctx, d)
<1>1. \A s, ctx : Uninterrupted!PhaseDone(s, ctx) = PhaseDone(s, ctx)
  BY SameStates, SamePlan DEF PhaseDone, Uninterrupted!PhaseDone
<1>. QED BY <1>1, SameStates DEF ApplyDecision, Uninterrupted!ApplyDecision

(* The reducer of the abstract run is the reducer. *)
LEMMA SameStep == \A c, s, e : Uninterrupted!Step(c, s, e) = Step(c, s, e)
<1> TAKE c, s, e
<1>1. Uninterrupted!StepPlanning(c, s, e) = StepPlanning(c, s, e)
  <2>1. Uninterrupted!NoPhase = NoPhase
    BY DEF NoPhase, Uninterrupted!NoPhase, EmptyPlan, Uninterrupted!EmptyPlan
  <2>. QED BY <2>1, SameStates DEF StepPlanning, Uninterrupted!StepPlanning
<1>2. Uninterrupted!StepAwaitPlanSeal(c, s, e) = StepAwaitPlanSeal(c, s, e)
  BY SameStates, SamePhases DEF StepAwaitPlanSeal, Uninterrupted!StepAwaitPlanSeal
<1>3. Uninterrupted!StepAdvancingPhase(c, s, e) = StepAdvancingPhase(c, s, e)
  BY SamePhases DEF StepAdvancingPhase, Uninterrupted!StepAdvancingPhase
<1>4. Uninterrupted!StepRunningWave(c, s, e) = StepRunningWave(c, s, e)
  <2>1. \A done : Uninterrupted!AfterWave(s, done) = AfterWave(s, done)
    BY DEF AfterWave, Uninterrupted!AfterWave
  <2>. QED BY <2>1, SamePhases, SameMin DEF StepRunningWave, Uninterrupted!StepRunningWave
<1>5. Uninterrupted!StepCompiling(c, s, e) = StepCompiling(c, s, e)
  BY SameStates DEF StepCompiling, Uninterrupted!StepCompiling
<1>6. Uninterrupted!StepAwaitSeal(c, s, e) = StepAwaitSeal(c, s, e)
  BY SameStates DEF StepAwaitSeal, Uninterrupted!StepAwaitSeal, NeedsPreparation,
       Uninterrupted!NeedsPreparation
<1>7. Uninterrupted!StepPreparing(c, s, e) = StepPreparing(c, s, e)
  BY SameStates DEF StepPreparing, Uninterrupted!StepPreparing
<1>8. Uninterrupted!StepRunningAgent(c, s, e) = StepRunningAgent(c, s, e)
  BY DEF StepRunningAgent, Uninterrupted!StepRunningAgent, AfterTurn, Uninterrupted!AfterTurn
<1>9. Uninterrupted!StepVerifying(c, s, e) = StepVerifying(c, s, e)
  <2>1. \A ctx : Uninterrupted!AfterGreen(ctx, e) = AfterGreen(ctx, e)
    BY DEF AfterGreen, Uninterrupted!AfterGreen
  <2>2. \A ctx : Uninterrupted!AfterRed(ctx, e) = AfterRed(ctx, e)
    BY DEF AfterRed, Uninterrupted!AfterRed, NormalizeDetail, Uninterrupted!NormalizeDetail
  <2>. QED BY <2>1, <2>2, SameDecide, SameDecision DEF StepVerifying, Uninterrupted!StepVerifying
<1>10. Uninterrupted!StepAwaitSignoff(c, s, e) = StepAwaitSignoff(c, s, e)
  BY SameDecide, SameDecision DEF StepAwaitSignoff, Uninterrupted!StepAwaitSignoff
<1>11. Uninterrupted!StepAdjudicating(c, s, e) = StepAdjudicating(c, s, e)
  BY SameStates DEF StepAdjudicating, Uninterrupted!StepAdjudicating
<1>. QED BY <1>1, <1>2, <1>3, <1>4, <1>5, <1>6, <1>7, <1>8, <1>9, <1>10, <1>11
     DEF Step, Uninterrupted!Step

-----------------------------------------------------------------------------
(* The refinement: every step is a step of the reducer or none of it. *)

(* What the reducer reads of an event. *)
SameReading(e, f) ==
  /\ f.tag = e.tag
  /\ e.tag = "PLAN_COMPILED" => f.plan = e.plan
  /\ e.tag \in {"PLAN_SEAL_DECIDED", "SEAL_DECIDED"} => f.decision = e.decision
  /\ e.tag = "WAVE_RAN" => f.merged = e.merged
  /\ e.tag = "CONTRACT_COMPILED" => f.contract = e.contract
  /\ e.tag = "WORKSPACE_PREPARED" => f.prepared = e.prepared
  /\ e.tag = "AGENT_RAN" =>
       f.status = e.status /\ f.prev = e.prev /\ f.hash = e.hash /\ f.budget = e.budget
  /\ e.tag = "VERIFIED" =>
       /\ f.pass = e.pass /\ f.budget = e.budget
       /\ ~e.pass => f.detail = e.detail /\ f.evaluable = e.evaluable
  /\ e.tag = "SIGNOFF_DECIDED" => f.approval = e.approval /\ f.budget = e.budget
  /\ e.tag = "CONTRACT_ADJUDICATED" => f.defective = e.defective

(* Events of the same reading take the reducer, and the history, to the same. *)
LEMMA StepReads ==
  ASSUME NEW c, NEW s, NEW e, NEW f, e.tag \in EventsOf(s.tag), SameReading(e, f),
         s.planRound \in Nat, s.compileRound \in Nat,
         c.maxPlanRetries \in Nat, c.maxCompileRetries \in Nat
  PROVE  /\ Step(c, s, f) = Step(c, s, e)
         /\ \A h, t : Uninterrupted!NextHist(h, s, f, t) = Uninterrupted!NextHist(h, s, e, t)
<1>1. CASE s.tag = "PLANNING"
  <2>1. e.tag \in {"PLAN_COMPILED", "PLAN_FAILED"}
    BY <1>1 DEF EventsOf
  <2>2. StepPlanning(c, s, f) = StepPlanning(c, s, e)
    <3>1. CASE e.tag = "PLAN_COMPILED"
      <4>1. f.tag = "PLAN_COMPILED" /\ f.plan = e.plan
        BY <3>1 DEF SameReading
      <4>2. StepPlanning(c, s, e) = [State("AWAIT_PLAN_SEAL", "REQUEST_PLAN_SEAL") EXCEPT
               !.reviseRound = s.reviseRound, !.phase = [NoPhase EXCEPT !.plan = e.plan]]
        BY <3>1 DEF StepPlanning
      <4>3. StepPlanning(c, s, f) = [State("AWAIT_PLAN_SEAL", "REQUEST_PLAN_SEAL") EXCEPT
               !.reviseRound = s.reviseRound, !.phase = [NoPhase EXCEPT !.plan = f.plan]]
        BY <4>1 DEF StepPlanning
      <4>. QED BY <4>1, <4>2, <4>3
    <3>2. CASE e.tag = "PLAN_FAILED"
      <4>1. f.tag = "PLAN_FAILED"
        BY <3>2 DEF SameReading
      <4>. QED BY <3>2, <4>1 DEF StepPlanning
    <3>. QED BY <2>1, <3>1, <3>2
  <2>. QED BY <1>1, <2>1, <2>2 DEF Step, SameReading, Uninterrupted!NextHist, Uninterrupted!NextTodo,
         Uninterrupted!NextIdleVetoes, Uninterrupted!NextIdleTimeouts
<1>2. CASE s.tag = "AWAIT_PLAN_SEAL"
  <2>1. e.tag = "PLAN_SEAL_DECIDED"
    BY <1>2 DEF EventsOf
  <2>2. StepAwaitPlanSeal(c, s, f) = StepAwaitPlanSeal(c, s, e)
    BY <2>1 DEF SameReading, StepAwaitPlanSeal
  <2>. QED BY <1>2, <2>1, <2>2 DEF Step, SameReading, Uninterrupted!NextHist, Uninterrupted!NextTodo,
         Uninterrupted!NextIdleVetoes, Uninterrupted!NextIdleTimeouts
<1>3. CASE s.tag = "ADVANCING_PHASE"
  <2>1. e.tag = "PHASE_ADVANCED"
    BY <1>3 DEF EventsOf
  <2>2. StepAdvancingPhase(c, s, f) = StepAdvancingPhase(c, s, e)
    BY <2>1 DEF SameReading, StepAdvancingPhase
  <2>. QED BY <1>3, <2>1, <2>2 DEF Step, SameReading, Uninterrupted!NextHist, Uninterrupted!NextTodo,
         Uninterrupted!NextIdleVetoes, Uninterrupted!NextIdleTimeouts
<1>4. CASE s.tag = "RUNNING_WAVE"
  <2>1. e.tag = "WAVE_RAN"
    BY <1>4 DEF EventsOf
  <2>2. StepRunningWave(c, s, f) = StepRunningWave(c, s, e)
    BY <2>1 DEF SameReading, StepRunningWave
  <2>. QED BY <1>4, <2>1, <2>2 DEF Step, SameReading, Uninterrupted!NextHist, Uninterrupted!NextTodo,
         Uninterrupted!NextIdleVetoes, Uninterrupted!NextIdleTimeouts
<1>5. CASE s.tag = "COMPILING"
  <2>1. e.tag \in {"CONTRACT_COMPILED", "COMPILE_FAILED"}
    BY <1>5 DEF EventsOf
  <2>2. StepCompiling(c, s, f) = StepCompiling(c, s, e)
    <3>1. CASE e.tag = "CONTRACT_COMPILED"
      <4>1. f.tag = "CONTRACT_COMPILED" /\ f.contract = e.contract
        BY <3>1 DEF SameReading
      <4>2. StepCompiling(c, s, e) = [State("AWAIT_SEAL", "REQUEST_SEAL") EXCEPT
               !.contract = e.contract, !.reviseRound = s.reviseRound, !.phase = s.phase]
        BY <3>1 DEF StepCompiling
      <4>3. StepCompiling(c, s, f) = [State("AWAIT_SEAL", "REQUEST_SEAL") EXCEPT
               !.contract = f.contract, !.reviseRound = s.reviseRound, !.phase = s.phase]
        BY <4>1 DEF StepCompiling
      <4>. QED BY <4>1, <4>2, <4>3
    <3>2. CASE e.tag = "COMPILE_FAILED"
      <4>1. f.tag = "COMPILE_FAILED"
        BY <3>2 DEF SameReading
      <4>. QED BY <3>2, <4>1 DEF StepCompiling
    <3>. QED BY <2>1, <3>1, <3>2
  <2>. QED BY <1>5, <2>1, <2>2 DEF Step, SameReading, Uninterrupted!NextHist, Uninterrupted!NextTodo,
         Uninterrupted!NextIdleVetoes, Uninterrupted!NextIdleTimeouts
<1>6. CASE s.tag = "AWAIT_SEAL"
  <2>1. e.tag = "SEAL_DECIDED"
    BY <1>6 DEF EventsOf
  <2>2. StepAwaitSeal(c, s, f) = StepAwaitSeal(c, s, e)
    BY <2>1 DEF SameReading, StepAwaitSeal
  <2>. QED BY <1>6, <2>1, <2>2 DEF Step, SameReading, Uninterrupted!NextHist, Uninterrupted!NextTodo,
         Uninterrupted!NextIdleVetoes, Uninterrupted!NextIdleTimeouts
<1>7. CASE s.tag = "PREPARING"
  <2>1. e.tag = "WORKSPACE_PREPARED"
    BY <1>7 DEF EventsOf
  <2>2. StepPreparing(c, s, f) = StepPreparing(c, s, e)
    BY <2>1 DEF SameReading, StepPreparing
  <2>. QED BY <1>7, <2>1, <2>2 DEF Step, SameReading, Uninterrupted!NextHist, Uninterrupted!NextTodo,
         Uninterrupted!NextIdleVetoes, Uninterrupted!NextIdleTimeouts
<1>8. CASE s.tag = "RUNNING_AGENT"
  <2>1. e.tag = "AGENT_RAN"
    BY <1>8 DEF EventsOf
  <2>2. StepRunningAgent(c, s, f) = StepRunningAgent(c, s, e)
    BY <2>1 DEF SameReading, StepRunningAgent, AfterTurn
  <2>. QED BY <1>8, <2>1, <2>2 DEF Step, SameReading, Uninterrupted!NextHist, Uninterrupted!NextTodo,
         Uninterrupted!NextIdleVetoes, Uninterrupted!NextIdleTimeouts
<1>9. CASE s.tag = "VERIFYING"
  <2>1. e.tag = "VERIFIED"
    BY <1>9 DEF EventsOf
  <2>2. e.pass => AfterGreen(s.ctx, f) = AfterGreen(s.ctx, e)
    BY <2>1 DEF SameReading, AfterGreen
  <2>3. ~e.pass => AfterRed(s.ctx, f) = AfterRed(s.ctx, e)
    BY <2>1 DEF SameReading, AfterRed
  <2>5. StepVerifying(c, s, f) = StepVerifying(c, s, e)
    BY <2>1, <2>2, <2>3 DEF SameReading, StepVerifying
  <2>. QED BY <1>9, <2>1, <2>5 DEF Step, SameReading, Uninterrupted!NextHist, Uninterrupted!NextTodo,
         Uninterrupted!NextIdleVetoes, Uninterrupted!NextIdleTimeouts
<1>10. CASE s.tag = "AWAIT_SIGNOFF"
  <2>1. e.tag = "SIGNOFF_DECIDED"
    BY <1>10 DEF EventsOf
  <2>2. StepAwaitSignoff(c, s, f) = StepAwaitSignoff(c, s, e)
    BY <2>1 DEF SameReading, StepAwaitSignoff
  <2>. QED BY <1>10, <2>1, <2>2 DEF Step, SameReading, Uninterrupted!NextHist, Uninterrupted!NextTodo,
         Uninterrupted!NextIdleVetoes, Uninterrupted!NextIdleTimeouts
<1>11. CASE s.tag = "ADJUDICATING"
  <2>1. e.tag = "CONTRACT_ADJUDICATED"
    BY <1>11 DEF EventsOf
  <2>2. StepAdjudicating(c, s, f) = StepAdjudicating(c, s, e)
    BY <2>1 DEF SameReading, StepAdjudicating
  <2>. QED BY <1>11, <2>1, <2>2 DEF Step, SameReading, Uninterrupted!NextHist, Uninterrupted!NextTodo,
         Uninterrupted!NextIdleVetoes, Uninterrupted!NextIdleTimeouts
<1>12. s.tag \in {"PLANNING", "AWAIT_PLAN_SEAL", "ADVANCING_PHASE", "RUNNING_WAVE", "COMPILING",
                  "AWAIT_SEAL", "PREPARING", "RUNNING_AGENT", "VERIFYING", "AWAIT_SIGNOFF",
                  "ADJUDICATING"}
  BY DEF EventsOf
<1>. QED BY <1>1, <1>2, <1>3, <1>4, <1>5, <1>6, <1>7, <1>8, <1>9, <1>10, <1>11, <1>12

(* What a pending event holds of the world that produced it. *)
Produced(e, w) ==
  /\ e.tag = "PLAN_COMPILED" => e.plan \in w.plans /\ ValidPlan(e.plan)
  /\ e.tag = "CONTRACT_COMPILED" => e.contract \in w.contracts
  /\ e.tag = "WORKSPACE_PREPARED" =>
       e.prepared \in {"proceed", "tools-missing", "setup-failed", "contract-unsound"}
  /\ e.tag = "AGENT_RAN" => e.status \in w.statuses /\ e.hash \in w.hashes /\ e.prev \in w.hashes
  /\ e.tag = "VERIFIED" /\ ~e.pass => e.detail \in w.details /\ e.evaluable \in BOOLEAN
  /\ e.tag = "CONTRACT_ADJUDICATED" => e.defective \in BOOLEAN

(* The event of a performed command is a result of the world. *)
LEMMA EventProduced ==
  ASSUME NEW r \in world.results, ResultOK(r), NEW llm, NEW w, w = ReducerWorld(world),
         tree \in w.hashes
  PROVE  /\ Produced(Event(r, llm), w)
         /\ r.tag = "WAVE_RAN" => Event(r, llm).merged = r.merged
         /\ TreeAfter(r) \in w.hashes
<1> DEFINE e == Event(r, llm)
<1>1. /\ \A k \in DOMAIN r : e[k] = r[k]
      /\ r.tag = "AGENT_RAN" => e.prev = tree
  BY EventFields
<1> HIDE DEF e
<1>2. e.tag = r.tag /\ (r.tag = "WAVE_RAN" => e.merged = r.merged)
  BY <1>1, ResultShape
<1>3. TreeAfter(r) \in w.hashes
  BY DEF TreeAfter, ReducerWorld
<1>4. r.tag = "PLAN_COMPILED" => e.plan \in w.plans /\ ValidPlan(e.plan)
  <2>1. r.tag = "PLAN_COMPILED" => r.plan \in w.plans /\ ValidPlan(r.plan) /\ e.plan = r.plan
    BY <1>1, ResultShape DEF ReducerWorld
  <2>. QED BY <2>1
<1>5. r.tag = "CONTRACT_COMPILED" => e.contract \in w.contracts
  <2>1. r.tag = "CONTRACT_COMPILED" => r.contract \in w.contracts /\ e.contract = r.contract
    BY <1>1, ResultShape DEF ReducerWorld
  <2>. QED BY <2>1
<1>6. r.tag = "WORKSPACE_PREPARED" =>
        e.prepared \in {"proceed", "tools-missing", "setup-failed", "contract-unsound"}
  BY <1>1, ResultShape
<1>7. r.tag = "AGENT_RAN" => e.status \in w.statuses /\ e.hash \in w.hashes
  <2>1. r.tag = "AGENT_RAN" =>
          r.status \in w.statuses /\ r.hash \in w.hashes /\ {"status", "hash"} \subseteq DOMAIN r
    BY ResultShape DEF ReducerWorld
  <2>. QED BY <1>1, <2>1
<1>8. r.tag = "VERIFIED" /\ ~e.pass => e.detail \in w.details /\ e.evaluable \in BOOLEAN
  <2>1. SUFFICES ASSUME r.tag = "VERIFIED", ~e.pass
                 PROVE  e.detail \in w.details /\ e.evaluable \in BOOLEAN
    OBVIOUS
  <2>2. ~r.pass
    BY <1>1, <2>1, ResultShape
  <2>3. e.detail = r.detail /\ e.evaluable = r.evaluable /\ r.evaluable \in BOOLEAN
    BY <1>1, <2>1, <2>2, ResultShape
  <2>4. r.detail \in w.details
    BY <2>1, <2>2 DEF ReducerWorld
  <2>. QED BY <2>3, <2>4
<1>9. r.tag = "CONTRACT_ADJUDICATED" => e.defective \in BOOLEAN
  BY <1>1, ResultShape
<1>. QED BY <1>1, <1>2, <1>3, <1>4, <1>5, <1>6, <1>7, <1>8, <1>9 DEF Produced, e

(***************************************************************************)
(* The abstract run: while no operator has extended the log it is in the   *)
(* state the log folds to, and what waits to be appended is a result of    *)
(* its world.                                                              *)
(***************************************************************************)
RefInv ==
  /\ Markers(log) = {} => run.st = Replay(config, log)
  /\ tree \in ReducerWorld(world).hashes
  /\ proc.up /\ proc.pending # NoEvent =>
       /\ Produced(proc.pending, ReducerWorld(world))
       /\ proc.pending.tag = "WAVE_RAN" => proc.pending.merged \subseteq proc.st.indices

(* Of a log no operator extended, the header's configuration is in force. *)
LEMMA Unmarked == ASSUME NEW c, NEW l, Markers(l) = {} PROVE ExtendedRunConfig(c, l) = c
BY DEF ExtendedRunConfig

(* What is known when the event of an unextended run is appended. *)
LEMMA CommitFacts ==
  ASSUME JournalInv, RefInv, Commit, Markers(log) = {}
  PROVE  /\ run.st = proc.st /\ proc.up
         /\ proc.st.cmd \in WaitsFor(proc.st.tag)
         /\ ReadingOK(proc.pending) /\ Produced(proc.pending, ReducerWorld(world))
         /\ proc.pending.tag = "WAVE_RAN" => proc.pending.merged \subseteq proc.st.indices
         /\ proc.pending.tag \in EventsOf(proc.st.tag)
         /\ proc.st.planRound \in Nat /\ proc.st.compileRound \in Nat
         /\ config.maxPlanRetries \in Nat /\ config.maxCompileRetries \in Nat
         /\ run'.st = Step(config, run.st, proc.pending)
         /\ run'.hist = Uninterrupted!NextHist(run.hist, run.st, proc.pending, run'.st)
         /\ UNCHANGED << config, world >>
<1>1. /\ ConfigOK(config) /\ FileOK /\ MemoryOK /\ PendingOK /\ proc.up /\ proc.pending # NoEvent
  BY ScenarioFacts DEF JournalInv, Commit, MemoryOK
<1>2. Effective = config
  BY Unmarked DEF Effective
<1>3. run.st = proc.st /\ proc.st = Replay(config, log) /\ proc.st # Invalid
  BY <1>1 DEF RefInv, MemoryOK
<1>4. StateShape(config, proc.st, Len(log))
  <2>1. \A i \in 0 .. Len(log) : Fold(config, log)[i] = Invalid \/ StateShape(Effective, Fold(config, log)[i], i)
    BY <1>1, FoldShape DEF Effective, FileOK
  <2>2. Len(log) \in 0 .. Len(log)
    BY <1>1, SequenceShape DEF FileOK, EntriesOK
  <2>. QED BY <1>2, <1>3, <2>1, <2>2 DEF Replay
<1>5. proc.st.cmd \in WaitsFor(proc.st.tag)
      /\ proc.st.planRound \in Nat /\ proc.st.compileRound \in Nat
  BY <1>4 DEF StateShape
<1>6. config.maxPlanRetries \in Nat /\ config.maxCompileRetries \in Nat
  BY <1>1, KnobTypes
<1>7. run' = [st |-> Step(config, proc.st, proc.pending),
              hist |-> Uninterrupted!NextHist(run.hist, run.st, proc.pending,
                                              Step(config, proc.st, proc.pending))]
      /\ UNCHANGED << config, world >>
  BY <1>2 DEF Commit
<1>8. /\ run'.st = Step(config, run.st, proc.pending)
      /\ run'.hist = Uninterrupted!NextHist(run.hist, run.st, proc.pending, run'.st)
  <2>1. run'.st = Step(config, proc.st, proc.pending)
    BY <1>7
  <2>2. run'.hist = Uninterrupted!NextHist(run.hist, run.st, proc.pending,
                                           Step(config, proc.st, proc.pending))
    BY <1>7
  <2>. QED BY <1>3, <2>1, <2>2
<1>. QED BY <1>1, <1>3, <1>5, <1>6, <1>7, <1>8 DEF PendingOK, RefInv

(* Appending it is the action of the reducer its tag names. *)
LEMMA CommitReduces ==
  ASSUME JournalInv, RefInv, Commit, Markers(log) = {}
  PROVE  Uninterrupted!Next
<1> DEFINE e == proc.pending
           s == run.st
           w == ReducerWorld(world)
<1>1. /\ s.cmd \in WaitsFor(s.tag)
      /\ ReadingOK(e) /\ Produced(e, w)
      /\ e.tag = "WAVE_RAN" => e.merged \subseteq s.indices
      /\ e.tag \in EventsOf(s.tag)
      /\ s.planRound \in Nat /\ s.compileRound \in Nat
      /\ config.maxPlanRetries \in Nat /\ config.maxCompileRetries \in Nat
      /\ run'.st = Step(config, s, e)
      /\ run'.hist = Uninterrupted!NextHist(run.hist, s, e, run'.st)
      /\ UNCHANGED << config, world >>
  BY CommitFacts
<1>2. ASSUME NEW f, SameReading(e, f) PROVE Uninterrupted!Apply(f)
  <2>1. /\ Step(config, s, f) = Step(config, s, e)
        /\ \A h, t : Uninterrupted!NextHist(h, s, f, t) = Uninterrupted!NextHist(h, s, e, t)
    <3> HIDE DEF e, s
    <3>. QED BY <1>1, <1>2, StepReads
  <2>2. ReducerWorld(world') = ReducerWorld(world)
    BY <1>1
  <2>. QED BY <1>1, <2>1, <2>2, SameStep DEF Uninterrupted!Apply
<1>3. w.drift = TRUE /\ w.budgets = BOOLEAN /\ w.evaluable = BOOLEAN
  BY DEF ReducerWorld
<1>4. e.tag \in ResultTags
  BY <1>1 DEF ReadingOK
<1> HIDE DEF e
<1>5. CASE e.tag = "PLAN_COMPILED"
  <2> DEFINE f == [tag |-> "PLAN_COMPILED", plan |-> e.plan]
  <2>1. s.cmd = "COMPILE_PLAN"
    BY <1>1, <1>5, CommandsFit DEF EventsOf
  <2>2. Uninterrupted!Apply(f)
    BY <1>2, <1>5 DEF SameReading
  <2>3. e.plan \in w.plans /\ Uninterrupted!ValidPlan(e.plan)
    BY <1>1, <1>5, SameValidPlan DEF Produced
  <2>. QED BY <2>1, <2>2, <2>3 DEF Uninterrupted!Next, Uninterrupted!PlanCompiled
<1>6. CASE e.tag = "PLAN_FAILED"
  <2>1. s.cmd = "COMPILE_PLAN"
    BY <1>1, <1>6, CommandsFit DEF EventsOf
  <2>2. Uninterrupted!Apply([tag |-> "PLAN_FAILED"])
    BY <1>2, <1>6 DEF SameReading
  <2>. QED BY <2>1, <2>2 DEF Uninterrupted!Next, Uninterrupted!PlanFailed
<1>7. CASE e.tag = "PLAN_SEAL_DECIDED"
  <2>1. s.cmd = "REQUEST_PLAN_SEAL"
    BY <1>1, <1>7, CommandsFit DEF EventsOf
  <2>2. Uninterrupted!Apply([tag |-> "PLAN_SEAL_DECIDED", decision |-> e.decision])
    BY <1>2, <1>7 DEF SameReading
  <2>3. e.decision \in {"approve", "reject", "revise"}
    BY <1>1, <1>7 DEF ReadingOK
  <2>. QED BY <2>1, <2>2, <2>3 DEF Uninterrupted!Next, Uninterrupted!PlanSealDecided
<1>8. CASE e.tag = "PHASE_ADVANCED"
  <2>1. s.cmd = "CHECKPOINT_AND_ADVANCE"
    BY <1>1, <1>8, CommandsFit DEF EventsOf
  <2>2. Uninterrupted!Apply([tag |-> "PHASE_ADVANCED"])
    BY <1>2, <1>8 DEF SameReading
  <2>. QED BY <2>1, <2>2 DEF Uninterrupted!Next, Uninterrupted!PhaseAdvanced
<1>9. CASE e.tag = "WAVE_RAN"
  <2>1. s.cmd = "RUN_WAVE"
    BY <1>1, <1>9, CommandsFit DEF EventsOf
  <2>2. Uninterrupted!Apply([tag |-> "WAVE_RAN", merged |-> e.merged])
    BY <1>2, <1>9 DEF SameReading
  <2>3. e.merged \in SUBSET s.indices
    BY <1>1, <1>9
  <2>. QED BY <2>1, <2>2, <2>3 DEF Uninterrupted!Next, Uninterrupted!WaveRan
<1>10. CASE e.tag = "CONTRACT_COMPILED"
  <2>1. s.cmd \in {"COMPILE_VERIFIER", "REFREEZE_CONTRACT"}
    BY <1>1, <1>10, CommandsFit DEF EventsOf
  <2>2. Uninterrupted!Apply([tag |-> "CONTRACT_COMPILED", contract |-> e.contract])
    BY <1>2, <1>10 DEF SameReading
  <2>3. e.contract \in w.contracts
    BY <1>1, <1>10 DEF Produced
  <2>. QED BY <2>1, <2>2, <2>3 DEF Uninterrupted!Next, Uninterrupted!ContractCompiled
<1>11. CASE e.tag = "COMPILE_FAILED"
  <2>1. s.cmd \in {"COMPILE_VERIFIER", "REFREEZE_CONTRACT"}
    BY <1>1, <1>11, CommandsFit DEF EventsOf
  <2>2. Uninterrupted!Apply([tag |-> "COMPILE_FAILED"])
    BY <1>2, <1>11 DEF SameReading
  <2>. QED BY <2>1, <2>2 DEF Uninterrupted!Next, Uninterrupted!CompileFailed
<1>12. CASE e.tag = "SEAL_DECIDED"
  <2>1. s.cmd = "REQUEST_SEAL"
    BY <1>1, <1>12, CommandsFit DEF EventsOf
  <2>2. Uninterrupted!Apply([tag |-> "SEAL_DECIDED", decision |-> e.decision])
    BY <1>2, <1>12 DEF SameReading
  <2>3. e.decision \in {"approve", "reject", "revise", "edited"}
    BY <1>1, <1>12 DEF ReadingOK
  <2>. QED BY <2>1, <2>2, <2>3 DEF Uninterrupted!Next, Uninterrupted!SealDecided
<1>13. CASE e.tag = "WORKSPACE_PREPARED"
  <2>1. s.cmd = "PREPARE_WORKSPACE"
    BY <1>1, <1>13, CommandsFit DEF EventsOf
  <2>2. Uninterrupted!Apply([tag |-> "WORKSPACE_PREPARED", prepared |-> e.prepared])
    BY <1>2, <1>13 DEF SameReading
  <2>3. e.prepared \in {"proceed", "tools-missing", "setup-failed", "contract-unsound"}
    BY <1>1, <1>13 DEF Produced
  <2>. QED BY <2>1, <2>2, <2>3 DEF Uninterrupted!Next, Uninterrupted!WorkspacePrepared
<1>14. CASE e.tag = "AGENT_RAN"
  <2> DEFINE f == [tag |-> "AGENT_RAN", status |-> e.status, prev |-> e.prev, hash |-> e.hash,
                   budget |-> e.budget]
  <2>1. s.cmd \in {"RUN_AGENT", "RUN_AGENT_BEST_OF"}
    BY <1>1, <1>14, CommandsFit DEF EventsOf
  <2>2. Uninterrupted!Apply(f)
    BY <1>2, <1>14 DEF SameReading
  <2>3. Uninterrupted!PrevHashes = w.hashes
    BY <1>3 DEF Uninterrupted!PrevHashes
  <2>4. e.status \in w.statuses /\ e.prev \in Uninterrupted!PrevHashes /\ e.hash \in w.hashes
    BY <1>1, <1>14, <2>3 DEF Produced
  <2>5. e.budget \in Uninterrupted!BudgetReadings
    BY <1>1, <1>3, <1>14 DEF ReadingOK, Uninterrupted!BudgetReadings
  <2>. QED BY <2>1, <2>2, <2>4, <2>5 DEF Uninterrupted!Next, Uninterrupted!AgentRan
<1>15. CASE e.tag = "VERIFIED" /\ e.pass
  <2> DEFINE f == [tag |-> "VERIFIED", pass |-> TRUE, budget |-> e.budget]
  <2>1. s.cmd = "RUN_VERIFIER"
    BY <1>1, <1>15, CommandsFit DEF EventsOf
  <2>2. Uninterrupted!Apply(f)
    <3>1. e.pass = TRUE
      BY <1>1, <1>15 DEF ReadingOK
    <3>2. SameReading(e, f)
      BY <1>15, <3>1 DEF SameReading
    <3> HIDE DEF f
    <3>. QED BY <1>2, <3>2
  <2>3. e.budget \in Uninterrupted!BudgetReadings
    BY <1>1, <1>3, <1>15 DEF ReadingOK, Uninterrupted!BudgetReadings
  <2>. QED BY <2>1, <2>2, <2>3 DEF Uninterrupted!Next, Uninterrupted!VerifiedGreen
<1>16. CASE e.tag = "VERIFIED" /\ ~e.pass
  <2> DEFINE f == [tag |-> "VERIFIED", pass |-> FALSE, detail |-> e.detail,
                   evaluable |-> e.evaluable, budget |-> e.budget]
  <2>1. s.cmd = "RUN_VERIFIER"
    BY <1>1, <1>16, CommandsFit DEF EventsOf
  <2>2. Uninterrupted!Apply(f)
    <3>1. e.pass = FALSE
      BY <1>1, <1>16 DEF ReadingOK
    <3>2. SameReading(e, f)
      BY <1>16, <3>1 DEF SameReading
    <3> HIDE DEF f
    <3>. QED BY <1>2, <3>2
  <2>3. e.budget \in Uninterrupted!BudgetReadings
    BY <1>1, <1>3, <1>16 DEF ReadingOK, Uninterrupted!BudgetReadings
  <2>4. e.detail \in w.details /\ e.evaluable \in w.evaluable
    BY <1>1, <1>3, <1>16 DEF Produced
  <2>. QED BY <2>1, <2>2, <2>3, <2>4 DEF Uninterrupted!Next, Uninterrupted!VerifiedRed
<1>17. CASE e.tag = "SIGNOFF_DECIDED"
  <2> DEFINE f == [tag |-> "SIGNOFF_DECIDED", approval |-> e.approval, budget |-> e.budget]
  <2>1. s.cmd = "REQUEST_SIGNOFF"
    BY <1>1, <1>17, CommandsFit DEF EventsOf
  <2>2. Uninterrupted!Apply(f)
    BY <1>2, <1>17 DEF SameReading
  <2>3. e.budget \in Uninterrupted!BudgetReadings /\ e.approval \in {"approve", "veto"}
    BY <1>1, <1>3, <1>17 DEF ReadingOK, Uninterrupted!BudgetReadings
  <2>. QED BY <2>1, <2>2, <2>3 DEF Uninterrupted!Next, Uninterrupted!SignoffDecided
<1>18. CASE e.tag = "CONTRACT_ADJUDICATED"
  <2>1. s.cmd = "ADJUDICATE_CONTRACT"
    BY <1>1, <1>18, CommandsFit DEF EventsOf
  <2>2. Uninterrupted!Apply([tag |-> "CONTRACT_ADJUDICATED", defective |-> e.defective])
    BY <1>2, <1>18 DEF SameReading
  <2>3. e.defective \in BOOLEAN
    BY <1>1, <1>18 DEF Produced
  <2>. QED BY <2>1, <2>2, <2>3 DEF Uninterrupted!Next, Uninterrupted!ContractAdjudicated
<1>. QED BY <1>4, <1>5, <1>6, <1>7, <1>8, <1>9, <1>10, <1>11, <1>12, <1>13, <1>14, <1>15, <1>16,
            <1>17, <1>18 DEF ResultTags

(* The abstract run starts where the reducer does. *)
LEMMA RefInit == Init => RefInv /\ Uninterrupted!Init
<1>1. SUFFICES ASSUME Init PROVE RefInv /\ Uninterrupted!Init
  OBVIOUS
<1>2. JournalInv
  BY <1>1, InitInv
<1>3. /\ ConfigOK(config) /\ log = << >> /\ tree = RunStart /\ ~proc.up
      /\ run = [st   |-> InitialState(config),
                hist |-> [Uninterrupted!NoHistory EXCEPT
                            !.todo = IF config.phased THEN {} ELSE {0}]]
  BY <1>1, <1>2, ScenarioFacts DEF Init, JournalInv, log, Down
<1>4. Markers(log) = {}
  BY <1>3, EmptySeq DEF Markers
<1>5. run.st = InitialState(config)
      /\ run.hist = [Uninterrupted!NoHistory EXCEPT !.todo = IF config.phased THEN {} ELSE {0}]
  BY <1>3
<1>6. run.st = Replay(config, log)
  BY <1>3, <1>5, EmptyLog
<1>7. tree \in ReducerWorld(world).hashes
  BY <1>3 DEF ReducerWorld
<1>8. \E z \in ReducerScenarios : config = z.config /\ ReducerWorld(world) = z.world
  <2>1. PICK s \in Scenarios : config = s.config /\ world = s.world
    BY <1>1 DEF Init
  <2> DEFINE z == [config |-> s.config, world |-> ReducerWorld(s.world)]
  <2>2. z \in ReducerScenarios
    BY DEF ReducerScenarios
  <2>3. config = z.config /\ ReducerWorld(world) = z.world
    BY <2>1
  <2>. QED BY <2>2, <2>3
<1>. QED BY <1>3, <1>5, <1>6, <1>7, <1>8, SameStates DEF RefInv, Uninterrupted!Init

(* A resume that carries nothing leaves the log, but for a driver's own entry, alone. *)
LEMMA ResumeUnmarked ==
  ASSUME JournalInv, JournalInv', NEW x \in world.extensions, NEW rewired \in world.rewired,
         Resume(x, rewired), Markers(log') = {}
  PROVE  /\ Markers(log) = {} /\ Replay(config, log') = Replay(config, log)
         /\ \/ log' = log
            \/ log' = Append(log, Entry(Len(log) + 1, [tag |-> "DEGRADED_ESCALATED"],
                                      Replay(config, log').tag))
<1> DEFINE y == Extension(log, x)
           marked == Extended(log, y)
           s == Replay(config, marked)
           final == ReconcileDegraded(marked, rewired, s.tag)
           marker == [tag |-> "RUN_EXTENDED", overlay |-> y.overlay, note |-> y.note]
           z == Entry(Len(log) + 1, marker,
                      Replay(config, Append(log, Entry(Len(log) + 1, marker, "COMPILING"))).tag)
           own == Entry(Len(marked) + 1, [tag |-> "DEGRADED_ESCALATED"], s.tag)
<1>1. /\ ConfigOK(config) /\ FileOK /\ rewired \in BOOLEAN /\ OverlayOK(x.overlay)
      /\ x = [overlay |-> x.overlay, note |-> x.note]
  BY ScenarioFacts DEF JournalInv, WorldOK
<1>2. /\ file' = [file EXCEPT !.entries = final, !.torn = @ /\ final = log] /\ s # Invalid
      /\ proc' = Booted(final, s, ResumedSeq(marked, rewired), final # log)
      /\ config' = config
  BY DEF Resume
<1>3. EntriesOK(log) /\ Numbered(log) /\ Metered(log)
  BY <1>1 DEF FileOK, SequenceUnbroken, Numbered
<1>4. EntriesOK(marked) /\ Numbered(marked)
  BY <1>1, <1>3, ExtendedShape
<1>5. log' = final
  <2> HIDE DEF final
  <2>. QED BY <1>1, <1>2 DEF FileOK, log
<1>6. Replay(config, log') = s
  <2>1. proc'.up /\ proc'.st = s
    <3> HIDE DEF s, final, marked
    <3>. QED BY <1>2 DEF Booted, Down
  <2>2. proc'.st = Replay(config', log')
    BY <2>1 DEF JournalInv, MemoryOK
  <2>. QED BY <1>2, <2>1, <2>2
<1>7. \A i \in DOMAIN marked : i \in DOMAIN final /\ final[i] = marked[i]
  <2>1. CASE ~rewired
    BY <2>1 DEF ReconcileDegraded
  <2>2. CASE rewired
    <3>1. final = Append(marked, own)
      BY <2>2 DEF ReconcileDegraded
    <3>2. EventOK(own.event)
      BY DEF Entry, EventOK, DriverOnlyTags
    <3> HIDE DEF own, marked, final
    <3>3. /\ Len(marked) \in Nat /\ DOMAIN marked = 1 .. Len(marked)
          /\ DOMAIN final = 1 .. (Len(marked) + 1)
          /\ \A i \in 1 .. Len(marked) : final[i] = marked[i]
      BY <1>4, <3>1, <3>2, AppendEntry
    <3>. QED BY <3>3
  <2>. QED BY <1>1, <2>1, <2>2
<1> HIDE DEF final, s, own
<1>8. Markers(marked) = {}
  BY <1>5, <1>7 DEF Markers
<1>9. marked = log
  <2>1. CASE ~HasExtension(y)
    BY <2>1 DEF Extended
  <2>2. CASE HasExtension(y)
    <3>1. marked = Append(log, z)
      BY <2>2 DEF Extended
    <3>2. z.event = marker /\ marker.tag = "RUN_EXTENDED"
      BY DEF Entry
    <3>3. OverlayOK(y.overlay)
      <4>1. y.overlay = Overlaid(ResumeStreakRelief(config, log), x.overlay)
        BY DEF Extension
      <4>. QED BY <1>1, <1>3, <4>1, ReliefType, OverlaidType
    <3>4. EventOK(z.event)
      <4>1. marker.overlay = y.overlay
        OBVIOUS
      <4> HIDE DEF marker, z, y
      <4>. QED BY <3>2, <3>3, <4>1 DEF EventOK, DriverOnlyTags
    <3> HIDE DEF z, marker, marked
    <3>5. Len(log) + 1 \in DOMAIN marked /\ marked[Len(log) + 1] = z
      BY <1>3, <3>1, <3>4, AppendEntry
    <3>6. Len(log) + 1 \in Markers(marked)
      BY <3>2, <3>5 DEF Markers
    <3>. QED BY <1>8, <3>6
  <2>. QED BY <2>1, <2>2
<1>10. \/ log' = log
       \/ log' = Append(log, Entry(Len(log) + 1, [tag |-> "DEGRADED_ESCALATED"], s.tag))
  BY <1>5, <1>9 DEF final, ReconcileDegraded, own
<1>. QED BY <1>6, <1>8, <1>9, <1>10 DEF s

(* Every step keeps the invariant and is a step of the reducer or none of it. *)
LEMMA RefNext ==
  ASSUME JournalInv, JournalInv', RefInv, [Next]_vars, world.faults \subseteq {"unwritten"}
  PROVE  RefInv' /\ [Uninterrupted!Next]_Uninterrupted!vars
<1>1. /\ ConfigOK(config) /\ WorldOK(world) /\ ProcFields /\ FileOK /\ ProcFields'
  BY ScenarioFacts DEF JournalInv
<1>2. config' = config /\ world' = world
  BY DEF Next, vars, Start, Resume, Perform, Commit, CommitTorn, Checkpoint, CheckpointFails, Stop
<1>3. ReducerWorld(world') = ReducerWorld(world)
  BY <1>2
<1>4. run' = run => UNCHANGED Uninterrupted!vars
  BY <1>2, <1>3 DEF Uninterrupted!vars
<1>5. ASSUME run' = run, tree' = tree, log' = log,
             \/ ~proc'.up
             \/ proc'.pending = NoEvent
             \/ proc'.up = proc.up /\ proc'.pending = proc.pending /\ proc'.st = proc.st
      PROVE  RefInv' /\ [Uninterrupted!Next]_Uninterrupted!vars
  <2>1. Markers(log') = {} => run'.st = Replay(config', log')
    BY <1>2, <1>5 DEF RefInv
  <2>2. tree' \in ReducerWorld(world').hashes
    BY <1>3, <1>5 DEF RefInv
  <2>3. proc'.up /\ proc'.pending # NoEvent =>
          /\ Produced(proc'.pending, ReducerWorld(world'))
          /\ proc'.pending.tag = "WAVE_RAN" => proc'.pending.merged \subseteq proc'.st.indices
    BY <1>3, <1>5 DEF RefInv
  <2>. QED BY <1>4, <1>5, <2>1, <2>2, <2>3 DEF RefInv
<1>6. CASE UNCHANGED vars
  BY <1>5, <1>6 DEF vars, log
<1>7. CASE Start
  <2>1. proc'.pending = NoEvent /\ run' = run /\ tree' = tree /\ log' = log
    BY <1>7 DEF Start, Booted, Down, log
  <2>. QED BY <1>5, <2>1
<1>8. CASE \E x \in world.extensions, rewired \in world.rewired : Resume(x, rewired)
  <2>1. PICK x \in world.extensions, rewired \in world.rewired : Resume(x, rewired)
    BY <1>8
  <2>2. run' = run /\ tree' = tree
    BY <2>1 DEF Resume
  <2>3. proc'.pending = NoEvent
    BY <2>1 DEF Resume, Booted, Down
  <2>4. Markers(log') = {} => run'.st = Replay(config', log')
    BY <1>2, <2>1, <2>2, ResumeUnmarked DEF RefInv
  <2>5. tree' \in ReducerWorld(world').hashes
    BY <1>3, <2>2 DEF RefInv
  <2>. QED BY <1>4, <2>2, <2>3, <2>4, <2>5 DEF RefInv
<1>9. CASE \E r \in world.results, llm \in world.charges : Perform(r, llm)
  <2>1. PICK r \in world.results, llm \in world.charges : Perform(r, llm)
    BY <1>9
  <2>2. /\ proc' = [proc EXCEPT !.pending = Event(r, llm), !.meter = MeterAfter(r, llm),
                          !.note  = @ /\ r.tag # "AGENT_RAN",
                          !.judge = IF r.tag \in {"PHASE_ADVANCED", "WAVE_RAN"}
                                    THEN TreeAfter(r) ELSE @]
        /\ tree' = TreeAfter(r) /\ file' = file /\ run' = run
        /\ r.tag = "WAVE_RAN" => r.merged \subseteq proc.st.indices
    BY <2>1 DEF Perform
  <2>3. ResultOK(r)
    BY <1>1 DEF WorldOK
  <2>4. /\ Produced(Event(r, llm), ReducerWorld(world))
        /\ r.tag = "WAVE_RAN" => Event(r, llm).merged = r.merged
        /\ TreeAfter(r) \in ReducerWorld(world).hashes
    BY <2>3, EventProduced DEF RefInv
  <2>5. Event(r, llm).tag = r.tag
    BY <2>3, ResultShape, EventFields
  <2>6. proc'.pending = Event(r, llm) /\ proc'.st = proc.st
    BY <1>1, <2>2 DEF ProcFields
  <2>7. Markers(log') = {} => run'.st = Replay(config', log')
    BY <1>2, <2>2 DEF RefInv, log
  <2>8. proc'.pending.tag = "WAVE_RAN" => proc'.pending.merged \subseteq proc'.st.indices
    BY <2>2, <2>4, <2>5, <2>6
  <2>9. Produced(proc'.pending, ReducerWorld(world'))
    BY <1>3, <2>4, <2>6
  <2>10. tree' \in ReducerWorld(world').hashes
    BY <1>3, <2>2, <2>4
  <2>. QED BY <1>4, <2>2, <2>7, <2>8, <2>9, <2>10 DEF RefInv
<1>10. CASE Commit
  <2> DEFINE next == Step(Effective, proc.st, proc.pending)
             z == Entry(proc.seq + 1, proc.pending, next.tag)
  <2>1. /\ file' = Appended(file, proc.checked, z) /\ proc.up /\ tree' = tree
        /\ proc' = [proc EXCEPT
                      !.st = next, !.pending = NoEvent, !.seq = @ + 1, !.checked = TRUE,
                      !.approver = IF proc.pending.tag = "PHASE_ADVANCED" THEN proc.pending.tree ELSE @,
                      !.due = CheckpointFollows(proc.pending, next)]
        /\ Markers(log) # {} => run' = run
    BY <1>10 DEF Commit
  <2>2. MemoryOK /\ PendingOK
    BY <1>10 DEF JournalInv, MemoryOK, Commit
  <2>3. z.event = proc.pending
    BY DEF Entry
  <2> HIDE DEF z, next
  <2>4. log' = Append(log, z)
    BY <1>1, <2>1, <2>2, AppendedShape DEF log
  <2>5. Markers(log') = Markers(log)
    <3>1. EventOK(z.event) /\ z.event.tag # "RUN_EXTENDED" /\ EntriesOK(log)
      BY <1>1, <2>2, <2>3 DEF PendingOK, EventOK, ReadingOK, ResultTags, FileOK
    <3>. QED BY <2>4, <3>1, AppendMarkers
  <2>6. proc'.pending = NoEvent /\ proc'.st = next /\ proc'.up
    BY <1>1, <2>1 DEF ProcFields
  <2>7. next = Replay(config', log')
    BY <2>6 DEF JournalInv, MemoryOK
  <2>8. Markers(log) = {} => run'.st = next /\ Uninterrupted!Next
    <3>1. SUFFICES ASSUME Markers(log) = {} PROVE run'.st = next /\ Uninterrupted!Next
      OBVIOUS
    <3>2. run'.st = Step(config, run.st, proc.pending) /\ run.st = proc.st
      BY <1>10, <3>1, CommitFacts
    <3>3. Effective = config
      BY <3>1, Unmarked DEF Effective
    <3>. QED BY <1>10, <3>1, <3>2, <3>3, CommitReduces DEF next
  <2>9. tree' \in ReducerWorld(world').hashes
    BY <1>3, <2>1 DEF RefInv
  <2>10. RefInv'
    BY <2>5, <2>6, <2>7, <2>8, <2>9 DEF RefInv
  <2>11. [Uninterrupted!Next]_Uninterrupted!vars
    BY <1>4, <2>1, <2>8
  <2>. QED BY <2>10, <2>11
<1>11. CASE Stop \/ CommitTorn
  <2>1. ~proc'.up /\ log' = log /\ run' = run /\ tree' = tree
    <3>1. DOMAIN file = {"entries", "torn", "fused"}
      BY <1>1 DEF FileOK
    <3>. QED BY <1>11, <3>1 DEF Stop, CommitTorn, Down, log
  <2>. QED BY <1>5, <2>1
<1>12. CASE Checkpoint
  <2> DEFINE z == Entry(proc.seq + 1, [tag |-> "CHECKPOINTED", tree |-> tree], proc.st.tag)
  <2>1. /\ file' = Appended(file, proc.checked, z)
        /\ proc' = [proc EXCEPT !.due = FALSE, !.seq = @ + 1, !.judge = tree]
        /\ proc.up /\ tree' = tree /\ run' = run
    BY <1>12 DEF Checkpoint
  <2>2. MemoryOK /\ proc.pending = NoEvent
    BY <1>12 DEF JournalInv, MemoryOK, Checkpoint
  <2>3. z.event.tag = "CHECKPOINTED"
    BY DEF Entry
  <2> HIDE DEF z
  <2>4. log' = Append(log, z)
    BY <1>1, <2>1, <2>2, AppendedShape DEF log
  <2>5. Markers(log') = Markers(log)
    <3>1. EventOK(z.event) /\ z.event.tag # "RUN_EXTENDED" /\ EntriesOK(log)
      BY <1>1, <2>3 DEF EventOK, DriverOnlyTags, FileOK
    <3>. QED BY <2>4, <3>1, AppendMarkers
  <2>6. proc'.pending = NoEvent /\ proc'.st = proc.st /\ proc'.up
    BY <1>1, <2>1, <2>2 DEF ProcFields
  <2>7. proc.st = Replay(config', log') /\ proc.st = Replay(config, log)
    BY <2>2, <2>6 DEF JournalInv, MemoryOK
  <2>8. tree' \in ReducerWorld(world').hashes
    BY <1>3, <2>1 DEF RefInv
  <2>9. Markers(log') = {} => run'.st = Replay(config', log')
    BY <2>1, <2>5, <2>7 DEF RefInv
  <2>. QED BY <1>4, <2>1, <2>6, <2>8, <2>9 DEF RefInv
<1>13. CASE \E fault \in world.faults : CheckpointFails(fault)
  <2>1. CheckpointFails("unwritten")
    BY <1>13
  <2>2. /\ proc' = [proc EXCEPT !.due = FALSE] /\ file' = file /\ run' = run /\ tree' = tree
    BY <2>1 DEF CheckpointFails
  <2>3. proc'.up = proc.up /\ proc'.pending = proc.pending /\ proc'.st = proc.st /\ log' = log
    BY <1>1, <2>2 DEF ProcFields, log
  <2>. QED BY <1>5, <2>2, <2>3
<1>. QED BY <1>6, <1>7, <1>8, <1>9, <1>10, <1>11, <1>12, <1>13 DEF Next

(***************************************************************************)
(* Until an operator extends it, an interrupted run is one the reducer      *)
(* could have made in one go: each Commit is the action of Reducer its      *)
(* event's tag names, and every other step is none.                         *)
(***************************************************************************)
THEOREM Refinement == Spec /\ []Tame => ImplementsReducer
<1>1. Init => JournalInv /\ RefInv /\ Uninterrupted!Init
  BY InitInv, RefInit
<1>2. JournalInv /\ RefInv /\ Tame /\ [Next]_vars
        => JournalInv' /\ RefInv' /\ [Uninterrupted!Next]_Uninterrupted!vars
  <2>1. SUFFICES ASSUME JournalInv, RefInv, Tame, [Next]_vars
                 PROVE  JournalInv' /\ RefInv' /\ [Uninterrupted!Next]_Uninterrupted!vars
    OBVIOUS
  <2>2. JournalInv'
    BY <2>1, NextInv DEF Tame
  <2>. QED BY <2>1, <2>2, RefNext DEF Tame
<1>. QED BY <1>1, <1>2, PTL DEF Spec, ImplementsReducer, Uninterrupted!Spec

-----------------------------------------------------------------------------
(* The operator's note. *)

(* NotesDelivered, of any log. *)
Delivered(l) ==
  \A i \in Markers(l) : \A j \in (i + 1) .. Len(l) :
    /\ l[i].event.note
    /\ l[j].event.tag = "AGENT_RAN"
    /\ \A k \in (i + 1) .. (j - 1) : l[k].event.tag # "AGENT_RAN"
    => l[j].event.noted

(* An appended turn that had the pending note in its prompt keeps notes delivered. *)
LEMMA DeliveredAppend ==
  ASSUME NEW l, EntriesOK(l), Delivered(l), NEW x, EventOK(x.event),
         x.event.tag = "AGENT_RAN" /\ PendingNote(l) => x.event.noted
  PROVE  Delivered(Append(l, x))
<1> DEFINE g == Append(l, x)
           n == Len(l)
<1>1. /\ n \in Nat /\ DOMAIN l = 1 .. n /\ DOMAIN g = 1 .. (n + 1)
      /\ \A i \in 1 .. n : g[i] = l[i]
      /\ g[n + 1] = x /\ Len(g) = n + 1
  BY AppendEntry
<1> HIDE DEF g, n
<1>2. SUFFICES ASSUME NEW i \in Markers(g), NEW j \in (i + 1) .. Len(g),
                      g[i].event.note, g[j].event.tag = "AGENT_RAN",
                      \A k \in (i + 1) .. (j - 1) : g[k].event.tag # "AGENT_RAN"
               PROVE  g[j].event.noted
  BY DEF Delivered, g
<1>3. i \in 1 .. n /\ g[i] = l[i] /\ i \in Markers(l)
  <2>1. i \in 1 .. (n + 1)
    BY <1>1 DEF Markers
  <2>2. j <= n + 1 /\ i + 1 <= j
    BY <1>1, <2>1
  <2>. QED BY <1>1, <2>1, <2>2 DEF Markers
<1>4. \A k \in (i + 1) .. (j - 1) : k \in 1 .. n /\ g[k] = l[k]
  BY <1>1, <1>3
<1>5. CASE j \in 1 .. n
  <2>1. g[j] = l[j] /\ j \in (i + 1) .. n
    BY <1>1, <1>3, <1>5
  <2>. QED BY <1>2, <1>3, <1>4, <2>1 DEF Delivered, n
<1>6. CASE j = n + 1
  <2>1. g[j] = x
    BY <1>1, <1>6
  <2>2. \A k \in (i + 1) .. n : l[k].event.tag # "AGENT_RAN"
    BY <1>1, <1>2, <1>3, <1>4, <1>6
  <2>3. PendingNote(l)
    BY <1>2, <1>3, <2>2 DEF PendingNote, n
  <2>. QED BY <1>2, <2>1, <2>3
<1>7. j \in 1 .. n \/ j = n + 1
  BY <1>1, <1>3
<1>. QED BY <1>5, <1>6, <1>7

(* The invariant of the note: a turn performed with it pending had it. *)
NotesInv ==
  /\ Delivered(log)
  /\ proc.up /\ proc.pending.tag = "AGENT_RAN" => proc.pending.noted = PendingNote(log)

(* No note is pending before the first process; *)
LEMMA NotesInit == Init => NotesInv
<1>1. SUFFICES ASSUME Init PROVE NotesInv
  OBVIOUS
<1>2. log = << >> /\ ~proc.up
  BY <1>1 DEF Init, log, Down
<1>. QED BY <1>2, EmptySeq DEF NotesInv, Delivered, Markers

(* a resume brings one, *)
LEMMA NotesResume ==
  ASSUME JournalInv, NotesInv, NEW x \in world.extensions, NEW rewired \in world.rewired,
         Resume(x, rewired)
  PROVE  NotesInv'
<1> DEFINE y == Extension(log, x)
           marked == Extended(log, y)
           s == Replay(config, marked)
           final == ReconcileDegraded(marked, rewired, s.tag)
           marker == [tag |-> "RUN_EXTENDED", overlay |-> y.overlay, note |-> y.note]
           z == Entry(Len(log) + 1, marker,
                      Replay(config, Append(log, Entry(Len(log) + 1, marker, "COMPILING"))).tag)
           own == Entry(Len(marked) + 1, [tag |-> "DEGRADED_ESCALATED"], s.tag)
<1>1. /\ ConfigOK(config) /\ FileOK /\ rewired \in BOOLEAN /\ OverlayOK(x.overlay)
      /\ x = [overlay |-> x.overlay, note |-> x.note]
  BY ScenarioFacts DEF JournalInv, WorldOK
<1>2. file' = [file EXCEPT !.entries = final, !.torn = @ /\ final = log]
      /\ proc' = Booted(final, s, ResumedSeq(marked, rewired), final # log)
  BY DEF Resume
<1>3. EntriesOK(log) /\ Numbered(log) /\ Metered(log)
  BY <1>1 DEF FileOK, SequenceUnbroken, Numbered
<1>4. EntriesOK(marked)
  BY <1>1, <1>3, ExtendedShape
<1>5. Delivered(marked)
  <2>1. CASE ~HasExtension(y)
    BY <2>1 DEF Extended, NotesInv
  <2>2. CASE HasExtension(y)
    <3>1. marked = Append(log, z)
      BY <2>2 DEF Extended
    <3>2. z.event = marker /\ marker.tag = "RUN_EXTENDED" /\ marker.overlay = y.overlay
      BY DEF Entry
    <3>3. OverlayOK(y.overlay)
      <4>1. y.overlay = Overlaid(ResumeStreakRelief(config, log), x.overlay)
        BY DEF Extension
      <4>. QED BY <1>1, <1>3, <4>1, ReliefType, OverlaidType
    <3> HIDE DEF z, marker, marked, y
    <3>4. EventOK(z.event) /\ z.event.tag # "AGENT_RAN"
      BY <3>2, <3>3 DEF EventOK, DriverOnlyTags
    <3>. QED BY <1>3, <3>1, <3>4, DeliveredAppend DEF NotesInv
  <2>. QED BY <2>1, <2>2
<1> HIDE DEF y, z, marker, marked
<1>6. Delivered(final)
  <2>1. CASE ~rewired
    BY <1>5, <2>1 DEF ReconcileDegraded
  <2>2. CASE rewired
    <3>1. final = Append(marked, own)
      BY <2>2 DEF ReconcileDegraded
    <3>2. EventOK(own.event) /\ own.event.tag # "AGENT_RAN"
      BY DEF Entry, EventOK, DriverOnlyTags
    <3> HIDE DEF own, final
    <3>. QED BY <1>4, <1>5, <3>1, <3>2, DeliveredAppend
  <2>. QED BY <1>1, <2>1, <2>2
<1> HIDE DEF final, s, own
<1>7. log' = final
  BY <1>1, <1>2 DEF FileOK, log
<1>8. proc'.pending.tag = "none"
  BY <1>2 DEF Booted, Down, NoEvent
<1>. QED BY <1>6, <1>7, <1>8 DEF NotesInv

(* a turn takes it, *)
LEMMA NotesPerform ==
  ASSUME JournalInv, NotesInv, NEW r \in world.results,
         NEW llm \in world.charges, Perform(r, llm)
  PROVE  NotesInv'
<1>1. WorldOK(world) /\ ProcFields /\ MemoryOK
  BY ScenarioFacts DEF JournalInv, Perform
<1>2. /\ proc' = [proc EXCEPT !.pending = Event(r, llm), !.meter = MeterAfter(r, llm),
                        !.note  = @ /\ r.tag # "AGENT_RAN",
                        !.judge = IF r.tag \in {"PHASE_ADVANCED", "WAVE_RAN"}
                                  THEN TreeAfter(r) ELSE @]
      /\ file' = file /\ proc.pending = NoEvent
  BY DEF Perform
<1>3. proc'.pending = Event(r, llm) /\ log' = log
  BY <1>1, <1>2 DEF ProcFields, log
<1>4. Event(r, llm).tag = r.tag
  BY <1>1, ResultShape, EventFields DEF WorldOK
<1>5. ASSUME r.tag = "AGENT_RAN" PROVE Event(r, llm).noted = PendingNote(log)
  <2>1. Event(r, llm).noted = proc.note
    BY <1>1, <1>5, EventFields DEF WorldOK
  <2>2. proc.note = (PendingNote(log) /\ proc.pending.tag # "AGENT_RAN")
        /\ proc.pending.tag = "none"
    BY <1>1, <1>2 DEF MemoryOK, NoEvent
  <2>3. PendingNote(log) \in BOOLEAN
    BY DEF PendingNote
  <2>4. proc.note = PendingNote(log)
    BY <2>2, <2>3
  <2>. QED BY <2>1, <2>4
<1>. QED BY <1>3, <1>4, <1>5 DEF NotesInv

(* and is logged as one that did; *)
LEMMA NotesCommit ==
  ASSUME JournalInv, NotesInv, Commit
  PROVE  NotesInv'
<1> DEFINE next == Step(Effective, proc.st, proc.pending)
           z == Entry(proc.seq + 1, proc.pending, next.tag)
<1>1. FileOK /\ MemoryOK /\ PendingOK /\ ProcFields
  BY DEF JournalInv, Commit, MemoryOK
<1>2. /\ file' = Appended(file, proc.checked, z) /\ proc.up
      /\ proc' = [proc EXCEPT
                    !.st = next, !.pending = NoEvent, !.seq = @ + 1, !.checked = TRUE,
                    !.approver = IF proc.pending.tag = "PHASE_ADVANCED" THEN proc.pending.tree ELSE @,
                    !.due = CheckpointFollows(proc.pending, next)]
  BY DEF Commit
<1>3. z.event = proc.pending
  BY DEF Entry
<1> HIDE DEF z, next
<1>4. log' = Append(log, z)
  BY <1>1, <1>2, AppendedShape DEF log
<1>5. proc'.pending.tag = "none"
  BY <1>1, <1>2 DEF ProcFields, NoEvent
<1>6. EventOK(z.event) /\ EntriesOK(log)
  BY <1>1, <1>3 DEF PendingOK, EventOK, FileOK
<1>7. z.event.tag = "AGENT_RAN" /\ PendingNote(log) => z.event.noted
  <2>1. SUFFICES ASSUME proc.pending.tag = "AGENT_RAN", PendingNote(log) PROVE proc.pending.noted
    BY <1>3
  <2>2. proc.pending.noted = PendingNote(log)
    BY <1>2, <2>1 DEF NotesInv
  <2>. QED BY <2>1, <2>2
<1>8. Delivered(log')
  BY <1>4, <1>6, <1>7, DeliveredAppend DEF NotesInv
<1>. QED BY <1>5, <1>8 DEF NotesInv

(* a checkpoint changes neither. *)
LEMMA NotesCheckpoint ==
  ASSUME JournalInv, NotesInv, Checkpoint
  PROVE  NotesInv'
<1> DEFINE z == Entry(proc.seq + 1, [tag |-> "CHECKPOINTED", tree |-> tree], proc.st.tag)
<1>1. FileOK /\ MemoryOK /\ ProcFields /\ proc.pending = NoEvent
  BY DEF JournalInv, Checkpoint, MemoryOK
<1>2. /\ file' = Appended(file, proc.checked, z) /\ proc.up
      /\ proc' = [proc EXCEPT !.due = FALSE, !.seq = @ + 1, !.judge = tree]
  BY DEF Checkpoint
<1>3. z.event.tag = "CHECKPOINTED"
  BY DEF Entry
<1> HIDE DEF z
<1>4. log' = Append(log, z)
  BY <1>1, <1>2, AppendedShape DEF log
<1>5. proc'.pending.tag = "none"
  BY <1>1, <1>2 DEF ProcFields, NoEvent
<1>6. Delivered(log')
  BY <1>1, <1>3, <1>4, DeliveredAppend DEF NotesInv, FileOK, EventOK, DriverOnlyTags
<1>. QED BY <1>5, <1>6 DEF NotesInv

(* So it is inductive. *)
LEMMA NotesNext ==
  ASSUME JournalInv, NotesInv, [Next]_vars, world.faults \subseteq {"unwritten"}
  PROVE  NotesInv'
<1>1. ASSUME log' = log,
             \/ ~proc'.up \/ proc'.pending = NoEvent
             \/ proc'.up = proc.up /\ proc'.pending = proc.pending
      PROVE  NotesInv'
  BY <1>1 DEF NotesInv, NoEvent
<1>2. CASE UNCHANGED vars
  BY <1>1, <1>2 DEF vars, log
<1>3. CASE Start
  BY <1>1, <1>3 DEF Start, Booted, Down, log
<1>4. CASE \E x \in world.extensions, rewired \in world.rewired : Resume(x, rewired)
  BY <1>4, NotesResume
<1>5. CASE \E r \in world.results, llm \in world.charges : Perform(r, llm)
  BY <1>5, NotesPerform
<1>6. CASE Commit
  BY <1>6, NotesCommit
<1>7. CASE Stop \/ CommitTorn
  <2>1. DOMAIN file = {"entries", "torn", "fused"}
    BY DEF JournalInv, FileOK
  <2>2. ~proc'.up /\ log' = log
    BY <1>7, <2>1 DEF Stop, CommitTorn, Down, log
  <2>. QED BY <1>1, <2>2
<1>8. CASE Checkpoint
  BY <1>8, NotesCheckpoint
<1>9. CASE \E fault \in world.faults : CheckpointFails(fault)
  <2>1. CheckpointFails("unwritten")
    BY <1>9
  <2>2. proc' = [proc EXCEPT !.due = FALSE] /\ file' = file /\ ProcFields
    BY <2>1 DEF CheckpointFails, JournalInv
  <2>3. proc'.up = proc.up /\ proc'.pending = proc.pending /\ log' = log
    BY <2>2 DEF ProcFields, log
  <2>. QED BY <1>1, <2>3
<1>. QED BY <1>2, <1>3, <1>4, <1>5, <1>6, <1>7, <1>8, <1>9 DEF Next

(***************************************************************************)
(* The turn that consumes an operator's note is one whose prompt had it: a  *)
(* note is not lost to a kill between the turn and the append of its event  *)
(* (driver/perform.ts, runlog/replay.ts).                                   *)
(***************************************************************************)
THEOREM NotesHold == Spec /\ []Tame => []NotesDelivered
<1>1. Init => JournalInv /\ NotesInv
  BY InitInv, NotesInit
<1>2. JournalInv /\ NotesInv /\ Tame /\ [Next]_vars => JournalInv' /\ NotesInv'
  BY NextInv, NotesNext DEF Tame
<1>3. NotesInv => NotesDelivered
  BY DEF NotesInv, Delivered, NotesDelivered
<1>. QED BY <1>1, <1>2, <1>3, PTL DEF Spec

-----------------------------------------------------------------------------
(* Resuming a run that was not extended before. *)

(***************************************************************************)
(* A log without markers folds, whether or not a process is up, and its    *)
(* last entry says to what.                                                *)
(***************************************************************************)
LogInv ==
  Markers(log) = {} =>
    /\ Replay(config, log) # Invalid
    /\ log # << >> => log[Len(log)].after = Replay(config, log).tag

(* It holds before anything is logged, *)
LEMMA LogInit == Init => LogInv
<1>1. SUFFICES ASSUME Init PROVE LogInv
  OBVIOUS
<1>2. log = << >> /\ ConfigOK(config)
  BY <1>1, InitInv, ScenarioFacts DEF Init, log, JournalInv
<1>3. Replay(config, log) = InitialState(config)
  BY <1>2, EmptyLog
<1>4. InitialState(config) # Invalid
  BY <1>2, InitialShape, ShapeValid
<1>. QED BY <1>2, <1>3, <1>4 DEF LogInv

(* while a live process appends what it holds, *)
LEMMA LogAppended ==
  ASSUME JournalInv, JournalInv', proc'.up, NEW z, log' = Append(log, z),
         z.after = proc'.st.tag, EventOK(z.event)
  PROVE  LogInv'
<1>1. proc'.st = Replay(config', log') /\ proc'.st # Invalid
  BY DEF JournalInv, MemoryOK
<1>2. EntriesOK(log)
  BY DEF JournalInv, FileOK
<1>3. Len(log') = Len(log) + 1 /\ log'[Len(log) + 1] = z
  BY <1>2, AppendEntry
<1>. QED BY <1>1, <1>3 DEF LogInv

(* and in every step. *)
LEMMA LogNext ==
  ASSUME JournalInv, JournalInv', LogInv, [Next]_vars, world.faults \subseteq {"unwritten"}
  PROVE  LogInv'
<1>1. FileOK /\ ConfigOK(config) /\ (proc.up => MemoryOK /\ ProcFields)
  BY ScenarioFacts DEF JournalInv
<1>2. ASSUME log' = log, config' = config PROVE LogInv'
  BY <1>2 DEF LogInv
<1>3. CASE UNCHANGED vars
  BY <1>2, <1>3 DEF vars, log
<1>4. CASE Start
  BY <1>2, <1>4 DEF Start, log
<1>5. CASE \E x \in world.extensions, rewired \in world.rewired : Resume(x, rewired)
  <2>1. PICK x \in world.extensions, rewired \in world.rewired : Resume(x, rewired)
    BY <1>5
  <2>2. SUFFICES ASSUME Markers(log') = {} PROVE LogInv'
    BY DEF LogInv
  <2>3. config' = config
    BY <2>1 DEF Resume
  <2>4. /\ Markers(log) = {} /\ Replay(config, log') = Replay(config, log)
        /\ \/ log' = log
           \/ log' = Append(log, Entry(Len(log) + 1, [tag |-> "DEGRADED_ESCALATED"],
                                     Replay(config, log').tag))
    BY <2>1, <2>2, ResumeUnmarked
  <2>5. CASE log' = log
    BY <1>2, <2>3, <2>5
  <2>6. CASE log' # log
    <3> DEFINE z == Entry(Len(log) + 1, [tag |-> "DEGRADED_ESCALATED"], Replay(config, log').tag)
    <3>1. log' = Append(log, z)
      BY <2>4, <2>6
    <3>2. z.after = Replay(config, log').tag /\ EventOK(z.event)
      BY DEF Entry, EventOK, DriverOnlyTags
    <3> HIDE DEF z
    <3>3. Len(log') = Len(log) + 1 /\ log'[Len(log) + 1] = z
      BY <1>1, <3>1, <3>2, AppendEntry DEF FileOK
    <3>. QED BY <2>3, <2>4, <3>2, <3>3 DEF LogInv
  <2>. QED BY <2>5, <2>6
<1>6. CASE \E r \in world.results, llm \in world.charges : Perform(r, llm)
  BY <1>2, <1>6 DEF Perform, log
<1>7. CASE Commit
  <2> DEFINE e == proc.pending
             next == Step(Effective, proc.st, e)
             z == Entry(proc.seq + 1, e, next.tag)
  <2>1. /\ proc.up /\ e # NoEvent /\ file' = Appended(file, proc.checked, z)
        /\ proc' = [proc EXCEPT
                     !.st = next, !.pending = NoEvent, !.seq = @ + 1, !.checked = TRUE,
                     !.approver = IF e.tag = "PHASE_ADVANCED" THEN e.tree ELSE @,
                     !.due = CheckpointFollows(e, next)]
    BY <1>7 DEF Commit
  <2>2. EventOK(z.event) /\ z.after = next.tag
    BY <1>1, <2>1 DEF MemoryOK, PendingOK, EventOK, Entry
  <2> HIDE DEF z, next, e
  <2>3. log' = Append(log, z)
    BY <1>1, <2>1, AppendedShape DEF log
  <2>4. proc'.up /\ proc'.st = next
    BY <1>1, <2>1 DEF ProcFields
  <2>. QED BY <2>2, <2>3, <2>4, LogAppended
<1>8. CASE Checkpoint
  <2> DEFINE z == Entry(proc.seq + 1, [tag |-> "CHECKPOINTED", tree |-> tree], proc.st.tag)
  <2>1. /\ proc.up /\ file' = Appended(file, proc.checked, z)
        /\ proc' = [proc EXCEPT !.due = FALSE, !.seq = @ + 1, !.judge = tree]
    BY <1>8 DEF Checkpoint
  <2>2. EventOK(z.event) /\ z.after = proc.st.tag
    BY DEF EventOK, Entry, DriverOnlyTags
  <2> HIDE DEF z
  <2>3. log' = Append(log, z)
    BY <1>1, <2>1, AppendedShape DEF log
  <2>4. proc'.up /\ proc'.st = proc.st
    BY <1>1, <2>1 DEF ProcFields
  <2>. QED BY <2>2, <2>3, <2>4, LogAppended
<1>9. CASE \E fault \in world.faults : CheckpointFails(fault)
  <2>1. file' = file /\ config' = config
    BY <1>9 DEF CheckpointFails
  <2>. QED BY <1>2, <2>1 DEF log
<1>10. CASE CommitTorn \/ Stop
  <2>1. file' \in {file, [file EXCEPT !.torn = TRUE]} /\ config' = config
    BY <1>10 DEF CommitTorn, Stop
  <2>2. log' = log
    BY <1>1, <2>1 DEF FileOK, log
  <2>. QED BY <1>2, <2>1, <2>2
<1>. QED BY <1>3, <1>4, <1>5, <1>6, <1>7, <1>8, <1>9, <1>10 DEF Next

(* A function of nothing is the empty overlay. *)
LEMMA NothingOverlaid == \A f : DOMAIN f = {} /\ f = [k \in DOMAIN f |-> f[k]] => f = NoOverlay
<1> SUFFICES ASSUME NEW f, DOMAIN f = {}, f = [k \in DOMAIN f |-> f[k]] PROVE f = NoOverlay
  OBVIOUS
<1> DEFINE o == << >>
<1>1. o \in Seq({})
  BY EmptySeq
<1>2. Len(o) = 0
  BY EmptySeq
<1>3. o = [k \in 1 .. Len(o) |-> o[k]] /\ DOMAIN o = 1 .. Len(o)
  <2> HIDE DEF o
  <2>1. o \in [1 .. Len(o) -> {}] /\ DOMAIN o = 1 .. Len(o)
    BY <1>1, LenProperties
  <2>. QED BY <2>1
<1> HIDE DEF o
<1>4. DOMAIN o = {}
  BY <1>2, <1>3
<1>5. o = [k \in {} |-> o[k]]
  BY <1>3, <1>4
<1>6. f = [k \in {} |-> f[k]]
  OBVIOUS
<1>7. [k \in {} |-> f[k]] = [k \in {} |-> o[k]]
  OBVIOUS
<1>. QED BY <1>5, <1>6, <1>7 DEF o, NoOverlay

(* What relief carries: the streaks banked, over the header's thresholds. *)
LEMMA ReliefFields ==
  ASSUME NEW c, ConfigOK(c), NEW l, EntriesOK(l), NEW o, o = ResumeStreakRelief(c, l)
  PROVE  /\ o = [k \in DOMAIN o |-> o[k]]
         /\ DOMAIN o \subseteq {"harnessCrashThreshold", "unevaluableThreshold",
                                "repeatFailureThreshold"}
         /\ \A k \in DOMAIN o : o[k] >= c[k]
         /\ ~(l # << >> /\ l[Len(l)].after = "ABORTED") => o = NoOverlay
         /\ l # << >> /\ l[Len(l)].after = "ABORTED" =>
              /\ "harnessCrashThreshold" \in DOMAIN o <=> TrailingCrashStreak(l) > 0
              /\ "unevaluableThreshold" \in DOMAIN o <=> TrailingUnevaluableStreak(l) > 0
              /\ ~Adjudicated(l) =>
                   ("repeatFailureThreshold" \in DOMAIN o <=> TrailingRepeatStreak(l) > 1)
              /\ "harnessCrashThreshold" \in DOMAIN o =>
                   o.harnessCrashThreshold = c.harnessCrashThreshold + TrailingCrashStreak(l)
              /\ "unevaluableThreshold" \in DOMAIN o =>
                   o.unevaluableThreshold = c.unevaluableThreshold + TrailingUnevaluableStreak(l)
              /\ ~Adjudicated(l) /\ "repeatFailureThreshold" \in DOMAIN o =>
                   o.repeatFailureThreshold = c.repeatFailureThreshold + TrailingRepeatStreak(l)
<1> DEFINE crash  == TrailingCrashStreak(l)
           uneval == TrailingUnevaluableStreak(l)
           repeat == IF Adjudicated(l) THEN 0 ELSE TrailingRepeatStreak(l)
           raised == [harnessCrashThreshold  |-> c.harnessCrashThreshold + crash,
                      unevaluableThreshold   |-> c.unevaluableThreshold + uneval,
                      repeatFailureThreshold |-> c.repeatFailureThreshold + repeat]
           fields == { k \in DOMAIN raised :
                         \/ k = "harnessCrashThreshold"  /\ crash > 0
                         \/ k = "unevaluableThreshold"   /\ uneval > 0
                         \/ k = "repeatFailureThreshold" /\ repeat > 1 }
           relief == [k \in fields |-> raised[k]]
<1>1. crash \in Nat /\ uneval \in Nat /\ repeat \in Nat
  BY StreakTypes
<1>2. /\ c.harnessCrashThreshold \in Nat /\ c.unevaluableThreshold \in Nat
      /\ c.repeatFailureThreshold \in Nat
  BY KnobTypes
<1>3. o = IF l # << >> /\ l[Len(l)].after = "ABORTED" THEN relief ELSE NoOverlay
  BY DEF ResumeStreakRelief
<1>4. DOMAIN NoOverlay = {} /\ NoOverlay = [k \in DOMAIN NoOverlay |-> NoOverlay[k]]
  <2>1. << >> \in Seq({}) /\ Len(<< >>) = 0
    BY EmptySeq
  <2>2. << >> \in [1 .. Len(<< >>) -> {}] /\ DOMAIN << >> = 1 .. Len(<< >>)
    BY <2>1, LenProperties
  <2>. QED BY <2>1, <2>2 DEF NoOverlay
<1>5. CASE ~(l # << >> /\ l[Len(l)].after = "ABORTED")
  BY <1>3, <1>4, <1>5
<1>6. CASE l # << >> /\ l[Len(l)].after = "ABORTED"
  <2>1. o = relief
    BY <1>3, <1>6
  <2> HIDE DEF crash, uneval, repeat
  <2>2. /\ DOMAIN raised = {"harnessCrashThreshold", "unevaluableThreshold",
                            "repeatFailureThreshold"}
        /\ raised.harnessCrashThreshold = c.harnessCrashThreshold + crash
        /\ raised.unevaluableThreshold = c.unevaluableThreshold + uneval
        /\ raised.repeatFailureThreshold = c.repeatFailureThreshold + repeat
    OBVIOUS
  <2> HIDE DEF raised
  <2>3. /\ o = [k \in DOMAIN o |-> o[k]] /\ DOMAIN o = fields
        /\ \A k \in DOMAIN o : o[k] = raised[k]
    BY <2>1
  <2>4. /\ "harnessCrashThreshold" \in DOMAIN o <=> crash > 0
        /\ "unevaluableThreshold" \in DOMAIN o <=> uneval > 0
        /\ "repeatFailureThreshold" \in DOMAIN o <=> repeat > 1
    BY <2>2, <2>3
  <2>5. \A k \in DOMAIN o : o[k] >= c[k]
    <3>1. ASSUME NEW k \in DOMAIN o PROVE o[k] >= c[k]
      <4>1. k \in {"harnessCrashThreshold", "unevaluableThreshold", "repeatFailureThreshold"}
        BY <2>2, <2>3
      <4>2. o[k] = raised[k]
        BY <2>3
      <4>. QED BY <1>1, <1>2, <2>2, <4>1, <4>2
    <3>. QED BY <3>1
  <2>6. ~Adjudicated(l) => repeat = TrailingRepeatStreak(l)
    BY DEF repeat
  <2>. QED BY <1>6, <2>2, <2>3, <2>4, <2>5, <2>6 DEF crash, uneval
<1>. QED BY <1>5, <1>6

(* What a first resume makes of the log, and what is in force from then on. *)
LEMMA FirstExtension ==
  ASSUME ConfigOK(config), NEW l, EntriesOK(l), Markers(l) = {}, NEW x, OverlayOK(x.overlay),
         x = [overlay |-> x.overlay, note |-> x.note],
         NEW o, o = Overlaid(ResumeStreakRelief(config, l), x.overlay),
         NEW g, g = Extended(l, Extension(l, x)), NEW d, d = ExtendedRunConfig(config, g)
  PROVE  /\ \/ g = l /\ o = NoOverlay /\ ~x.note
            \/ \E z : g = Append(l, z) /\ z.event.tag = "RUN_EXTENDED" /\ EventOK(z.event)
         /\ DOMAIN d = DOMAIN config
         /\ \A k \in DOMAIN config : d[k] = IF k \in DOMAIN o THEN o[k] ELSE config[k]
<1> DEFINE y == Extension(l, x)
           marker == [tag |-> "RUN_EXTENDED", overlay |-> y.overlay, note |-> y.note]
           tag == Replay(config, Append(l, Entry(Len(l) + 1, marker, "COMPILING"))).tag
           z == Entry(Len(l) + 1, marker, tag)
<1>1. y.overlay = o /\ y.note = x.note
  BY DEF Extension
<1>2. OverlayOK(o)
  BY ReliefType, OverlaidType
<1> HIDE DEF y
<1>3. g = IF ~HasExtension(y) THEN l ELSE Append(l, z)
  BY DEF Extended, y
<1>4. EventOK(marker) /\ marker.tag = "RUN_EXTENDED" /\ marker.overlay = o
  BY <1>1, <1>2 DEF EventOK, DriverOnlyTags
<1> HIDE DEF marker, tag
<1>5. z.event = marker
  BY DEF Entry
<1> HIDE DEF z
<1>6. CASE ~HasExtension(y)
  <2>1. g = l /\ o = NoOverlay /\ ~x.note
    BY <1>1, <1>3, <1>6 DEF HasExtension
  <2>2. d = config
    BY <2>1 DEF ExtendedRunConfig
  <2>3. DOMAIN o = {}
    <3>1. << >> \in Seq({}) /\ Len(<< >>) = 0
      BY EmptySeq
    <3>2. DOMAIN << >> = 1 .. Len(<< >>)
      BY <3>1, LenProperties
    <3>. QED BY <2>1, <3>1, <3>2 DEF NoOverlay
  <2>. QED BY <2>1, <2>2, <2>3
<1>7. CASE HasExtension(y)
  <2>1. g = Append(l, z)
    BY <1>3, <1>7
  <2>2. /\ Len(l) \in Nat /\ DOMAIN l = 1 .. Len(l) /\ DOMAIN g = 1 .. (Len(l) + 1)
        /\ \A i \in 1 .. Len(l) : g[i] = l[i]
        /\ g[Len(l) + 1] = z
    BY <1>4, <1>5, <2>1, AppendEntry
  <2> DEFINE n == Len(l) + 1
             carrying(k) == { i \in Markers(g) : k \in DOMAIN g[i].event.overlay }
  <2>3. Markers(g) = {n} /\ g[n].event.overlay = o
    BY <1>4, <1>5, <2>2 DEF Markers
  <2>4. n \in Int
    BY <2>2
  <2>5. d = [k \in DOMAIN config |-> IF carrying(k) = {} THEN config[k]
                                    ELSE g[Max(carrying(k))].event.overlay[k]]
    BY <2>3 DEF ExtendedRunConfig
  <2> HIDE DEF n
  <2>6. ASSUME NEW k \in DOMAIN config PROVE d[k] = IF k \in DOMAIN o THEN o[k] ELSE config[k]
    <3>1. CASE k \in DOMAIN o
      <4>1. carrying(k) = {n}
        BY <2>3, <3>1
      <4>2. Max({n}) = n
        BY <2>4, MaxIs
      <4>3. d[k] = g[Max(carrying(k))].event.overlay[k]
        BY <2>5, <4>1
      <4>. QED BY <2>3, <3>1, <4>1, <4>2, <4>3
    <3>2. CASE k \notin DOMAIN o
      <4>1. carrying(k) = {}
        BY <2>3, <3>2
      <4>. QED BY <2>5, <3>2, <4>1
    <3>. QED BY <3>1, <3>2
  <2>7. DOMAIN d = DOMAIN config
    BY <2>5
  <2>8. \E w : g = Append(l, w) /\ w.event.tag = "RUN_EXTENDED" /\ EventOK(w.event)
    BY <1>4, <1>5, <2>1
  <2>. QED BY <2>6, <2>7, <2>8
<1>. QED BY <1>6, <1>7

(* A first resume that may only go further folds. *)
LEMMA FirstFolds ==
  ASSUME JournalInv, LogInv
  PROVE  FirstResumeFolds
<1> SUFFICES ASSUME Markers(log) = {}, ~config.autoRemediate, NEW x \in world.extensions,
                    Furthers(config, Overlaid(config, x.overlay))
             PROVE  ResumedAs(x) # Invalid
  BY DEF FirstResumeFolds
<1>1. /\ ConfigOK(config) /\ EntriesOK(log) /\ OverlayOK(x.overlay)
      /\ x = [overlay |-> x.overlay, note |-> x.note] /\ Replay(config, log) # Invalid
  BY ScenarioFacts DEF JournalInv, FileOK, WorldOK, LogInv
<1> DEFINE r == ResumeStreakRelief(config, log)
           o == Overlaid(r, x.overlay)
           g == Extended(log, Extension(log, x))
           d == ExtendedRunConfig(config, g)
           v == Overlaid(config, x.overlay)
<1>2. /\ \/ g = log
         \/ \E z : g = Append(log, z) /\ z.event.tag = "RUN_EXTENDED" /\ EventOK(z.event)
      /\ \A k \in DOMAIN config : d[k] = IF k \in DOMAIN o THEN o[k] ELSE config[k]
  BY <1>1, FirstExtension
<1>3. /\ DOMAIN r \subseteq {"harnessCrashThreshold", "unevaluableThreshold",
                            "repeatFailureThreshold"}
      /\ \A k \in DOMAIN r : r[k] >= config[k]
  BY <1>1, ReliefFields
<1>4. /\ DOMAIN o = DOMAIN r \cup DOMAIN x.overlay
      /\ \A k \in DOMAIN o : o[k] = IF k \in DOMAIN x.overlay THEN x.overlay[k] ELSE r[k]
      /\ \A k \in DOMAIN config :
           v[k] = IF k \in DOMAIN x.overlay THEN x.overlay[k] ELSE config[k]
  BY DEF Overlaid
<1> HIDE DEF r, o, g
<1>5. CASE g = log
  BY <1>1, <1>5 DEF ResumedAs, g
<1>6. CASE g # log
  <2>1. PICK z : g = Append(log, z) /\ z.event.tag = "RUN_EXTENDED" /\ EventOK(z.event)
    BY <1>2, <1>6
  <2>2. EntriesOK(g)
    BY <1>1, <2>1, AppendEntry
  <2>3. ConfigOK(d) /\ \A k \in DOMAIN Knobs \ Extendable : d[k] = config[k]
    BY <1>1, <2>2, EffectiveType
  <2>4. DOMAIN config = DOMAIN Knobs
        /\ {"maxIterations", "repeatFailureThreshold", "harnessCrashThreshold",
            "unevaluableThreshold", "noDiff", "oscillation"} \subseteq DOMAIN Knobs
    BY <1>1 DEF ConfigOK, Knobs
  <2>5. /\ config.maxIterations \in Nat /\ config.repeatFailureThreshold \in Nat
        /\ config.harnessCrashThreshold \in Nat /\ config.unevaluableThreshold \in Nat
    BY <1>1, KnobTypes
  <2> HIDE DEF d, v
  <2>6. ASSUME NEW k \in {"maxIterations", "repeatFailureThreshold", "harnessCrashThreshold",
                          "unevaluableThreshold"}
        PROVE  d[k] >= config[k]
    <3>1. k \in DOMAIN config /\ config[k] \in Nat
      BY <2>4, <2>5
    <3>2. CASE k \in DOMAIN x.overlay
      <4>1. d[k] = v[k]
        BY <1>2, <1>4, <3>1, <3>2
      <4>. QED BY <4>1 DEF Furthers, v
    <3>3. CASE k \notin DOMAIN x.overlay /\ k \in DOMAIN r
      <4>1. d[k] = r[k]
        BY <1>2, <1>4, <3>1, <3>3
      <4>. QED BY <1>3, <3>3, <4>1
    <3>4. CASE k \notin DOMAIN x.overlay /\ k \notin DOMAIN r
      <4>1. d[k] = config[k]
        BY <1>2, <1>4, <3>1, <3>4
      <4>. QED BY <3>1, <4>1
    <3>. QED BY <3>2, <3>3, <3>4
  <2>7. d.noDiff = v.noDiff /\ d.oscillation = v.oscillation
    <3>1. ASSUME NEW k \in {"noDiff", "oscillation"} PROVE d[k] = v[k]
      <4>1. k \in DOMAIN config /\ k \notin DOMAIN r
        BY <1>3, <2>4
      <4>. QED BY <1>2, <1>4, <4>1
    <3>. QED BY <3>1
  <2>8. Furthers(config, d)
    <3>1. Furthers(config, v)
      BY DEF v
    <3>. QED BY <2>6, <2>7, <3>1 DEF Furthers
  <2>9. Further(config, d)
    BY <1>1, <2>3, <2>8 DEF Further
  <2>10. Replay(config, g) # Invalid
    BY <1>1, <2>1, <2>9, FoldFurther DEF d
  <2>. QED BY <2>10 DEF ResumedAs, g
<1>. QED BY <1>5, <1>6

(* The streaks relief measures are the ones the log ends with. *)
LEMMA StreaksAreTrailing ==
  ASSUME NEW l, EntriesOK(l), NEW n, n = Len(l)
  PROVE  /\ TrailingCrashStreak(l) = Cardinality(Trailing(l, n, "AGENT_RAN", Crashes(l)))
         /\ TrailingUnevaluableStreak(l) = Cardinality(Trailing(l, n, "VERIFIED", Unevaluables(l)))
         /\ \A v : Trailing(l, n, "VERIFIED", Reds(l, v)) # {} =>
              TrailingRepeatStreak(l) = Cardinality(Trailing(l, n, "VERIFIED", Reds(l, v)))
<1>1. n \in Nat /\ DOMAIN l = 1 .. n
  BY SequenceShape DEF EntriesOK
<1> DEFINE turns(tag) == { i \in DOMAIN l : l[i].event.tag = tag }
<1>2. ASSUME NEW tag, NEW G
      PROVE  Trailing(l, n, tag, G) =
               { i \in turns(tag) : \A j \in turns(tag) : i <= j => j \in G }
  BY <1>1 DEF Trailing
<1>3. TrailingCrashStreak(l) = Cardinality(Trailing(l, n, "AGENT_RAN", Crashes(l)))
  <2>1. { i \in turns("AGENT_RAN") : \A j \in turns("AGENT_RAN") : i <= j => j \in Crashes(l) }
        = { i \in turns("AGENT_RAN") :
              \A j \in turns("AGENT_RAN") : i <= j => l[j].event.status = "crashed" }
    BY DEF Crashes
  <2>. QED BY <1>2, <2>1 DEF TrailingCrashStreak, TrailingStreak
<1>4. TrailingUnevaluableStreak(l) = Cardinality(Trailing(l, n, "VERIFIED", Unevaluables(l)))
  <2>1. { i \in turns("VERIFIED") : \A j \in turns("VERIFIED") : i <= j => j \in Unevaluables(l) }
        = { i \in turns("VERIFIED") :
              \A j \in turns("VERIFIED") :
                i <= j => ~l[j].event.pass /\ ~l[j].event.evaluable }
    BY DEF Unevaluables
  <2>. QED BY <1>2, <2>1 DEF TrailingUnevaluableStreak, TrailingStreak
<1>5. ASSUME NEW v, Trailing(l, n, "VERIFIED", Reds(l, v)) # {}
      PROVE  TrailingRepeatStreak(l) = Cardinality(Trailing(l, n, "VERIFIED", Reds(l, v)))
  <2> DEFINE verdicts == { i \in DOMAIN l : l[i].event.tag = "VERIFIED" }
             last == l[Max(verdicts)].event
  <2>1. PICK p : p \in Trailing(l, n, "VERIFIED", Reds(l, v))
    BY <1>5
  <2>2. p \in verdicts /\ \A j \in verdicts : p <= j => j \in Reds(l, v)
    BY <1>2, <2>1
  <2>3. verdicts \subseteq 0 .. n /\ verdicts # {}
    BY <1>1, <2>2
  <2>4. Max(verdicts) \in verdicts /\ \A j \in verdicts : j <= Max(verdicts)
    <3> HIDE DEF verdicts
    <3>. QED BY <1>1, <2>3, MaxOfPositions
  <2>5. Max(verdicts) \in Reds(l, v)
    <3> HIDE DEF verdicts
    <3>. QED BY <2>2, <2>4
  <2>6. ~last.pass /\ NormalizeDetail(last.detail) = v
    <3> HIDE DEF verdicts
    <3>. QED BY <2>5 DEF Reds
  <2>7. { i \in verdicts : \A j \in verdicts : i <= j => j \in Reds(l, v) }
        = { i \in verdicts :
              \A j \in verdicts :
                i <= j => ~l[j].event.pass
                          /\ NormalizeDetail(l[j].event.detail) = NormalizeDetail(last.detail) }
    <3>1. \A j \in verdicts :
            j \in Reds(l, v) <=> ~l[j].event.pass
                                 /\ NormalizeDetail(l[j].event.detail) = NormalizeDetail(last.detail)
      <4>1. \A j \in verdicts : j \in DOMAIN l
        OBVIOUS
      <4> HIDE DEF verdicts, last
      <4>. QED BY <2>6, <4>1 DEF Reds
    <3> HIDE DEF verdicts, last
    <3>. QED BY <3>1
  <2>. QED BY <1>2, <2>3, <2>6, <2>7 DEF TrailingRepeatStreak, TrailingStreak
<1>. QED BY <1>3, <1>4, <1>5

(* A marker is no turn and no verdict: the streaks are those before it. *)
LEMMA MarkedStreaks ==
  ASSUME NEW l, EntriesOK(l), NEW z, EventOK(z.event), z.event.tag = "RUN_EXTENDED",
         NEW g, g = Append(l, z)
  PROVE  /\ Trailing(g, Len(g), "AGENT_RAN", Crashes(g)) = Trailing(l, Len(l), "AGENT_RAN", Crashes(l))
         /\ Trailing(g, Len(g), "VERIFIED", Unevaluables(g))
              = Trailing(l, Len(l), "VERIFIED", Unevaluables(l))
         /\ \A v : Trailing(g, Len(g), "VERIFIED", Reds(g, v))
                     = Trailing(l, Len(l), "VERIFIED", Reds(l, v))
<1>1. /\ Len(l) \in Nat /\ DOMAIN l = 1 .. Len(l) /\ DOMAIN g = 1 .. (Len(l) + 1)
      /\ \A i \in 1 .. Len(l) : g[i] = l[i]
      /\ g[Len(l) + 1] = z /\ Len(g) = Len(l) + 1
  BY AppendEntry
<1> DEFINE n == Len(l)
<1>2. n \in Nat /\ \A i \in 1 .. (n + 1) : i \in 1 .. n \/ i = n + 1
  BY <1>1
<1> HIDE DEF n
<1>3. ASSUME NEW tag \in {"AGENT_RAN", "VERIFIED"}, NEW G, NEW H,
             \A k \in 1 .. n : k \in G <=> k \in H
      PROVE  Trailing(g, n + 1, tag, G) = Trailing(l, n, tag, H)
  <2>1. g[n + 1].event.tag # tag /\ \A i \in 1 .. n : g[i] = l[i]
    BY <1>1 DEF n
  <2> DEFINE m == n + 1
  <2>2. n \in Nat /\ m \in Nat /\ n < m /\ \A i \in 1 .. m : i \in 1 .. n \/ i = m
    BY <1>2
  <2> HIDE DEF m
  <2>3. ASSUME NEW u, \A i \in 1 .. n : u[i] = l[i], u[m].event.tag # tag
        PROVE  Trailing(u, m, tag, G) = Trailing(l, n, tag, H)
    <3> DEFINE A == Trailing(u, m, tag, G)
               B == Trailing(l, n, tag, H)
    <3>1. ASSUME NEW j \in A PROVE j \in B
      <4>1. /\ j \in 1 .. m /\ u[j].event.tag = tag
            /\ \A k \in j .. m : u[k].event.tag = tag => k \in G
        BY <3>1 DEF Trailing
      <4>2. j \in 1 .. n /\ l[j].event.tag = tag
        BY <2>2, <2>3, <4>1
      <4>3. ASSUME NEW k \in j .. n, l[k].event.tag = tag PROVE k \in H
        <5>1. k \in 1 .. n /\ k \in j .. m
          BY <2>2, <2>3, <4>2, <4>3
        <5>. QED BY <1>3, <2>3, <4>1, <4>3, <5>1
      <4>. QED BY <4>2, <4>3 DEF Trailing
    <3>2. ASSUME NEW j \in B PROVE j \in A
      <4>1. /\ j \in 1 .. n /\ l[j].event.tag = tag
            /\ \A k \in j .. n : l[k].event.tag = tag => k \in H
        BY <3>2 DEF Trailing
      <4>2. j \in 1 .. m /\ u[j].event.tag = tag
        BY <2>2, <2>3, <4>1
      <4>3. ASSUME NEW k \in j .. m, u[k].event.tag = tag PROVE k \in G
        <5>1. k # m
          BY <2>3, <4>3
        <5>2. k \in 1 .. n /\ k \in j .. n
          BY <2>2, <2>3, <4>1, <5>1
        <5>. QED BY <1>3, <2>3, <4>1, <4>3, <5>2
      <4>. QED BY <4>2, <4>3 DEF Trailing
    <3>. QED BY <3>1, <3>2
  <2>4. g[m].event.tag # tag
    BY <2>1 DEF m
  <2>5. Trailing(g, m, tag, G) = Trailing(l, n, tag, H)
    BY <2>1, <2>3, <2>4
  <2>. QED BY <2>5 DEF m
<1>4. \A k \in 1 .. n : /\ k \in Crashes(g) <=> k \in Crashes(l)
                        /\ k \in Unevaluables(g) <=> k \in Unevaluables(l)
                        /\ \A v : k \in Reds(g, v) <=> k \in Reds(l, v)
  <2>1. \A k \in 1 .. n : k \in DOMAIN l /\ k \in DOMAIN g /\ g[k] = l[k]
    BY <1>1 DEF n
  <2>. QED BY <2>1 DEF Crashes, Unevaluables, Reds
<1>5. Len(g) = n + 1 /\ Len(l) = n
  BY <1>1 DEF n
<1>. QED BY <1>3, <1>4, <1>5

(* An adjudication ends the run, with a verdict on the contract. *)
LEMMA AdjudicatedReason ==
  ASSUME NEW c, ConfigOK(c), NEW l, EntriesOK(l), Adjudicated(l)
  PROVE  Replay(c, l).reason \notin {"crash", "unevaluable", "repeat"}
<1> DEFINE eff == ExtendedRunConfig(c, l)
           n == Len(l)
           m == LastFoldedIndex(l)
           f == Fold(c, l)
<1>1. PICK i \in DOMAIN l : l[i].event.tag = "CONTRACT_ADJUDICATED"
  BY DEF Adjudicated
<1>2. i \in Folded(l) /\ n \in Nat /\ DOMAIN l = 1 .. n
  BY <1>1, SequenceShape DEF Folded, DriverOnlyTags, EntriesOK
<1>3. CASE Replay(c, l) = Invalid
  BY <1>3 DEF Invalid, State
<1>4. CASE Replay(c, l) # Invalid
  <2>1. /\ f[i] = FoldEntry(c, l, i, f[i - 1]) /\ ConfigOK(eff)
        /\ f[i] # Invalid
    <3>1. i \in 1 .. n /\ i \in 0 .. n
      BY <1>2
    <3>. QED BY <1>4, <3>1, FoldRecurs, FoldShape, EffectiveType DEF EntriesOK
  <2> DEFINE e == l[i].event
             judged == IF BudgetExtended(l) THEN RejudgeBudget(eff, e) ELSE e
             d == ConfigAt(c, eff, l, i)
  <2>2. judged.tag = "CONTRACT_ADJUDICATED"
    BY <1>1 DEF RejudgeBudget
  <2>3. f[i] = StepOrThrow(d, f[i - 1], judged)
    BY <1>1, <2>1 DEF FoldEntry, DriverOnlyTags
  <2> HIDE DEF judged, d, f
  <2>4. judged.tag \in EventsOf(f[i - 1].tag) /\ f[i] = Step(d, f[i - 1], judged)
    BY <2>1, <2>3 DEF StepOrThrow
  <2>5. f[i - 1].tag = "ADJUDICATING"
    BY <2>2, <2>4 DEF EventsOf
  <2>6. f[i].tag = "ABORTED" /\ f[i].reason \in {"contract-defective", "contract-sound"}
    BY <2>4, <2>5 DEF Step, StepAdjudicating, Stopped, State
  <2>7. i = m
    <3>1. SUFFICES ASSUME i # m PROVE FALSE
      OBVIOUS
    <3>2. PICK j \in Folded(l) : l[j].event.tag \in EventsOf(f[i].tag)
      BY <1>2, <1>4, <3>1, NextFolded DEF f
    <3>. QED BY <2>6, <3>2 DEF EventsOf
  <2>8. Replay(c, l) = f[m]
    BY <1>2, TailFold DEF f
  <2>. QED BY <2>6, <2>7, <2>8
<1>. QED BY <1>3, <1>4

(* The first resume does not end in the detector that had tripped. *)
LEMMA ReliefBuys ==
  ASSUME JournalInv, LogInv
  PROVE  ReliefBuysAStreak
<1> SUFFICES ASSUME ~proc.up, Markers(log) = {}, ~config.autoRemediate,
                    ResumedAs(Unextended).reason \in {"crash", "unevaluable", "repeat"}
             PROVE  FALSE
  BY DEF ReliefBuysAStreak
<1> DEFINE x == Unextended
           r == ResumeStreakRelief(config, log)
           o == Overlaid(r, x.overlay)
           g == Extended(log, Extension(log, x))
           d == ExtendedRunConfig(config, g)
           t == Replay(config, g)
<1>1. /\ ConfigOK(config) /\ EntriesOK(log) /\ Replay(config, log) # Invalid
      /\ log # << >> => log[Len(log)].after = Replay(config, log).tag
      /\ Len(log) \in Nat /\ DOMAIN log = 1 .. Len(log)
  BY ScenarioFacts, SequenceShape DEF JournalInv, FileOK, LogInv, EntriesOK
<1>2. DOMAIN NoOverlay = {} /\ OverlayOK(NoOverlay)
  <2>1. << >> \in Seq({}) /\ Len(<< >>) = 0
    BY EmptySeq
  <2>2. DOMAIN << >> = 1 .. Len(<< >>)
    BY <2>1, LenProperties
  <2>. QED BY <2>1, <2>2 DEF NoOverlay, OverlayOK
<1>3. x = [overlay |-> x.overlay, note |-> x.note] /\ x.overlay = NoOverlay /\ x.note = FALSE
  BY DEF Unextended
<1>6. t.reason \in {"crash", "unevaluable", "repeat"}
  BY DEF ResumedAs
<1> HIDE DEF x
<1>4. /\ \/ g = log /\ o = NoOverlay
         \/ \E z : g = Append(log, z) /\ z.event.tag = "RUN_EXTENDED" /\ EventOK(z.event)
      /\ \A k \in DOMAIN config : d[k] = IF k \in DOMAIN o THEN o[k] ELSE config[k]
  BY <1>1, <1>2, <1>3, FirstExtension
<1>5. o = [k \in DOMAIN o |-> o[k]] /\ DOMAIN o = DOMAIN r /\ \A k \in DOMAIN o : o[k] = r[k]
  BY <1>2, <1>3 DEF Overlaid
<1>7. EntriesOK(g)
  <2> HIDE DEF g, d, o
  <2>1. CASE g = log
    BY <1>1, <2>1
  <2>2. CASE g # log
    <3>1. PICK z : g = Append(log, z) /\ z.event.tag = "RUN_EXTENDED" /\ EventOK(z.event)
      BY <1>4, <2>2
    <3>. QED BY <1>1, <3>1, AppendEntry
  <2>. QED BY <2>1, <2>2
<1>8. Backed(d, t, g, Len(g))
  BY <1>1, <1>7, ReplayBacked
<1>9. /\ Trailing(g, Len(g), "AGENT_RAN", Crashes(g))
           = Trailing(log, Len(log), "AGENT_RAN", Crashes(log))
      /\ Trailing(g, Len(g), "VERIFIED", Unevaluables(g))
           = Trailing(log, Len(log), "VERIFIED", Unevaluables(log))
      /\ \A v : Trailing(g, Len(g), "VERIFIED", Reds(g, v))
                  = Trailing(log, Len(log), "VERIFIED", Reds(log, v))
  BY <1>1, <1>4, MarkedStreaks
<1> HIDE DEF g, d, t, o, r
<1>10. CASE ~(log # << >> /\ log[Len(log)].after = "ABORTED")
  <2>1. DOMAIN o = {}
    BY <1>1, <1>2, <1>5, <1>10, ReliefFields DEF r
  <2>2. o = NoOverlay
    BY <1>5, <2>1, NothingOverlaid
  <2>3. g = log
    <3>1. Extension(log, x) = [x EXCEPT !.overlay = o]
      BY DEF Extension, o, r
    <3>2. ~HasExtension(Extension(log, x))
      BY <1>3, <2>2, <3>1 DEF HasExtension
    <3>. QED BY <3>2 DEF Extended, g
  <2>4. t.tag = "ABORTED" /\ t = Replay(config, log)
    BY <1>6, <1>8, <2>3 DEF Backed, t
  <2>5. log = << >>
    BY <1>1, <1>10, <2>4
  <2>6. t = InitialState(config)
    BY <1>1, <2>4, <2>5, EmptyLog
  <2>. QED BY <1>6, <2>6 DEF InitialState, State
<1>11. CASE log # << >> /\ log[Len(log)].after = "ABORTED"
  <2> DEFINE crash  == Cardinality(Trailing(log, Len(log), "AGENT_RAN", Crashes(log)))
             uneval == Cardinality(Trailing(log, Len(log), "VERIFIED", Unevaluables(log)))
             repeat(v) == Cardinality(Trailing(log, Len(log), "VERIFIED", Reds(log, v)))
  <2>1. crash \in Nat /\ uneval \in Nat /\ \A v : repeat(v) \in Nat
    BY <1>1, TrailingFinite
  <2>2. /\ {"harnessCrashThreshold", "unevaluableThreshold", "repeatFailureThreshold"}
             \subseteq DOMAIN config
        /\ config.harnessCrashThreshold \in Nat \ {0, 1}
        /\ config.unevaluableThreshold \in Nat \ {0, 1}
        /\ config.repeatFailureThreshold \in Nat \ {0, 1}
    BY <1>1 DEF ConfigOK, Knobs
  <2>3. crash = TrailingCrashStreak(log) /\ uneval = TrailingUnevaluableStreak(log)
    BY <1>1, StreaksAreTrailing
  <2>4. /\ t.reason = "crash" => d.harnessCrashThreshold <= crash
        /\ t.reason = "unevaluable" => d.unevaluableThreshold <= uneval
        /\ t.reason = "repeat" => \E v : d.repeatFailureThreshold <= repeat(v)
    BY <1>8, <1>9 DEF Backed
  <2>5. /\ "harnessCrashThreshold" \in DOMAIN r <=> TrailingCrashStreak(log) > 0
        /\ "unevaluableThreshold" \in DOMAIN r <=> TrailingUnevaluableStreak(log) > 0
        /\ ~Adjudicated(log) =>
             ("repeatFailureThreshold" \in DOMAIN r <=> TrailingRepeatStreak(log) > 1)
        /\ "harnessCrashThreshold" \in DOMAIN r =>
             r.harnessCrashThreshold = config.harnessCrashThreshold + TrailingCrashStreak(log)
        /\ "unevaluableThreshold" \in DOMAIN r =>
             r.unevaluableThreshold = config.unevaluableThreshold + TrailingUnevaluableStreak(log)
        /\ ~Adjudicated(log) /\ "repeatFailureThreshold" \in DOMAIN r =>
             r.repeatFailureThreshold = config.repeatFailureThreshold + TrailingRepeatStreak(log)
    BY <1>1, <1>11, ReliefFields DEF r
  <2>6. ASSUME NEW k \in {"harnessCrashThreshold", "unevaluableThreshold", "repeatFailureThreshold"}
        PROVE  d[k] = IF k \in DOMAIN r THEN r[k] ELSE config[k]
    BY <1>4, <1>5, <2>2
  <2> HIDE DEF crash, uneval, repeat
  <2>7. CASE t.reason = "crash"
    <3>1. d.harnessCrashThreshold <= crash
      BY <2>4, <2>7
    <3>2. d.harnessCrashThreshold = IF crash > 0 THEN config.harnessCrashThreshold + crash
                                    ELSE config.harnessCrashThreshold
      BY <2>3, <2>5, <2>6
    <3>. QED BY <2>1, <2>2, <3>1, <3>2
  <2>8. CASE t.reason = "unevaluable"
    <3>1. d.unevaluableThreshold <= uneval
      BY <2>4, <2>8
    <3>2. d.unevaluableThreshold = IF uneval > 0 THEN config.unevaluableThreshold + uneval
                                   ELSE config.unevaluableThreshold
      BY <2>3, <2>5, <2>6
    <3>. QED BY <2>1, <2>2, <3>1, <3>2
  <2>9. CASE t.reason = "repeat"
    <3>1. PICK v : d.repeatFailureThreshold <= repeat(v)
      BY <2>4, <2>9
    <3>2. ~Adjudicated(log)
      <4>1. ~Adjudicated(g)
        BY <1>1, <1>6, <1>7, AdjudicatedReason DEF t
      <4>2. ASSUME NEW i \in DOMAIN log, log[i].event.tag = "CONTRACT_ADJUDICATED"
            PROVE  i \in DOMAIN g /\ g[i] = log[i]
        BY <1>1, <1>4, AppendEntry
      <4>. QED BY <4>1, <4>2 DEF Adjudicated
    <3> DEFINE rr == TrailingRepeatStreak(log)
    <3>3. rr \in Nat
      BY <1>1, StreakTypes
    <3>4. repeat(v) > 0 => rr = repeat(v)
      <4>1. ASSUME repeat(v) > 0 PROVE Trailing(log, Len(log), "VERIFIED", Reds(log, v)) # {}
        <5>1. Cardinality({}) = 0
          BY FS_EmptySet
        <5>. QED BY <4>1, <5>1 DEF repeat
      <4>. QED BY <1>1, <4>1, StreaksAreTrailing DEF repeat
    <3>5. d.repeatFailureThreshold = IF rr > 1 THEN config.repeatFailureThreshold + rr
                                     ELSE config.repeatFailureThreshold
      BY <2>5, <2>6, <3>2
    <3> HIDE DEF rr
    <3>6. repeat(v) \in Nat
      BY <2>1
    <3>. QED BY <2>2, <3>1, <3>3, <3>4, <3>5, <3>6
  <2>. QED BY <1>6, <2>7, <2>8, <2>9
<1>. QED BY <1>10, <1>11

(***************************************************************************)
(* A resume goes on with the run: the first one folds, as long as what the *)
(* operator asks for only lets the run go further, it does not end in the  *)
(* counted detector that had tripped, and a note always reaches a worker   *)
(* (driver/resume.ts, runlog/replay.ts, driver/perform.ts).                *)
(***************************************************************************)
THEOREM ResumeHolds == Spec /\ []Tame => []ResumeContinues
<1>1. Init => JournalInv /\ LogInv
  BY InitInv, LogInit
<1>2. JournalInv /\ LogInv /\ Tame /\ [Next]_vars => JournalInv' /\ LogInv'
  BY NextInv, LogNext DEF Tame
<1>3. JournalInv /\ LogInv /\ NotesDelivered => ResumeContinues
  BY FirstFolds, ReliefBuys DEF ResumeContinues
<1>. QED BY <1>1, <1>2, <1>3, NotesHold, PTL DEF Spec
=============================================================================
