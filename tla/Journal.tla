------------------------------- MODULE Journal ------------------------------
(***************************************************************************)
(* The Driver around the reducer (src/src/driver/driver.ts) and the log it *)
(* writes ahead (runlog/file-runlog.ts): perform the command, fold the     *)
(* event, append it, adopt the new state; die anywhere; be resumed with or *)
(* without an extension (driver/resume.ts, bootstrap.ts).  Around the      *)
(* reducer it keeps the two diff baselines (baseline.ts), the token meter  *)
(* (budget.ts) and the operator's note.                                    *)
(*                                                                         *)
(* A result of a command is what the world decides of it; the readings of  *)
(* the tree and of the meter are the Driver's.                             *)
(***************************************************************************)
EXTENDS Replay

CONSTANTS
  Scenarios,   (* pairs of a header configuration and the world of the run *)
  RunStart     (* the baseline and the tree a run starts from *)

(* The result of a command: an event but for what the Driver reads itself. *)
ResultOK(r) ==
  \/ r \in [tag : {"PLAN_FAILED", "PHASE_ADVANCED", "COMPILE_FAILED"}]
  \/ /\ r.tag = "PLAN_COMPILED" /\ r = [tag |-> r.tag, plan |-> r.plan]
     /\ ValidPlan(r.plan)
  \/ r.tag = "CONTRACT_COMPILED" /\ r = [tag |-> r.tag, contract |-> r.contract]
  \/ r \in [tag : {"PLAN_SEAL_DECIDED"}, decision : {"approve", "reject", "revise"}]
  \/ r \in [tag : {"SEAL_DECIDED"}, decision : {"approve", "reject", "revise", "edited"}]
  \/ r \in [tag : {"WORKSPACE_PREPARED"},
            prepared : {"proceed", "tools-missing", "setup-failed", "contract-unsound"}]
  \/ r.tag = "WAVE_RAN" /\ r = [tag |-> r.tag, merged |-> r.merged, hash |-> r.hash]
  \/ /\ r.tag = "AGENT_RAN"
     /\ r \in [tag : {r.tag}, status : RunStatuses, hash : {r.hash},
               tokensUsed : Nat, abandoned : Nat]
  \/ r \in [tag : {"VERIFIED"}, pass : {TRUE}]
  \/ /\ r.tag = "VERIFIED"
     /\ r \in [tag : {r.tag}, pass : {FALSE}, evaluable : BOOLEAN, detail : {r.detail}]
  \/ r \in [tag : {"SIGNOFF_DECIDED"}, approval : {"approve", "veto"}]
  \/ r \in [tag : {"CONTRACT_ADJUDICATED"}, defective : BOOLEAN]

(* A world: results the commands may have, extensions and rewirings an     *)
(* operator may resume with, the processes there may be, what a command    *)
(* that asks a model may cost, and how a checkpoint may fail.              *)
WorldOK(w) ==
  /\ \A r \in w.results : ResultOK(r)
  /\ \A x \in w.extensions :
       x = [overlay |-> x.overlay, note |-> x.note] /\ OverlayOK(x.overlay) /\ x.note \in BOOLEAN
  /\ w.rewired \subseteq BOOLEAN
  /\ w.processes \in Nat \ {0}
  /\ w.charges \subseteq Nat
  /\ w.faults \subseteq {"unwritten", "torn", "unsynced"}

ASSUME ScenarioAssumption ==
  \A s \in Scenarios :
    s = [config |-> s.config, world |-> s.world] /\ ConfigOK(s.config) /\ WorldOK(s.world)

VARIABLES
  config,      (* the RunConfig in the log's header, written once *)
  world,
  file,        (* the log file: its entries, a torn tail, a fused line *)
  tree,        (* the working tree *)
  proc,        (* the live process's memory, or Down *)
  processes,   (* how many processes have driven the run *)
  run          (* Reducer's state and history, for the refinement only *)

vars == << config, world, file, tree, proc, processes, run >>

NoEvent == [tag |-> "none"]

Down ==
  [up |-> FALSE, st |-> Invalid, pending |-> NoEvent, seq |-> 0, checked |-> FALSE,
   due |-> FALSE, judge |-> RunStart, approver |-> RunStart, note |-> FALSE, meter |-> 0]

log == file.entries

Effective == ExtendedRunConfig(config, log)

-----------------------------------------------------------------------------
(* The log file. *)

BrokenAppended(f, checked, entry) ==
  IF f.torn /\ ~checked
  THEN [f EXCEPT !.torn = FALSE, !.entries = Append(SubSeq(@, 1, Len(@) - 1), entry)]
  ELSE [f EXCEPT !.entries = Append(@, entry)]

(***************************************************************************)
(* The first append of a process truncates a torn tail; a later one that   *)
(* finds a torn tail fuses with it into one line no reader can parse.      *)
(***************************************************************************)
Appended(f, checked, entry) ==
  IF f.torn /\ checked THEN [f EXCEPT !.torn = FALSE, !.fused = TRUE]
  ELSE [f EXCEPT !.torn = FALSE, !.entries = Append(@, entry)]

Entry(seq, event, after) == [seq |-> seq, event |-> event, after |-> after]

-----------------------------------------------------------------------------
(* Starting and resuming. *)

(* Events that carry what their command's calls of a model cost. *)
Charged == {"PLAN_COMPILED", "PLAN_FAILED", "CONTRACT_COMPILED", "COMPILE_FAILED",
            "WORKSPACE_PREPARED", "VERIFIED", "SIGNOFF_DECIDED", "CONTRACT_ADJUDICATED",
            "WAVE_RAN"}

(* The sum over a log leaves the planner's out, though they are in the log. *)
Summed == Charged \ {"PLAN_COMPILED", "PLAN_FAILED"}

SpentBy(entry) ==
  CASE entry.event.tag = "AGENT_RAN" -> entry.event.tokensUsed
    [] entry.event.tag \in Summed    -> entry.event.llm
    [] OTHER                         -> 0

(* The spend the log accounts for. *)
Logged(entries) ==
  LET spent[i \in 0 .. Len(entries)] ==
        IF i = 0 THEN 0 ELSE spent[i - 1] + SpentBy(entries[i])
  IN  spent[Len(entries)]

BrokenPriorSpend(entries) == 0

(* What re-arms the meter of a new process. *)
PriorSpend(entries) == Logged(entries)

(* The relief of the stored log under what the operator asks for. *)
Extension(entries, x) ==
  LET relief == ResumeStreakRelief(config, entries)
  IN  [x EXCEPT !.overlay = Overlaid(relief, @)]

HasExtension(x) == x.overlay # NoOverlay \/ x.note

(* The log with the marker of an extension, if it carries anything. *)
Extended(entries, x) ==
  LET marker == [tag |-> "RUN_EXTENDED", overlay |-> x.overlay, note |-> x.note]
      draft  == Append(entries, Entry(Len(entries) + 1, marker, "COMPILING"))
  IN  IF ~HasExtension(x) THEN entries
      ELSE Append(entries, Entry(Len(entries) + 1, marker, Replay(config, draft).tag))

ReconcileDegraded(entries, rewired, tag) ==
  IF rewired THEN Append(entries, Entry(Len(entries) + 1, [tag |-> "DEGRADED_ESCALATED"], tag))
  ELSE entries

Booted(entries, s, seq, checked) ==
  [Down EXCEPT !.up = TRUE, !.st = s, !.seq = seq, !.checked = checked,
               !.judge = Baseline(entries, RunStart),
               !.approver = PhaseBaseline(entries, RunStart),
               !.note = PendingNote(entries), !.meter = PriorSpend(entries)]

Start ==
  /\ processes = 0
  /\ proc' = Booted(<< >>, InitialState(config), 0, FALSE)
  /\ processes' = 1
  /\ UNCHANGED << config, world, file, tree, run >>

(* Entries are counted, and so is the marker this resume itself appended. *)
ResumedSeq(entries, rewired) == Len(entries) + (IF rewired THEN 1 ELSE 0)

(***************************************************************************)
(* --resume: the marker is written first, then the fold sees it; a fold    *)
(* that throws leaves everything as it was.  A log with a fused line does  *)
(* not read at all.                                                        *)
(***************************************************************************)
Resume(x, rewired) ==
  /\ ~proc.up
  /\ processes \in 1 .. (world.processes - 1)
  /\ ~file.fused
  /\ \E marked \in {Extended(log, Extension(log, x))} :
     \E s \in {Replay(config, marked)} :
     \E final \in {ReconcileDegraded(marked, rewired, s.tag)} :
       /\ s # Invalid
       /\ file' = [file EXCEPT !.entries = final, !.torn = @ /\ final = log]
       /\ proc' = Booted(final, s, ResumedSeq(marked, rewired), final # log)
  /\ processes' = processes + 1
  /\ UNCHANGED << config, world, tree, run >>

(* The process is killed, is interrupted between steps, or has ended the run. *)
Stop ==
  /\ proc.up
  /\ proc' = Down
  /\ UNCHANGED << config, world, file, tree, processes, run >>

-----------------------------------------------------------------------------
(* One step of the loop: perform, fold, append, adopt. *)

(* The tree a performed command leaves behind. *)
TreeAfter(r) == IF r.tag \in {"AGENT_RAN", "WAVE_RAN"} THEN r.hash ELSE tree

(***************************************************************************)
(* A turn is charged with its worker's spend, and with that of the attempt *)
(* it abandoned, which is not logged; any other command with its models'.  *)
(***************************************************************************)
MeterAfter(r, llm) ==
  proc.meter + IF r.tag = "AGENT_RAN" THEN r.tokensUsed + r.abandoned ELSE llm

(* The result and what the Driver read itself: the meter after it was charged. *)
Read(r, llm) ==
  LET budget == MeterAfter(r, llm) >= Effective.tokens
  IN  CASE r.tag = "AGENT_RAN" ->
             Overlaid(r, [prev |-> tree, spent |-> MeterAfter(r, llm), noted |-> proc.note,
                          budget |-> budget])
        [] r.tag \in {"VERIFIED", "SIGNOFF_DECIDED"} -> Overlaid(r, [budget |-> budget])
        [] r.tag \in {"PHASE_ADVANCED", "WAVE_RAN"}  -> Overlaid(r, [tree |-> TreeAfter(r)])
        [] OTHER -> r

(* The event the Driver builds. *)
Event(r, llm) ==
  IF r.tag \in Charged THEN Overlaid(Read(r, llm), [llm |-> llm]) ELSE Read(r, llm)

(***************************************************************************)
(* The effect happens; nothing of it is durable yet.  Boundaries           *)
(* checkpoint.  A contract re-frozen from an operator's edits asks nobody.  *)
(***************************************************************************)
Perform(r, llm) ==
  /\ proc.up /\ proc.pending = NoEvent /\ ~proc.due
  /\ r.tag \in EventsOf(proc.st.tag)
  /\ r.tag = "WAVE_RAN" => r.merged \subseteq proc.st.indices
  /\ llm > 0 => r.tag \in Charged /\ proc.st.cmd # "REFREEZE_CONTRACT"
  /\ proc' = [proc EXCEPT !.pending = Event(r, llm), !.meter = MeterAfter(r, llm),
                          !.note  = @ /\ r.tag # "AGENT_RAN",
                          !.judge = IF r.tag \in {"PHASE_ADVANCED", "WAVE_RAN"}
                                    THEN TreeAfter(r) ELSE @]
  /\ tree' = TreeAfter(r)
  /\ UNCHANGED << config, world, file, processes, run >>

(* Worlds of Reducer in which anything may write to the tree between turns. *)
ReducerWorld(w) ==
  LET of(tag, field) == { r[field] : r \in { q \in w.results : q.tag = tag } }
  IN  [plans     |-> of("PLAN_COMPILED", "plan"),
       contracts |-> of("CONTRACT_COMPILED", "contract"),
       statuses  |-> of("AGENT_RAN", "status"),
       hashes    |-> of("AGENT_RAN", "hash") \cup of("WAVE_RAN", "hash") \cup {RunStart},
       drift     |-> TRUE,
       details   |-> { r.detail : r \in { q \in w.results : q.tag = "VERIFIED" /\ ~q.pass } },
       evaluable |-> BOOLEAN, budgets |-> BOOLEAN]

ReducerScenarios ==
  { [config |-> s.config, world |-> ReducerWorld(s.world)] : s \in Scenarios }

Uninterrupted == INSTANCE Reducer WITH
  Scenarios <- ReducerScenarios, world <- ReducerWorld(world),
  st <- run.st, hist <- run.hist

(* A red verdict or a veto that leads to another turn is checkpointed. *)
CheckpointFollows(e, next) ==
  config.deltaVerify /\ e.tag \in {"VERIFIED", "SIGNOFF_DECIDED"} /\ next.cmd = "RUN_AGENT"

Commit ==
  /\ proc.up /\ proc.pending # NoEvent
  /\ \E e \in {proc.pending} : \E next \in {Step(Effective, proc.st, e)} :
       /\ file' = Appended(file, proc.checked, Entry(proc.seq + 1, e, next.tag))
       /\ proc' = [proc EXCEPT
                     !.st = next, !.pending = NoEvent, !.seq = @ + 1, !.checked = TRUE,
                     !.approver = IF e.tag = "PHASE_ADVANCED" THEN e.tree ELSE @,
                     !.due = CheckpointFollows(e, next)]
       /\ run' = IF Markers(log) = {}
                 THEN [st |-> next, hist |-> Uninterrupted!NextHist(run.hist, run.st, e, next)]
                 ELSE run
  /\ UNCHANGED << config, world, tree, processes >>

(* The append is cut short, or throws: the run stops, its tail torn or not. *)
CommitTorn ==
  /\ proc.up /\ proc.pending # NoEvent
  /\ file' = [file EXCEPT !.torn = TRUE]
  /\ proc' = Down
  /\ UNCHANGED << config, world, tree, processes, run >>

(* --delta-verify: after a continuation, the judge's next diff starts here. *)
Checkpoint ==
  /\ proc.up /\ proc.due
  /\ file' = Appended(file, proc.checked,
                      Entry(proc.seq + 1, [tag |-> "CHECKPOINTED", tree |-> tree], proc.st.tag))
  /\ proc' = [proc EXCEPT !.due = FALSE, !.seq = @ + 1, !.judge = tree]
  /\ UNCHANGED << config, world, tree, processes, run >>

(***************************************************************************)
(* A checkpoint that throws is caught and rolled back, and the run goes    *)
(* on, whatever the append had already put into the file.                  *)
(***************************************************************************)
CheckpointFails(fault) ==
  /\ proc.up /\ proc.due
  /\ file' = CASE fault = "unwritten" -> file
               [] fault = "torn"      -> [file EXCEPT !.torn = TRUE]
               [] fault = "unsynced"  ->
                    Appended(file, proc.checked,
                             Entry(proc.seq + 1, [tag |-> "CHECKPOINTED", tree |-> tree],
                                   proc.st.tag))
  /\ proc' = [proc EXCEPT !.due = FALSE]
  /\ UNCHANGED << config, world, tree, processes, run >>

-----------------------------------------------------------------------------
Init ==
  /\ \E s \in Scenarios : config = s.config /\ world = s.world
  /\ file = [entries |-> << >>, torn |-> FALSE, fused |-> FALSE]
  /\ tree = RunStart
  /\ proc = Down
  /\ processes = 0
  /\ run = [st   |-> InitialState(config),
            hist |-> [Uninterrupted!NoHistory EXCEPT
                        !.todo = IF config.phased THEN {} ELSE {0}]]

Next ==
  \/ Start
  \/ \E x \in world.extensions, rewired \in world.rewired : Resume(x, rewired)
  \/ \E r \in world.results, llm \in world.charges : Perform(r, llm)
  \/ Commit \/ CommitTorn
  \/ Checkpoint \/ (\E fault \in world.faults : CheckpointFails(fault))
  \/ Stop

Spec == Init /\ [][Next]_vars

-----------------------------------------------------------------------------
(* Properties. *)

Idle == proc.up /\ proc.pending = NoEvent

TypeOK ==
  /\ [config |-> config, world |-> world] \in Scenarios
  /\ file.torn \in BOOLEAN /\ file.fused \in BOOLEAN
  /\ processes \in 0 .. world.processes
  /\ proc.up => /\ proc.st # Invalid
                /\ processes > 0
                /\ proc.st.tag \in TerminalTags => proc.pending = NoEvent /\ ~proc.due
  /\ proc.due => config.deltaVerify /\ proc.pending = NoEvent

(* The state and the note still to be delivered. *)
StateMatchesLog ==
  Idle => proc.st = Replay(config, log) /\ proc.note = PendingNote(log)

(***************************************************************************)
(* Both diff baselines too: what the judge and the approver are shown does *)
(* not depend on whether the run was interrupted, and a checkpoint that    *)
(* failed leaves no trace in either.                                       *)
(***************************************************************************)
BaselinesMatchLog ==
  Idle => /\ proc.judge = Baseline(log, RunStart)
          /\ proc.approver = PhaseBaseline(log, RunStart)

(* Entries are numbered without gaps or repeats, across processes and torn tails. *)
SequenceUnbroken == \A i \in DOMAIN log : log[i].seq = i

(***************************************************************************)
(* The log alone determines the run: between two steps what the live       *)
(* process holds in memory is what any reader would fold out of the log,   *)
(* however often the run was killed, resumed and extended before.          *)
(***************************************************************************)
MemoryMatchesLog ==
  /\ TypeOK
  /\ StateMatchesLog
  /\ BaselinesMatchLog
  /\ SequenceUnbroken

(***************************************************************************)
(* Until an operator extends it, an interrupted run is one the reducer     *)
(* could have made in one go: each event it appended is a result of the    *)
(* command the event before it left, whichever processes appended the two. *)
(***************************************************************************)
ImplementsReducer == Uninterrupted!Spec

(* The turn that consumes an operator's note is a turn whose prompt had it. *)
NotesDelivered ==
  \A i \in Markers(log) : \A j \in (i + 1) .. Len(log) :
    /\ log[i].event.note
    /\ log[j].event.tag = "AGENT_RAN"
    /\ \A k \in (i + 1) .. (j - 1) : log[k].event.tag # "AGENT_RAN"
    => log[j].event.noted

(***************************************************************************)
(* The token cap is the run's, not the process's: no turn but the first of *)
(* a contract is started once the log accounts for the cap, the spend of   *)
(* workers, author, verifier and approver counted.                         *)
(***************************************************************************)
SpendWithinCap ==
  /\ Idle
  /\ proc.st.tag = "RUNNING_AGENT" /\ proc.st.ctx.runStatusHistory # << >>
  => Logged(log) < Effective.tokens

(* What the run would be resumed as. *)
ResumedAs(x) == Replay(config, Extended(log, Extension(log, x)))

Unextended == [overlay |-> NoOverlay, note |-> FALSE]

(***************************************************************************)
(* The first resume of a run without self-recovery folds: neither relief   *)
(* nor knobs that only let the run go further undo a decision the log has  *)
(* an outcome of, wherever the run was killed or why ever it ended.        *)
(***************************************************************************)
FirstResumeFolds ==
  ~proc.up /\ Markers(log) = {} /\ ~config.autoRemediate =>
    \A x \in world.extensions :
      Furthers(config, Overlaid(config, x.overlay)) => ResumedAs(x) # Invalid

(***************************************************************************)
(* Resuming an aborted run buys a fresh streak: the first resume does not  *)
(* fold straight back into the counted detector that had tripped.          *)
(***************************************************************************)
ReliefBuysAStreak ==
  ~proc.up /\ Markers(log) = {} /\ ~config.autoRemediate =>
    ResumedAs(Unextended).reason \notin {"crash", "unevaluable", "repeat"}

(***************************************************************************)
(* A resume goes on with the run as the operator was promised: it folds,   *)
(* it does not end where the run had, and its note reaches a worker.       *)
(***************************************************************************)
ResumeContinues ==
  /\ FirstResumeFolds
  /\ ReliefBuysAStreak
  /\ NotesDelivered

=============================================================================
