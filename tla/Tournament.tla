----------------------------- MODULE Tournament -----------------------------
(***************************************************************************)
(* Best-of-N (src/src/driver/best-of-driver.ts, tournament.ts and          *)
(* workspace/git-worktree-host.ts): a turn of the loop is K candidates,    *)
(* each run and scored on its own, their markers appended to the log, one  *)
(* selected and its tree promoted.  Around it runs the reducer of Step; of *)
(* the Driver only what the tournament meets is kept, Journal has the rest.*)
(*                                                                         *)
(* A tree is its tracked files (one value) and the files created beside    *)
(* them, which git does not track.                                         *)
(***************************************************************************)
EXTENDS Replay

CONSTANTS
  Scenarios,      (* pairs of a header configuration and the world of the run *)
  RunStart,       (* the tree of HEAD, which the run starts from *)
  SentinelPrev,   (* the two hashes a tournament that threw reports *)
  SentinelPost,
  Unmetered,      (* a cost the harness did not report *)
  Nothing

(* The result of a command, as the event it becomes. *)
ResultOK(r) ==
  \/ r \in [tag : {"PLAN_FAILED", "PHASE_ADVANCED", "COMPILE_FAILED"}]
  \/ r.tag \in {"PLAN_COMPILED", "WAVE_RAN", "CONTRACT_COMPILED", "CONTRACT_ADJUDICATED"}
  \/ /\ r.tag = "WORKSPACE_PREPARED"
     /\ r.prepared \in {"proceed", "tools-missing", "setup-failed", "contract-unsound"}
  \/ r.tag = "PLAN_SEAL_DECIDED" /\ r.decision \in {"approve", "reject", "revise"}
  \/ r.tag = "SEAL_DECIDED" /\ r.decision \in {"approve", "reject", "revise", "edited"}
  \/ r.tag = "VERIFIED" /\ r.pass \in BOOLEAN /\ r.budget \in BOOLEAN
  \/ r.tag = "SIGNOFF_DECIDED" /\ r.approval \in {"approve", "veto"} /\ r.budget \in BOOLEAN

(* A world: results of the other commands, what a worker may do to a tree, *)
(* how its run may end, be billed and be scored, and what may throw.       *)
ASSUME TournamentAssumption ==
  /\ RunStart = [tracked |-> RunStart.tracked, created |-> RunStart.created]
  /\ SentinelPrev # SentinelPost
  /\ \A s \in Scenarios :
       /\ s = [config |-> s.config, world |-> s.world]
       /\ ConfigOK(s.config)
       /\ \A r \in s.world.results : ResultOK(r)
       /\ s.world.processes \in Nat \ {0}
       /\ s.world.statuses \subseteq RunStatuses
       /\ s.world.depths \subseteq Nat
       /\ s.world.costs \ {Unmetered} \subseteq Nat
       /\ s.world.throws \subseteq {"snapshot", "candidate", "append", "promote"}

VARIABLES
  config, world,
  log,         (* the run log *)
  tree,        (* the canonical working tree *)
  proc,        (* the live process's memory, or Down *)
  processes    (* how many processes have driven the run *)

vars == << config, world, log, tree, proc, processes >>

Down == [up |-> FALSE, st |-> Nothing, seq |-> 0, fan |-> Nothing, turn |-> Nothing]

Indices == 0 .. (config.candidates - 1)

Entry(seq, event, after) == [seq |-> seq, event |-> event, after |-> after]

Marked(event, seq) == Append(log, Entry(seq, event, "RUNNING_AGENT"))

-----------------------------------------------------------------------------
(* Ranking. *)

Cheaper(a, b) ==
  /\ a.cost # Unmetered
  /\ b.cost = Unmetered \/ a.cost < b.cost

(* Deeper up the ladder, then cheaper, then first. *)
Beats(a, b) ==
  \/ a.depth > b.depth
  \/ a.depth = b.depth /\ Cheaper(a, b)
  \/ a.depth = b.depth /\ ~Cheaper(b, a) /\ a.index < b.index

SelectWinner(candidates) ==
  CHOOSE a \in candidates : \A b \in candidates \ {a} : Beats(a, b)

-----------------------------------------------------------------------------
(* What the log knows of an iteration. *)

Logged(n) ==
  { log[i].event.candidate : i \in { j \in DOMAIN log :
      log[j].event.tag = "CANDIDATE_RAN" /\ log[j].event.iteration = n } }

IndicesOf(candidates) == { c.index : c \in candidates }

(* The indices to run: none that is logged, none at all when collapsing. *)
Pending(prior) ==
  IF config.collapse /\ prior # {} THEN {} ELSE Indices \ IndicesOf(prior)

-----------------------------------------------------------------------------
(* The driver around the tournament. *)

Start ==
  /\ processes = 0
  /\ proc' = [Down EXCEPT !.up = TRUE, !.st = InitialState(config)]
  /\ processes' = 1
  /\ UNCHANGED << config, world, log, tree >>

Resume ==
  /\ ~proc.up
  /\ processes \in 1 .. (world.processes - 1)
  /\ proc' = [Down EXCEPT !.up = TRUE, !.st = Replay(config, log), !.seq = Len(log)]
  /\ processes' = processes + 1
  /\ UNCHANGED << config, world, log, tree >>

(* The process dies, and with it every worker and all it has not appended. *)
Stop ==
  /\ proc.up
  /\ proc' = Down
  /\ UNCHANGED << config, world, log, tree, processes >>

Committed(e) ==
  \E next \in {Step(config, proc.st, e)} :
    /\ log' = Append(log, Entry(proc.seq + 1, e, next.tag))
    /\ proc' = [proc EXCEPT !.st = next, !.seq = @ + 1, !.turn = Nothing]

(* Any other command: its effect, its event and its append. *)
PerformOther(r) ==
  /\ proc.up /\ r.tag \in EventsOf(proc.st.tag)
  /\ Committed(IF r.tag = "PHASE_ADVANCED" THEN Overlaid(r, [tree |-> tree]) ELSE r)
  /\ UNCHANGED << config, world, tree, processes >>

-----------------------------------------------------------------------------
(* One tournament. *)

Turn(status, prev, hash) ==
  [tag |-> "AGENT_RAN", status |-> status, prev |-> prev, hash |-> hash, budget |-> FALSE]

FanOut(fan) == [proc EXCEPT !.fan = fan]

(* What has not settled is neither waited for nor marked when it throws. *)
Thrown ==
  /\ proc' = [proc EXCEPT !.fan = Nothing,
                          !.turn = Turn("crashed", SentinelPrev, SentinelPost)]
  /\ UNCHANGED << config, world, log, tree, processes >>

Ready ==
  proc.up /\ proc.st.cmd = "RUN_AGENT_BEST_OF" /\ proc.fan = Nothing /\ proc.turn = Nothing

(* The tree is hashed, the log read back, the missing candidates started. *)
BeginFanOut ==
  /\ Ready
  /\ \E n \in {proc.st.ctx.iteration + 1} : \E prior \in {Logged(n)} :
       proc' = FanOut([iteration |-> n, from |-> tree, prior |-> prior,
                       todo |-> Pending(prior), worked |-> {}, fresh |-> {},
                       unmarked |-> {}, selected |-> FALSE, seq |-> proc.seq])
  /\ UNCHANGED << config, world, log, tree, processes >>

SnapshotThrows == Ready /\ "snapshot" \in world.throws /\ Thrown

(* What a worker's edit makes of the tree it works in. *)
Edited(t, edit) == [tracked |-> edit.tracked, created |-> t.created \cup edit.created]

(***************************************************************************)
(* A worktree is checked out at the active baseline, and the one harness   *)
(* there is runs: it is told nothing of the worktree and works where it    *)
(* was configured to, in the canonical workspace.                          *)
(***************************************************************************)
RunWorker(i, edit, status, cost) ==
  /\ proc.fan # Nothing /\ i \in proc.fan.todo
  /\ proc' = FanOut([proc.fan EXCEPT
       !.todo   = @ \ {i},
       !.worked = @ \cup {[index |-> i, status |-> status, cost |-> cost,
                           tree |-> Baseline(log, RunStart)]}])
  /\ tree' = Edited(tree, edit)
  /\ UNCHANGED << config, world, log, processes >>

Settle(candidate) ==
  FanOut([proc.fan EXCEPT !.todo = @ \ {candidate.index},
                          !.worked   = { w \in @ : w.index # candidate.index },
                          !.fresh    = @ \cup {candidate},
                          !.unmarked = @ \cup {candidate.index}])

(* The worktree is hashed and the frozen ladder run in it. *)
ScoreCandidate(w, depth) ==
  /\ proc.fan # Nothing /\ w \in proc.fan.worked
  /\ proc' = Settle(Overlaid(w, [depth |-> depth]))
  /\ UNCHANGED << config, world, log, tree, processes >>

(* No worktree, a harness that throws, or no hash: red, and billed as unknown. *)
CandidateThrows(i) ==
  /\ "candidate" \in world.throws
  /\ proc.fan # Nothing /\ i \in proc.fan.todo \cup IndicesOf(proc.fan.worked)
  /\ proc' = Settle([index |-> i, status |-> "crashed", cost |-> Unmetered,
                     tree |-> proc.fan.from, depth |-> 0])
  /\ UNCHANGED << config, world, log, tree, processes >>

BrokenAllSettled(fan) == Cardinality(fan.fresh) = config.candidates

(* Promise.all: no marker before the last candidate is in. *)
AllSettled(fan) == fan.todo = {} /\ fan.worked = {}

AppendMarker ==
  /\ proc.fan # Nothing /\ AllSettled(proc.fan) /\ proc.fan.unmarked # {}
  /\ \E c \in proc.fan.fresh :
       /\ c.index = Min(proc.fan.unmarked)
       /\ log' = Marked([tag |-> "CANDIDATE_RAN", iteration |-> proc.fan.iteration,
                         candidate |-> c], proc.fan.seq + 1)
       /\ proc' = FanOut([proc.fan EXCEPT !.unmarked = @ \ {c.index}, !.seq = @ + 1])
  /\ UNCHANGED << config, world, tree, processes >>

BrokenField(fan) == IF fan.fresh # {} THEN fan.fresh ELSE fan.prior

Field(fan) == fan.prior \cup fan.fresh

Select ==
  /\ proc.fan # Nothing /\ AllSettled(proc.fan) /\ proc.fan.unmarked = {}
  /\ ~proc.fan.selected
  /\ \E w \in {SelectWinner(Field(proc.fan))} :
       log' = Marked([tag |-> "CANDIDATE_SELECTED", iteration |-> proc.fan.iteration,
                      winner |-> w.index, tree |-> w.tree], proc.fan.seq + 1)
  /\ proc' = FanOut([proc.fan EXCEPT !.selected = TRUE, !.seq = @ + 1])
  /\ UNCHANGED << config, world, tree, processes >>

AppendThrows ==
  /\ "append" \in world.throws
  /\ proc.fan # Nothing /\ AllSettled(proc.fan) /\ ~proc.fan.selected
  /\ Thrown

BrokenPromoted(t, w) == [tracked |-> t.tracked, created |-> t.created \cup w.created]

(* Checked out over what is there; only files git tracks are ever removed. *)
Promoted(t, w) == [tracked |-> w.tracked, created |-> t.created \cup w.created]

(* The winner's run, as the one turn the reducer sees. *)
TurnOf(fan, w) == Turn(w.status, fan.from, w.tree)

Promote ==
  /\ proc.fan # Nothing /\ proc.fan.selected
  /\ \E w \in {SelectWinner(Field(proc.fan))} :
       /\ tree' = Promoted(tree, w.tree)
       /\ proc' = [proc EXCEPT !.fan = Nothing, !.turn = TurnOf(proc.fan, w),
                               !.seq = proc.fan.seq]
  /\ UNCHANGED << config, world, log, processes >>

PromoteThrows ==
  /\ "promote" \in world.throws
  /\ proc.fan # Nothing /\ proc.fan.selected
  /\ Thrown

CommitTurn ==
  /\ proc.up /\ proc.turn # Nothing
  /\ Committed(proc.turn)
  /\ UNCHANGED << config, world, tree, processes >>

-----------------------------------------------------------------------------
Init ==
  /\ \E s \in Scenarios : config = s.config /\ world = s.world
  /\ log = << >>
  /\ tree = RunStart
  /\ proc = Down
  /\ processes = 0

Candidate ==
  \/ \E i \in Indices, edit \in world.edits, status \in world.statuses, cost \in world.costs :
       RunWorker(i, edit, status, cost)
  \/ proc.fan # Nothing /\ \E w \in proc.fan.worked, depth \in world.depths :
       ScoreCandidate(w, depth)
  \/ \E i \in Indices : CandidateThrows(i)

Conclude ==
  AppendMarker \/ Select \/ AppendThrows \/ Promote \/ PromoteThrows \/ CommitTurn

Next ==
  \/ Start \/ Resume \/ Stop
  \/ \E r \in world.results : PerformOther(r)
  \/ BeginFanOut \/ SnapshotThrows
  \/ Candidate \/ Conclude

Spec == Init /\ [][Next]_vars

(* A harness run and a ladder are bounded by timeouts, and an await settles. *)
FairSpec == Spec /\ WF_vars(Candidate) /\ WF_vars(Conclude)

-----------------------------------------------------------------------------
(* Properties. *)

At(tag) == { i \in DOMAIN log : log[i].event.tag = tag }

(* Where the turn the entry belongs to began: behind the turn before it. *)
TurnBegins(i) == Max({0} \cup { j \in At("AGENT_RAN") : j < i })

TypeOK ==
  /\ [config |-> config, world |-> world] \in Scenarios
  /\ processes \in 0 .. world.processes
  /\ proc.fan # Nothing =>
       LET fan == proc.fan IN
       /\ proc.up /\ proc.turn = Nothing /\ proc.st.tag = "RUNNING_AGENT"
       /\ fan.todo \cap IndicesOf(fan.worked) = {}
       /\ (fan.todo \cup IndicesOf(fan.worked)) \cap IndicesOf(Field(fan)) = {}
       /\ Cardinality(Field(fan)) = Cardinality(IndicesOf(Field(fan)))
       /\ fan.selected => AllSettled(fan) /\ fan.unmarked = {}
  /\ proc.turn # Nothing => proc.up /\ proc.st.tag = "RUNNING_AGENT"

(* Markers are driver-only: what a resume folds is the state they were left in. *)
TurnMatchesLog ==
  proc.up /\ proc.turn = Nothing => proc.st = Replay(config, log)

(***************************************************************************)
(* A turn selects once: a process that dies after it selected leaves a log *)
(* out of which the next one selects the same candidate and the same tree. *)
(***************************************************************************)
SelectionStable ==
  \A i, j \in At("CANDIDATE_SELECTED") :
    TurnBegins(i) = TurnBegins(j) => log[i].event.winner = log[j].event.winner
                                     /\ log[i].event.tree = log[j].event.tree

(* The candidates of an iteration that were logged when the selection was. *)
FieldAt(i) ==
  { log[j].event.candidate : j \in { k \in At("CANDIDATE_RAN") :
      k < i /\ log[k].event.iteration = log[i].event.iteration } }

(***************************************************************************)
(* A selection is justified by the log before it: the winner is there, no  *)
(* candidate of the iteration went further up the ladder, none as far for  *)
(* less; and unless resumes collapse, all K are there.                     *)
(***************************************************************************)
SelectionJustified ==
  \A i \in At("CANDIDATE_SELECTED") :
    /\ \E w \in FieldAt(i) :
         /\ w.index = log[i].event.winner /\ w.tree = log[i].event.tree
         /\ \A c \in FieldAt(i) : c.depth < w.depth \/ (c.depth = w.depth /\ ~Cheaper(c, w))
    /\ ~config.collapse => Indices \subseteq IndicesOf(FieldAt(i))

(***************************************************************************)
(* A candidate that is logged is read back, never run again, however many  *)
(* processes the iteration takes and whatever throws in between.           *)
(***************************************************************************)
NeverRunAgain ==
  \A i, j \in At("CANDIDATE_RAN") :
    /\ log[i].event.iteration = log[j].event.iteration
    /\ log[i].event.candidate.index = log[j].event.candidate.index
    /\ TurnBegins(i) = TurnBegins(j)
    => i = j

(***************************************************************************)
(* The reducer's one turn is the last thing selected; a turn that is not   *)
(* is a crashed one with two hashes no tree has.                           *)
(***************************************************************************)
TurnIsItsSelection ==
  \A i \in At("AGENT_RAN") :
    \/ log[i].event.hash = SentinelPost /\ log[i].event.status = "crashed"
    \/ /\ i > 1 /\ log[i - 1].event.tag = "CANDIDATE_SELECTED"
       /\ log[i].event.hash = log[i - 1].event.tree

(***************************************************************************)
(* A best-of-N turn is decided by its log, once, wherever its processes    *)
(* die: every candidate that was logged competes and none runs twice, the  *)
(* best of them wins, and the reducer's turn is the winner's.              *)
(***************************************************************************)
SelectionSound ==
  /\ TypeOK
  /\ TurnMatchesLog
  /\ SelectionStable
  /\ SelectionJustified
  /\ NeverRunAgain
  /\ TurnIsItsSelection

(***************************************************************************)
(* What the verifier then runs on contains the winner: its tracked files,  *)
(* whatever the candidates wrote meanwhile, and the files it created.      *)
(***************************************************************************)
VerifierSeesWinner ==
  proc.up /\ proc.st.tag = "VERIFYING" =>
    LET last == log[Max(At("AGENT_RAN"))].event
    IN  last.hash # SentinelPost =>
          tree.tracked = last.hash.tracked /\ last.hash.created \subseteq tree.created

(* A tournament ends, in a turn or with its process. *)
FanOutEnds == (proc.fan # Nothing) ~> (proc.fan = Nothing)

=============================================================================
