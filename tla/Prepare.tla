------------------------------ MODULE Prepare -------------------------------
(***************************************************************************)
(* The prepare phase between Seal approval and the first agent turn        *)
(* (driver/prepare.ts, driver/preflight-soundness.ts), composed with the   *)
(* authoring of the contract it prepares: missing tools, the one-time      *)
(* setup, the deterministic rungs run once at t = 0, and the model that    *)
(* judges a red rung or a bar that already passes.  A phase's work then    *)
(* puts source in the tree, and the next phase is authored.                *)
(***************************************************************************)
EXTENDS Authoring

ASSUME PrepareAssumption ==
  /\ \A w \in Worlds : {w.recontract, w.llm, w.install} \subseteq BOOLEAN
  /\ \A w \in Worlds : w.setup \in {"none", "user", "authored"} /\ w.rungs \in Nat

VARIABLES
  source,    (* the tree holds implementation source *)
  step,      (* where the prepare phase stands *)
  rung,      (* deterministic rungs that have passed *)
  empty,     (* what the pre-flight read of the tree *)
  t0,        (* what the bar did before the first turn *)
  judged,    (* a model ruled on that *)
  said       (* a control that did not run was logged *)

preflight == << rung, empty, t0, judged, said >>
prepareVars == << source, step, preflight >>
allVars == << authoringVars, prepareVars >>

Deterministic == world.rungs

Preparing(s) == at = "preparing" /\ step = s

Ends(status) == step' = status /\ at' = "over"

Proceed == step' = "idle" /\ at' = "working"

KeepAuthoring == UNCHANGED << world, phase, asked, given, heard, counters, session, told, answer,
                              todo, draft, disk, writes, scratch, source >>

(* A repair's control that cannot run is logged. *)
Say == said' = (said \/ world.recontract)

(* A red rung is put to the classifier only over authored files and with a *)
(* model; a bar that already passes, on a tree with no source under        *)
(* authored files, or on any tree when the bar is a repair.                *)
RedIsJudged == DOMAIN draft.pins # {} /\ world.llm

GreenIsSuspect == world.recontract \/ (DOMAIN draft.pins # {} /\ empty)

(* Which required programs are absent; a probe that errors finds none.     *)
(* Missing ones are left to the agent, which skips setup and pre-flight,   *)
(* or end the run.                                                         *)
ProbeTools(missing) ==
  /\ Preparing("idle")
  /\ missing => draft.tools
  /\ \/ ~missing /\ step' = "setup" /\ UNCHANGED << at, said >>
     \/ missing /\ ~world.install /\ Ends("tools-missing") /\ UNCHANGED said
     \/ missing /\ world.install /\ Proceed /\ Say
  /\ KeepAuthoring /\ UNCHANGED << rung, empty, t0, judged >>

(* An authored setup that fails is a hint in the first prompt, the user's  *)
(* own ends the run.                                                       *)
SetupIsAuthored == ~(world.setup = "user" /\ phase = world.phases)

Setup(ok) ==
  /\ Preparing("setup")
  /\ ok \/ draft.setup
  /\ IF ok \/ SetupIsAuthored
     THEN step' = "tree" /\ UNCHANGED at
     ELSE Ends("setup-failed")
  /\ KeepAuthoring /\ UNCHANGED preflight

(* isEmptyOfSource: false on any git error. *)
ReadTree(answers) ==
  /\ Preparing("tree")
  /\ empty' = (answers /\ ~source)
  /\ rung' = 0
  /\ IF Deterministic = 0
     THEN Proceed /\ Say
     ELSE step' = "rungs" /\ UNCHANGED << at, said >>
  /\ KeepAuthoring /\ UNCHANGED << t0, judged >>

RungPasses ==
  /\ Preparing("rungs") /\ rung < Deterministic
  /\ rung' = rung + 1
  /\ KeepAuthoring /\ UNCHANGED << at, step, empty, t0, judged, said >>

(* A rung that throws leaves the bar's start unknown. *)
RungErrors ==
  /\ Preparing("rungs") /\ rung < Deterministic
  /\ t0' = "unknown"
  /\ Proceed /\ Say
  /\ KeepAuthoring /\ UNCHANGED << rung, empty, judged >>

(* The first red rung is the last one run. *)
RungFails ==
  /\ Preparing("rungs") /\ rung < Deterministic
  /\ t0' = "red"
  /\ IF RedIsJudged THEN step' = "judging" /\ UNCHANGED at ELSE Proceed
  /\ KeepAuthoring /\ UNCHANGED << rung, empty, judged, said >>

AllGreen ==
  /\ Preparing("rungs") /\ rung = Deterministic
  /\ t0' = "green"
  /\ IF GreenIsSuspect /\ world.llm
     THEN step' = "judging" /\ UNCHANGED << at, said >>
     ELSE /\ Proceed
          /\ IF GreenIsSuspect THEN Say ELSE UNCHANGED said
  /\ KeepAuthoring /\ UNCHANGED << rung, empty, judged >>

(* Only a confident "broken" ends the run; a model that fails or answers   *)
(* nonsense is logged and taken for "sound".                               *)
Rules(ruling) ==
  /\ Preparing("judging")
  /\ IF ruling = "failed"
     THEN said' = TRUE /\ UNCHANGED judged
     ELSE judged' = TRUE /\ UNCHANGED said
  /\ IF ruling = "broken" THEN Ends("contract-unsound") ELSE Proceed
  /\ KeepAuthoring /\ UNCHANGED << rung, empty, t0 >>

(* Can the frozen files not run at all, or is the goal simply not met yet? *)
ClassifyRed(ruling) == t0 = "red" /\ Rules(ruling)

(* Was the solution authored into the frozen files? *)
ClassifyVacuous(ruling) == t0 = "green" /\ ~world.recontract /\ Rules(ruling)

(* Did the repair soften the bar? *)
ClassifyRepair(ruling) == t0 = "green" /\ world.recontract /\ Rules(ruling)

(* The loop works the phase, and its completion starts the next. *)
WorkPhase ==
  /\ at = "working"
  /\ source' = TRUE
  /\ IF phase = world.phases
     THEN at' = "over" /\ UNCHANGED << phase, asked, given, retries, revises, round >>
     ELSE Start(phase + 1)
  /\ t0' = "unrun" /\ judged' = FALSE /\ said' = FALSE
  /\ UNCHANGED << world, heard, edits, session, told, answer, todo, draft, disk, writes, scratch,
                  step, rung, empty >>

-----------------------------------------------------------------------------
PrepareInit ==
  /\ AuthoringInit
  /\ source \in IF world.seeded \/ world.recontract THEN BOOLEAN ELSE {FALSE}
  /\ step = "idle" /\ rung = 0 /\ empty = FALSE
  /\ t0 = "unrun" /\ judged = FALSE /\ said = FALSE

Preflight ==
  \/ \E missing \in BOOLEAN : ProbeTools(missing)
  \/ \E ok \in BOOLEAN : Setup(ok)
  \/ \E answers \in BOOLEAN : ReadTree(answers)
  \/ RungPasses
  \/ RungErrors
  \/ RungFails
  \/ AllGreen
  \/ \E ruling \in {"sound", "broken", "failed"} :
       ClassifyRed(ruling) \/ ClassifyVacuous(ruling) \/ ClassifyRepair(ruling)

Over == at = "over" /\ UNCHANGED allVars

Progress == Preflight \/ WorkPhase \/ (AuthoringNext /\ UNCHANGED prepareVars)

PrepareNext == Progress \/ Over

(* Every step is a call, a write or a command the program is waiting for;  *)
(* an autonomous run waits for nobody.                                     *)
PrepareSpec == PrepareInit /\ [][PrepareNext]_allVars

PrepareFairSpec == PrepareSpec /\ WF_allVars(Progress)

-----------------------------------------------------------------------------
(* The properties. *)

(* What the human approved at the Seal, and what preparation and the loop  *)
(* then run, is what the workspace holds: from the gate to the end of      *)
(* preparation every pinned file is on disk as it was pinned, through      *)
(* retries over half-written answers, revisions and edits at the gate      *)
(* (compile/agent-compiler.ts:494, driver/refreeze.ts).                    *)
SealedIsOnDisk ==
  at \in {"criticised", "control", "gate", "preparing", "working"} =>
    \A f \in DOMAIN draft.pins : disk[f] = draft.pins[f]

(* The positive control judges the bar that will be frozen: in the scratch *)
(* copy every frozen file is the authored one, however the reference       *)
(* implementation spells the paths it brings (contract-dry-run.ts:262).    *)
ControlMeasuresTheBar ==
  at = "control" => \A f \in DOMAIN draft.pins : scratch[f] = draft.pins[f]

(* A re-contracted bar that is prepared and is not red before the first    *)
(* turn was put to the negative control, or the log says why not, with or  *)
(* without authored files and whatever the tree holds (prepare.ts,         *)
(* greenNegativeControl).                                                  *)
PreparedRepairIsJudgedOrSaid ==
  at = "working" /\ world.recontract /\ NeedsPreparation => t0 = "red" \/ judged \/ said

(* What the comments of prepare.ts and recontract.ts promise of every      *)
(* repair, a bare --verify-cmd included: no worker turn starts on a bar    *)
(* that is not red unless the control ruled on it or the log says why it   *)
(* did not.  The code does not keep it: needsPreparation sends a bare bar  *)
(* past the control in silence.                                            *)
RepairIsJudgedOrSaid == at = "working" /\ world.recontract => t0 = "red" \/ judged \/ said

(***************************************************************************)
(* The two controls of a bar, the positive one before the Seal and the     *)
(* negative one of a repair after preparation, are run on what is frozen.  *)
(***************************************************************************)
ControlsAreOfTheBar ==
  /\ ControlMeasuresTheBar
  /\ PreparedRepairIsJudgedOrSaid

(* What an operator, a critic, a failed attempt or a follow-up has to say  *)
(* is in the prompt the author answered, whichever session answered it:    *)
(* resumed, fresh, or fresh after a resume that failed.                    *)
SteerReachesTheAuthor == at \in {"writing", "drafted"} => asked \subseteq heard

(* With no human to wait for, authoring comes to an end: retries, critique *)
(* rounds and controls are bounded, and every way out of one leads on.     *)
AuthoringEnds == world.human \/ <>(at = "over")
=============================================================================
