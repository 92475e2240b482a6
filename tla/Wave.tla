-------------------------------- MODULE Wave --------------------------------
(***************************************************************************)
(* A parallel wave (src/src/driver/wave-runner.ts): the members of a wave, *)
(* each a run of its own in a worktree off the same base, all on the       *)
(* parent's token meter; what they finished is merged in phase order onto  *)
(* the base, promoted, verified again where it landed, and reported to the *)
(* reducer as one event.                                                   *)
(*                                                                         *)
(* A tree maps tracked files to versions.  Authored verification files are *)
(* excluded from git, so they travel beside the trees.  A member's run is  *)
(* Reducer's subject; here it is its turns, what they spend and change,    *)
(* and how it ends.                                                        *)
(***************************************************************************)
EXTENDS Integers, FiniteSetsExt

CONSTANTS
  Members,    (* plan indices of the wave *)
  Waves,  (* worlds the wave is checked in *)
  BaseTree,   (* the canonical tree the wave starts from *)
  Cap,        (* the token cap of the run *)
  Nothing

(* edits: functions on the files a turn may change.  authored: the paths   *)
(* each member's contract brings.  faults: what may throw or be cut short. *)
ASSUME WaveAssumption ==
  /\ Members \subseteq Nat /\ IsFiniteSet(Members) /\ Nothing \notin Members
  /\ Cap \in Nat
  /\ \A w \in Waves :
       /\ w = [edits |-> w.edits, costs |-> w.costs, authored |-> w.authored,
               turns |-> w.turns, faults |-> w.faults, processes |-> w.processes]
       /\ DOMAIN w.authored = Members
       /\ w.costs \subseteq Nat /\ w.turns \in Nat /\ w.processes \in Nat
       /\ w.faults \subseteq {"fork", "child", "merge", "promote", "copy", "verify",
                              "checkpoint", "kill"}

VARIABLES
  world,
  tree,       (* the canonical working tree *)
  authored,   (* whose authored file lies at each path beside it *)
  wave,       (* what the process running the wave knows, or Down *)
  child,      (* each member's run and worktree *)
  meter,      (* tokens on the meter parent and children share *)
  reported,   (* the event the reducer gets, or Nothing *)
  worktrees,  (* worktrees on disk *)
  processes

waveVars == << world, tree, authored, wave, child, meter, reported, worktrees, processes >>

Down == [stage |-> "down", base |-> Nothing, acc |-> Nothing, queue |-> {}, merged |-> {},
         outcomes |-> << >>]

(* pastCap counts the turns begun with the cap already spent. *)
NoChild == [stage |-> "none", tree |-> Nothing, turns |-> 0, own |-> 0, pastCap |-> 0,
            checked |-> Nothing]

Fresh(base) == [NoChild EXCEPT !.stage = "preparing", !.tree = base]

Paths == UNION { world.authored[i] : i \in Members }

(* A member's outcome is added to those already known. *)
Outcome(i, kind) ==
  [j \in {i} \cup DOMAIN wave.outcomes |-> IF j = i THEN kind ELSE wave.outcomes[j]]

Alter(t, edit) == [f \in DOMAIN t |-> IF f \in DOMAIN edit THEN edit[f] ELSE t[f]]

BrokenAllSettled == \A i \in Members : child[i].stage = "done"

AllSettled == \A i \in Members : child[i].stage \in {"done", "stopped"}

-----------------------------------------------------------------------------
(* Forking. *)

(* The canonical tree is checkpointed: the base of every merge. *)
Fork ==
  /\ wave.stage = "down" /\ reported = Nothing
  /\ processes < world.processes
  /\ wave'  = [Down EXCEPT !.stage = "running", !.base = tree, !.acc = tree, !.queue = Members]
  /\ child' = [i \in Members |-> Fresh(tree)]
  /\ processes' = processes + 1
  /\ UNCHANGED << world, tree, authored, meter, reported, worktrees >>

SetChild(i, to) == child' = [child EXCEPT ![i] = to]

UnchangedByChild == UNCHANGED << world, tree, authored, wave, reported, processes >>

(* One worktree after the other: those of lower index are there or failed. *)
Prepare(i) ==
  /\ wave.stage = "running" /\ child[i].stage = "preparing"
  /\ \A j \in Members : j < i => child[j].stage # "preparing"
  /\ \/ /\ SetChild(i, [child[i] EXCEPT !.stage = "prepared"])
        /\ worktrees' = worktrees \cup {<< processes, i >>}
     \/ /\ "child" \in world.faults
        /\ SetChild(i, [child[i] EXCEPT !.stage = "stopped"])
        /\ worktrees' \in { worktrees, worktrees \cup {<< processes, i >>} }
  /\ UNCHANGED meter /\ UnchangedByChild

-----------------------------------------------------------------------------
(* The children, concurrently once all of them are prepared. *)

BrokenOverCap(i) == child[i].own >= Cap

(* A child's budget is the parent's meter, read after a turn or a verdict. *)
OverCap(i) == meter >= Cap

StartTurn(i) ==
  /\ wave.stage = "running"
  /\ \A j \in Members : child[j].stage # "preparing"
  /\ child[i].stage \in {"prepared", "ready"} /\ child[i].turns < world.turns
  /\ SetChild(i, [child[i] EXCEPT !.stage = "working",
                                  !.pastCap = @ + (IF meter >= Cap THEN 1 ELSE 0)])
  /\ UNCHANGED << meter, worktrees >> /\ UnchangedByChild

EndTurn(i, edit, cost) ==
  /\ wave.stage = "running" /\ child[i].stage = "working"
  /\ SetChild(i, [child[i] EXCEPT !.stage = "turned", !.turns = @ + 1, !.own = @ + cost,
                                  !.tree = Alter(@, edit)])
  /\ meter' = meter + cost
  /\ UNCHANGED worktrees /\ UnchangedByChild

(* A red verdict: the next turn, unless the reading with it is over the cap. *)
Continue(i) ==
  /\ wave.stage = "running" /\ child[i].stage = "turned" /\ ~OverCap(i)
  /\ SetChild(i, [child[i] EXCEPT !.stage = "ready"])
  /\ UNCHANGED << meter, worktrees >> /\ UnchangedByChild

(* Both keys turned; the frozen contract is read back from the child's log. *)
ChildDone(i) ==
  /\ wave.stage = "running" /\ child[i].stage = "turned"
  /\ SetChild(i, [child[i] EXCEPT !.stage = "done"])
  /\ UNCHANGED << meter, worktrees >> /\ UnchangedByChild

(* Every other end: aborted, failed, interrupted, thrown, a log without contract. *)
ChildStops(i) ==
  /\ wave.stage = "running"
  /\ child[i].stage \in {"prepared", "ready", "turned"}
  /\ \A j \in Members : child[j].stage # "preparing"
  /\ SetChild(i, [child[i] EXCEPT !.stage = "stopped"])
  /\ UNCHANGED << meter, worktrees >> /\ UnchangedByChild

-----------------------------------------------------------------------------
(* Merging, in the order of the plan. *)

Finished(i) == child[i].stage = "done"

(* Both sides changed a file, and not to the same version. *)
Conflict(base, ours, theirs) ==
  \E f \in DOMAIN base : theirs[f] # base[f] /\ ours[f] # base[f] /\ ours[f] # theirs[f]

MergeTrees(base, ours, theirs) ==
  [f \in DOMAIN base |-> IF theirs[f] # base[f] THEN theirs[f] ELSE ours[f]]

UnchangedByMerge == UNCHANGED << world, tree, authored, child, meter, reported, worktrees, processes >>

Unmerge(i) == wave' = [wave EXCEPT !.queue = @ \ {i}, !.outcomes = Outcome(i, "unmerged")]

(* What did not finish or does not merge is reported, and nothing of it applied. *)
Merge(i) ==
  /\ wave.stage = "running" /\ AllSettled
  /\ i \in wave.queue /\ i = Min(wave.queue)
  /\ \/ ~Finished(i) /\ Unmerge(i)
     \/ /\ Finished(i)
        /\ Conflict(wave.base, wave.acc, child[i].tree) \/ "merge" \in world.faults
        /\ Unmerge(i)
     \/ /\ Finished(i) /\ ~Conflict(wave.base, wave.acc, child[i].tree)
        /\ wave' = [wave EXCEPT !.queue = @ \ {i}, !.merged = @ \cup {i},
                                !.acc = MergeTrees(wave.base, wave.acc, child[i].tree)]
  /\ UnchangedByMerge

(* A merged child's authored files, copied over whatever lies at their paths. *)
Beside(i, here) == [p \in Paths |-> IF p \in world.authored[i] THEN i ELSE here[p]]

(* The merged tree over the canonical one; the files are copied after it. *)
Promote ==
  /\ wave.stage = "running" /\ AllSettled /\ wave.queue = {}
  /\ IF wave.merged = {}
     THEN UNCHANGED tree /\ wave' = [wave EXCEPT !.stage = "verifying"]
     ELSE tree' = wave.acc /\ wave' = [wave EXCEPT !.stage = "copying", !.queue = wave.merged]
  /\ UNCHANGED << world, authored, child, meter, reported, worktrees, processes >>

CopyGeneratedFiles(i) ==
  /\ wave.stage = "copying" /\ wave.queue # {} /\ i = Min(wave.queue)
  /\ authored' = Beside(i, authored)
  /\ wave' = [wave EXCEPT !.queue = @ \ {i},
                          !.stage = IF wave.queue = {i} THEN "verifying" ELSE @]
  /\ UNCHANGED << world, tree, child, meter, reported, worktrees, processes >>

BrokenReverified(pass) == "merged"

Reverified(pass) == IF pass THEN "merged" ELSE "unmerged"

(* The frozen deterministic rungs of a merged child, where it landed. *)
Reverify(i, pass) ==
  /\ wave.stage = "verifying"
  /\ i \in wave.merged \ DOMAIN wave.outcomes /\ i = Min(wave.merged \ DOMAIN wave.outcomes)
  /\ wave'  = [wave EXCEPT !.outcomes = Outcome(i, Reverified(pass))]
  /\ child' = [child EXCEPT ![i].checked =
                 [pass |-> pass, tree |-> tree,
                  files |-> [p \in world.authored[i] |-> authored[p]]]]
  /\ UNCHANGED << world, tree, authored, meter, reported, worktrees, processes >>

-----------------------------------------------------------------------------
(* The event. *)

Mine == { w \in worktrees : w[1] = processes }

BrokenSwept == { w \in Mine : child[w[2]].stage = "done" }

(* Every child's worktree that was made is handed to removal, however the child ended. *)
Swept == Mine

Report(outcomes, t) ==
  /\ tree' = t
  /\ reported'  = [outcomes |-> outcomes, tree |-> t, base |-> wave.base]
  /\ worktrees' = worktrees \ Swept
  /\ wave' = Down
  /\ UNCHANGED << world, authored, child, meter, processes >>

Conclude ==
  /\ wave.stage = "verifying" /\ DOMAIN wave.outcomes = Members
  /\ Report(wave.outcomes, tree)

Unmerged == [i \in Members |-> "unmerged"]

(* The files a promotion wrote before it threw. *)
Partly(files) == [f \in DOMAIN tree |-> IF f \in files THEN wave.acc[f] ELSE tree[f]]

(* The trees a runner that throws may leave, at each point where it may throw. *)
Thrown ==
  { t \in {tree} :
      \/ /\ "fork" \in world.faults /\ wave.stage = "running"
         /\ \A i \in Members : child[i].stage = "preparing"
      \/ "copy" \in world.faults /\ wave.stage = "copying"
      \/ "verify" \in world.faults /\ wave.stage = "verifying" }
  \cup
  { Partly(files) : files \in
      { g \in SUBSET DOMAIN tree :
          /\ "promote" \in world.faults /\ wave.stage = "running" /\ AllSettled
          /\ wave.queue = {} /\ wave.merged # {} } }

(* The runner threw: the whole wave is downgraded, whatever was promoted. *)
Downgrade == \E t \in Thrown : Report(Unmerged, t)

(* The checkpoint of the downgraded wave throws too: the run crashes, with no event. *)
DowngradeFails ==
  /\ "checkpoint" \in world.faults
  /\ tree' \in Thrown
  /\ worktrees' = worktrees \ Swept
  /\ wave' = Down /\ meter' = 0
  /\ child' = [i \in Members |-> NoChild]
  /\ UNCHANGED << world, authored, reported, processes >>

(* The process dies: its worktrees stay, its meter goes; the wave is not in the log. *)
Kill ==
  /\ "kill" \in world.faults /\ wave.stage # "down"
  /\ wave' = Down /\ meter' = 0
  /\ child' = [i \in Members |-> NoChild]
  /\ UNCHANGED << world, tree, authored, reported, worktrees, processes >>

-----------------------------------------------------------------------------
WaveInit ==
  /\ world \in Waves
  /\ tree = BaseTree /\ authored = [p \in Paths |-> Nothing]
  /\ wave = Down /\ child = [i \in Members |-> NoChild]
  /\ meter = 0 /\ reported = Nothing /\ worktrees = {} /\ processes = 0

ChildNext(i) ==
  \/ Prepare(i) \/ StartTurn(i) \/ Continue(i) \/ ChildDone(i) \/ ChildStops(i)
  \/ \E edit \in world.edits, cost \in world.costs : EndTurn(i, edit, cost)

MergeNext(i) ==
  \/ Merge(i) \/ CopyGeneratedFiles(i)
  \/ \E pass \in BOOLEAN : Reverify(i, pass)

WaveNext ==
  \/ Fork \/ Promote \/ Conclude \/ Downgrade \/ DowngradeFails \/ Kill
  \/ \E i \in Members : ChildNext(i) \/ MergeNext(i)

WaveSpec == WaveInit /\ [][WaveNext]_waveVars

(* A child ends by its own caps; the runner's awaits settle. *)
WaveFairSpec ==
  /\ WaveSpec
  /\ \A i \in Members : WF_waveVars(ChildNext(i)) /\ WF_waveVars(MergeNext(i))
  /\ WF_waveVars(Promote) /\ WF_waveVars(Conclude)

-----------------------------------------------------------------------------
(* Properties. *)

Merged == { i \in Members : reported # Nothing /\ reported.outcomes[i] = "merged" }

Changed(t) == { f \in DOMAIN t : t[f] # reported.base[f] }

(***************************************************************************)
(* A merge is never trusted: a phase reported merged turned both keys, all *)
(* it changed is in the tree the next phases start from, and its rungs     *)
(* passed on that very tree, the other members' changes included, with     *)
(* the files its commands read in place (where two contracts chose one     *)
(* path, perhaps the other's).                                             *)
(***************************************************************************)
MergedIsVerified ==
  \A i \in Merged :
    /\ child[i].stage = "done"
    /\ \A f \in Changed(child[i].tree) : reported.tree[f] = child[i].tree[f]
    /\ child[i].checked.pass /\ child[i].checked.tree = reported.tree
    /\ \A p \in world.authored[i] : child[i].checked.files[p] # Nothing

(***************************************************************************)
(* Nothing of a phase that did not finish, or that conflicts with an       *)
(* earlier one, is applied: each change of the wave is that of a member    *)
(* that turned both keys, and two members that changed one file apart are  *)
(* not both in.                                                            *)
(***************************************************************************)
OnlyFinishedWork ==
  reported # Nothing =>
    \A f \in Changed(reported.tree) :
      \E i \in Members : child[i].stage = "done" /\ child[i].tree[f] = reported.tree[f]

(***************************************************************************)
(* What a wave hands on is the finished work of its members and no more,   *)
(* and was verified as it is handed on.                                    *)
(***************************************************************************)
MergeIsSound ==
  /\ MergedIsVerified
  /\ OnlyFinishedWork

(* The children share one cap: none starts two turns once it is spent. *)
OneTurnPastCap == \A i \in Members : child[i].pastCap <= 1

(***************************************************************************)
(* When the event is out every worktree of the wave was handed to removal, *)
(* failed children's too; a directory that will not be deleted stays.      *)
(***************************************************************************)
NoWorktreeLeft == reported # Nothing => Mine = {}

(* A wave ends, in its event or with its process, whatever its children do. *)
WaveEnds == (wave.stage # "down") ~> (wave.stage = "down")

-----------------------------------------------------------------------------
=============================================================================
