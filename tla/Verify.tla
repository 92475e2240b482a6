------------------------------- MODULE Verify -------------------------------
(***************************************************************************)
(* The worker's tree under the two keys (driver/baseline.ts,               *)
(* driver/perform.ts, verify/, workspace/): the worker changes it, the     *)
(* ladder grades it rung by rung, the sign-off panel reviews it, and the   *)
(* baselines that say which part of the change each of them is shown move  *)
(* at checkpoints and phase boundaries, survive crashes by way of the run  *)
(* log, and fall back where a checkpoint cannot be taken.                  *)
(***************************************************************************)
EXTENDS Workspace, Verdicts

CONSTANTS
  Scenarios,   \* how runs are configured
  Source,      \* the file the repository starts with
  Bar,         \* the file the compiler authors
  Output,      \* a file the verify command may write
  MaxTurns,    \* worker turns of a run
  MaxFaults    \* crashes, failed checkpoints and thrown rungs of a run

ASSUME ScenariosAssumption ==
  \A o \in Scenarios :
    /\ o.mode \in {"git", "file"} /\ o.raised \in BOOLEAN
    /\ {o.quorum, o.refuters, o.panel} \subseteq Nat

VARIABLES
  opts,        \* this run's scenario
  w,           \* the working tree
  log,         \* what the run log holds
  mem,         \* what the process holds
  lad,         \* where the ladder or the panel is
  past,        \* history: the tree a phase started from, the trees judged since
  count        \* turns and faults so far

vars == <<opts, w, log, mem, lad, past, count>>

Git == opts.mode = "git"

\* A baseline is the moving HEAD or a fixed tree.
NoBase == [at |-> "none", tree |-> EmptyTree]
HeadRef == [at |-> "head", tree |-> EmptyTree]
Fixed(t) == [at |-> "tree", tree |-> t]

TreeOf(b) == IF b.at = "head" THEN w.head ELSE b.tree

SnapshotOf(tree) == IF Git THEN GitSnapshot(tree) ELSE FileSnapshot(tree)
Snapshot == SnapshotOf(w)

\* The difference a key is shown, against the baseline it asks for.
Diff(b) ==
  IF Git THEN GitDiff(w, TreeOf(b), mem.includes)
  ELSE FileDiff(w, TreeOf(b), mem.includes)

JudgeDiff == Diff(mem.active)

\* Under delta-verify the approver's is against a baseline of its own.
ApproverDiff == Diff(IF opts.delta THEN mem.approver ELSE mem.active)

----------------------------------------------------------------------------
(* Starting and resuming.                                                   *)

\* What a run starts from: an explicit baseline, the commit an autonomy above
\* the lowest pins, HEAD, or in a plain directory nothing at all.
RunStart(o, head) ==
  IF o.mode = "file" THEN Fixed(EmptyTree)
  ELSE IF o.explicit THEN Fixed(head)
  ELSE IF o.raised /\ head # EmptyTree THEN Fixed(head)
  ELSE HeadRef

\* The header leaves HEAD out.
Recorded(b) == IF b = HeadRef THEN NoBase ELSE b

NoLadder == [i |-> 1, poll |-> NoPoll, calls |-> 0]

InitDisks == {[EmptyTree EXCEPT ![Source] = c] : c \in Contents}

Init ==
  /\ opts \in Scenarios
  /\ \E disk, head \in InitDisks \cup {EmptyTree} :
       /\ opts.mode = "file" => head = EmptyTree
       /\ opts.raised \/ opts.mayRaise => head # EmptyTree
       /\ w = [disk |-> disk, head |-> head, ignored |-> {},
               index |-> {f \in Files : head[f] # None}]
       /\ log = [stage |-> "seal", header |-> Recorded(RunStart(opts, head)),
                 active |-> NoBase, phase |-> NoBase,
                 pinned |-> None, phases |-> opts.phases]
       /\ mem = [up |-> TRUE, active |-> RunStart(opts, head),
                 approver |-> RunStart(opts, head), includes |-> {},
                 edited |-> FALSE, checkpoint |-> "no", prior |-> NoBase,
                 raised |-> opts.raised]
       /\ past = [phase |-> head, judged |-> {head}]
  /\ lad = NoLadder
  /\ count = [turns |-> 0, faults |-> 0]

At(stage) == mem.up /\ log.stage = stage

Fault == count.faults < MaxFaults /\ count' = [count EXCEPT !.faults = @ + 1]

\* A process dies: only the tree and the log are left.
Crash ==
  /\ mem.up
  /\ log.stage \notin {"done", "stopped"}
  /\ Fault
  /\ mem' = [mem EXCEPT !.up = FALSE, !.active = NoBase, !.approver = NoBase,
                        !.includes = {}, !.edited = FALSE,
                        !.checkpoint = "no", !.prior = NoBase]
  /\ lad' = NoLadder
  /\ UNCHANGED <<opts, w, log, past>>

BrokenAdoptRunStart(compose) == compose

\* The header's baseline, unless this invocation has chosen one.
AdoptRunStart(compose) ==
  IF compose = HeadRef /\ log.header # NoBase THEN log.header ELSE compose

\* What the log says of checkpoints and phases wins over it.
Hydrated(logged, adopted) == IF logged # NoBase THEN logged ELSE adopted

\* The autonomy is the resuming command line's to choose.
Resume ==
  /\ ~mem.up
  /\ \E raised \in BOOLEAN :
       /\ raised => Git /\ (opts.raised \/ opts.mayRaise)
       /\ LET compose == IF Git THEN HeadRef ELSE Fixed(EmptyTree)
              adopted == AdoptRunStart(compose)
          IN  mem' = [mem EXCEPT
                !.up = TRUE,
                !.active = Hydrated(log.active, adopted),
                !.approver = Hydrated(log.phase, adopted),
                !.includes = IF log.pinned # None THEN {Bar} ELSE {},
                !.raised = raised]
  /\ UNCHANGED <<opts, w, log, lad, past, count>>

----------------------------------------------------------------------------
(* The contract: its authored file is written and pinned, and hidden from   *)
(* git's status where the exclude file can be written.                      *)

ExcludeFromGit(hidden) ==
  w.ignored \cup (IF hidden THEN {Bar} ELSE {})

Freeze ==
  /\ At("seal")
  /\ IF opts.authored
       THEN \E c \in Contents, hidden \in BOOLEAN :
              /\ hidden => Git
              /\ w' = [w EXCEPT !.disk[Bar] = c, !.ignored = ExcludeFromGit(hidden)]
              /\ log' = [log EXCEPT !.stage = "work", !.pinned = c]
              /\ mem' = [mem EXCEPT !.includes = {Bar}]
       ELSE /\ log' = [log EXCEPT !.stage = "work", !.pinned = None]
            /\ mem' = [mem EXCEPT !.includes = {}]
            /\ UNCHANGED w
  /\ lad' = NoLadder
  /\ UNCHANGED <<opts, past, count>>

----------------------------------------------------------------------------
(* The worker's turn.                                                       *)

\* A worker above the lowest autonomy may also commit.
Edit ==
  /\ At("work")
  /\ mem.checkpoint = "no"
  /\ ~mem.edited
  /\ count.turns < MaxTurns
  /\ \E f \in Files \ Excluded, c \in Contents \cup {None}, commits \in BOOLEAN :
       LET disk == [w.disk EXCEPT ![f] = c]
           kept == {g \in Files \ (w.ignored \cup Excluded) : disk[g] # None}
       IN  /\ commits => mem.raised
           /\ w' = [w EXCEPT !.disk = disk,
                             !.head = IF commits THEN Only(disk, kept) ELSE @,
                             !.index = IF commits THEN kept ELSE @]
  /\ mem' = [mem EXCEPT !.edited = TRUE]
  /\ count' = [count EXCEPT !.turns = @ + 1]
  /\ UNCHANGED <<opts, log, lad, past>>

BrokenContinues(event, next) == opts.delta

\* After a step is logged: a verdict that sends the worker on is a place for
\* a checkpoint under delta-verify.
Continues(event, next) ==
  opts.delta /\ event \in {"VERIFIED", "SIGNOFF_DECIDED"} /\ next = "work"

Logged(event, next) ==
  /\ log' = [log EXCEPT !.stage = next]
  /\ mem' = [mem EXCEPT
       !.edited = FALSE,
       !.checkpoint = IF Continues(event, next) THEN "due" ELSE "no"]
  /\ past' = [past EXCEPT !.judged =
       IF event = "AGENT_RAN" THEN @ ELSE @ \cup {SnapshotOf(w')}]
  /\ lad' = NoLadder

RunAgent ==
  /\ At("work")
  /\ mem.edited
  /\ UNCHANGED <<opts, w, count>>
  /\ Logged("AGENT_RAN", "verify")

----------------------------------------------------------------------------
(* Checkpoints: the snapshot becomes the active baseline, then the log is   *)
(* told; where either fails the baseline is what it was.                    *)

CheckpointTree ==
  /\ mem.up
  /\ mem.checkpoint = "due"
  /\ mem' = [mem EXCEPT !.checkpoint = "taken", !.prior = mem.active,
                        !.active = Fixed(Snapshot)]
  /\ UNCHANGED <<opts, w, log, lad, past, count>>

RecordCheckpoint ==
  /\ mem.up
  /\ mem.checkpoint = "taken"
  /\ log' = [log EXCEPT !.active = mem.active]
  /\ mem' = [mem EXCEPT !.checkpoint = "no", !.prior = NoBase]
  /\ UNCHANGED <<opts, w, lad, past, count>>

CheckpointFails ==
  /\ mem.up
  /\ mem.checkpoint \in {"due", "taken"}
  /\ Fault
  /\ mem' = [mem EXCEPT !.checkpoint = "no", !.prior = NoBase,
       !.active = IF mem.checkpoint = "taken" THEN mem.prior ELSE @]
  /\ UNCHANGED <<opts, w, log, lad, past>>

----------------------------------------------------------------------------
(* The ladder.                                                              *)

Ladder == BuildLadder(opts.authored, opts.rungs, opts.gated, opts.refuters)

Idle == mem.checkpoint = "no"
Rung == IF lad.i > Len(Ladder) THEN "top" ELSE Ladder[lad.i]
Grading(kind) == At("verify") /\ Idle /\ Rung = kind

\* A red sends the worker on, or ends a run that has no turn left.
AfterRed == IF count.turns < MaxTurns THEN "work" ELSE "stopped"

\* The first red ends the ladder.
Verdict(v) ==
  IF v.pass
    THEN /\ lad' = [NoLadder EXCEPT !.i = lad.i + 1]
         /\ UNCHANGED <<log, mem, past>>
    ELSE Logged("VERIFIED", AfterRed)

GuardRung ==
  /\ Grading("guard")
  /\ UNCHANGED <<opts, w, count>>
  /\ Verdict(Guard(log.pinned, w.disk[Bar]))

\* The command may leave files of its own behind.
DeterministicRung ==
  /\ Grading("det")
  /\ \E exit \in Exits, written \in SUBSET {Output} :
       /\ w' = [w EXCEPT !.disk = [f \in Files |->
                  IF f \in written THEN CHOOSE c \in Contents : TRUE ELSE w.disk[f]]]
       /\ Verdict(Deterministic(exit))
  /\ UNCHANGED <<opts, count>>

GateRung ==
  /\ Grading("gate")
  /\ UNCHANGED <<opts, w, count>>
  /\ \E reply \in Replies :
       IF CallsAgain(reply, lad.calls)
         THEN /\ lad' = [lad EXCEPT !.calls = @ + 1]
              /\ UNCHANGED <<log, mem, past>>
         ELSE Verdict(Gate(reply))

Poll(panel, size) ==
  /\ ~lad.poll.stop
  /\ \E vote \in Votes, confidence \in Confidences(panel) :
       LET polled == Counted(lad.poll, vote, confidence)
       IN  lad' = [lad EXCEPT !.poll =
                     [polled EXCEPT !.stop = Stops(panel, polled, vote, size)]]
  /\ UNCHANGED <<opts, w, log, mem, past, count>>

AskJudge == Grading("judge") /\ Poll("judge", opts.quorum)

JudgeRung ==
  /\ Grading("judge")
  /\ lad.poll.stop
  /\ UNCHANGED <<opts, w, count>>
  /\ Verdict(Judge(lad.poll, opts.quorum))

AskRefuter == Grading("refute") /\ Poll("refute", opts.refuters)

RefuterRung ==
  /\ Grading("refute")
  /\ lad.poll.stop
  /\ UNCHANGED <<opts, w, count>>
  /\ Verdict(Refute(lad.poll, opts.refuters))

\* A rung that throws is a red too: a difference could not be read, say.
RungThrows ==
  /\ At("verify")
  /\ Idle
  /\ Rung # "top"
  /\ Fault
  /\ UNCHANGED <<opts, w>>
  /\ Verdict(CouldNotRun)

LadderGreen ==
  /\ Grading("top")
  /\ UNCHANGED <<opts, w, count>>
  /\ Logged("VERIFIED", "signoff")

----------------------------------------------------------------------------
(* Sign-off, and the boundary of a phase.                                   *)

AskApprover == At("signoff") /\ Poll("approve", opts.panel)

Signoff ==
  /\ At("signoff")
  /\ lad.poll.stop
  /\ UNCHANGED <<opts, w, count>>
  /\ Logged("SIGNOFF_DECIDED",
       IF ~Approves(lad.poll, opts.panel) THEN AfterRed
       ELSE IF log.phases > 1 THEN "advance" ELSE "done")

\* An approver that could not be asked at all vetoes.
SignoffThrows ==
  /\ At("signoff")
  /\ Fault
  /\ UNCHANGED <<opts, w>>
  /\ Logged("SIGNOFF_DECIDED", AfterRed)

CheckpointAndAdvance ==
  /\ At("advance")
  /\ LET tree == Fixed(Snapshot)
     IN  /\ log' = [log EXCEPT !.stage = "seal", !.active = tree, !.phase = tree,
                               !.phases = @ - 1, !.pinned = None]
         /\ mem' = [mem EXCEPT !.active = tree, !.approver = tree]
         /\ past' = [phase |-> Snapshot, judged |-> {Snapshot}]
  /\ UNCHANGED <<opts, w, lad, count>>

----------------------------------------------------------------------------
Next ==
  \/ Crash \/ Resume
  \/ Freeze \/ Edit \/ RunAgent
  \/ CheckpointTree \/ RecordCheckpoint \/ CheckpointFails
  \/ GuardRung \/ DeterministicRung \/ GateRung
  \/ AskJudge \/ JudgeRung \/ AskRefuter \/ RefuterRung \/ RungThrows
  \/ LadderGreen \/ AskApprover \/ Signoff \/ SignoffThrows
  \/ CheckpointAndAdvance

Spec == Init /\ [][Next]_vars

----------------------------------------------------------------------------
\* The paths a reviewer is owed: all but the excluded ones and, in a git tree,
\* the ignored ones that no contract authored.
Reviewable == Files \ (Excluded \cup (w.ignored \ mem.includes))

Shows(diff, f) ==
  LET ends == {c.to : c \in {d \in diff : d.file = f}}
  IN  IF w.disk[f] = None THEN ends = {None} ELSE w.disk[f] \in ends

Covers(diff, tree) ==
  \A f \in Reviewable : w.disk[f] # tree[f] => Shows(diff, f)

\* The sign-off panel is shown the whole change of its phase: every file that
\* differs from the tree the phase (or the run) started from appears in its
\* difference as it now is, over commits, checkpoints that fail at any point,
\* crashes and resumes (driver/baseline.ts approverDiff, adoptRunStart).
ApproverSeesWholeChange ==
  At("signoff") => Covers(ApproverDiff, past.phase)

\* Nothing slips past the judge: what it is shown is at least the whole change
\* since the phase started or since some verdict of the phase, whichever part
\* of a checkpoint failed or was cut off (driver/baseline.ts onTransition).
JudgeSeesItsDelta ==
  At("verify") /\ Idle => \E t \in past.judged : Covers(JudgeDiff, t)

\* In a git tree both keys always see the authored bar, though git hides it
\* (workspace/workspace.ts setDiffIncludes).
BarIsShown ==
  Git /\ (At("verify") \/ At("signoff")) /\ Bar \in mem.includes
    /\ w.disk[Bar] # None
      => Shows(JudgeDiff, Bar) /\ Shows(ApproverDiff, Bar)

\* The judge is shown what it has to judge by and what it has to judge.
JudgeSeesTheWork ==
  /\ JudgeSeesItsDelta
  /\ BarIsShown

\* A panel that stops early stops at the answer the whole panel would give,
\* whatever the votes it did not take (verify/adversarial-rung.ts and
\* verify/agent-approver.ts, early exit).
EarlyExitIsFullPoll ==
  \A panel \in {<<"refute", opts.refuters>>, <<"approve", opts.panel>>} :
    LET polling == IF panel[1] = "refute" THEN Grading("refute") ELSE At("signoff")
    IN  polling /\ lad.poll.stop
          => \A more \in 0..(panel[2] - Cast(lad.poll)) :
               Approves(lad.poll, panel[2])
                 <=> Approves([lad.poll EXCEPT !.yes = @ + more], panel[2])

\* A red that blames the work is decided by votes that were cast: had every
\* lost sample passed, the quorum would still have had no majority, or it has
\* one and lacks only the confidence (verify/judge.ts).
LostSamplesAreNotBlamed ==
  Grading("judge") /\ lad.poll.stop /\ Judge(lad.poll, opts.quorum) = Red
    => \/ Majority(lad.poll, opts.quorum)
       \/ ~Majority([lad.poll EXCEPT !.yes = @ + lad.poll.lost], opts.quorum)

\* The votes that were cast decide, whatever those lost or not taken would say.
VotesDecide ==
  /\ EarlyExitIsFullPoll
  /\ LostSamplesAreNotBlamed
=============================================================================
