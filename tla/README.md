# goaly in TLA+

A verification development beside `goaly` (`src/src`, TypeScript): a driver that turns a goal
into a frozen contract, lets a coding agent work against it turn by turn, and stops when two
keys turn (a deterministic verifier ladder and an approver), when a backstop trips, or when a
human says so. The run is a pure reducer inside a thin effectful driver; everything the driver
learns is written to an append-only log before it acts on it, so a run can be stopped anywhere
and resumed.

## 1. Inventory

| Part (source) | State it keeps | Operations | Talks to | What is hard | What makes it correct |
|---|---|---|---|---|---|
| Reducer (`orchestrator/step.ts`, `state.ts`) | one tagged state, with the loop context (histories, ledger, last verdict) | `initial`, `step(state, event)` | driver: one command out, one event in | retry counters carried across states, phase walk and waves, what is reset when | both keys for every phase, prerequisites first, every retry counted, terminal is final |
| Stop decision (`decide.ts`, `stuck.ts`, `remediate.ts`) | none (folds the histories) | `detectStuck`, `planRemediation`, `decide` | reducer | six detectors over four histories of different lengths, excuses and self-recovery that override them | budgets and caps bound every run; excuses are one-shot |
| Plan graph (`domain/plan*.ts`) | none | validate, `planDependencies`, `readyFrontier`, `waveIndicesAt` | reducer | declared edges mixed with positional bands, partly merged waves | no phase before its prerequisites |
| Driver loop (`driver/driver.ts`, `perform.ts`) | live reducer state, next sequence number, meter, log handle | perform a command, step, append, adopt | every port; log | crash between perform, append and adopt; failed appends; interruption | the log alone determines the state |
| Resume and replay (`runlog/replay.ts`, `driver/resume.ts`, `bootstrap.ts`, `baseline.ts`) | none of its own (folds the log) | extension markers, replay, streak relief, re-judging budgets, baselines | log, driver, approver | re-judging a logged prefix under other thresholds than it was run with | a resumed run continues the logged one |
| Run log (`runlog/file-runlog.ts`) | a JSONL file, a per-handle tail check | append (repairing a torn tail once per handle), read | driver | torn tails, duplicate or missing sequence numbers | what was appended is read back |
| Run lock (`runlog/lock.ts`, `cli/run-cmd.ts`) | one file with a pid | acquire, release, liveness probe | processes, UI, watchers | stale locks, pid reuse, two reclaimers, resident processes | one driver per run directory |
| Tournament (`driver/tournament.ts`, `best-of-driver.ts`) | candidate records in the log | fan out, select, promote, resume half-done | worktrees, log | crash between candidates, stale candidates of another phase | the promoted tree is a candidate of this turn |
| Waves (`driver/wave*.ts`) | child runs, worktrees | run children, merge cooperatively, re-verify | worktrees, child drivers | concurrent children, one member failing, merge order | merged is verified; a failed member leaves no trace |
| Workspaces (`workspace/*`) | git trees, worktrees | hash, diff, checkpoint, promote | git | half-made worktrees, dirty trees | hash changes iff the tree does |
| Preparation (`driver/prepare.ts`, `preflight-soundness.ts`) | none | tools, setup, the bar at t = 0, negative control | processes, LLM | which ways out skip the control | a repaired bar that is green is judged or the log says why not |
| Compile, plan, Seal (`compile/*`, `plan/*`) | the author's session, files on disk, critique rounds | author, criticise, control, gate, revise, freeze | LLM, human, scratch copy | retries over half-written answers, resumed sessions, edits at the gate | what is sealed is on disk, a steer reaches the author, authoring ends |
| Verification (`verify/*`) | none (baselines in the workspace) | ladder, judge, refuters, approver panel | processes, LLM, workspace | early exit, lost votes, baselines across crashes | both keys see the change they judge; votes decide as the whole panel would |
| Agent processes (`util/spawn.ts`, `harness/*`, `agent-cli/*`) | a child process, session ids | spawn, stream, time out, kill, resume a session | processes | exit, timers and pipes racing; sessions of several roles in one directory | a cap ends a call, progress is not reaped, no role reads another's conversation |
| LLM clients (`llm/*`, `llm-client/*`, `driver/llm-meter.ts`) | spend | request, retry | network | retries, a meter shared by children | spend is never lost |
| goaly-code (`goaly-code/*`) | session file | model and tool loop | LLM, files | resumed sessions, abort between call and result | every tool call is answered before it is saved |
| UI (`ui/*`) | sessions, pending gates, SSE clients | launch, resume, answer gates, stream | lock, runs, browser | two launches at once, reconnects, answers to dead gates | one live run per tree |
| Follow-ups, defects corpus (`followup/*`, `defects/*`) | headers of logs, one signed file per user | seed a run from another, append a lesson, read hints | runs, LLM | shared appends, a crash between lesson and verdict, lost seeds | hints count runs; chains of repairs end and are compared |
| Sandbox, CLI, telemetry, training | none | build a command line, report, export | all | | read-only or best effort |

Every row is a component of `PROJECT.json`, the unmodelled ones with the reason.

## 2. Modules

| Module | Models | Notes |
|---|---|---|
| `Stuck` | `stuck.ts` | the detectors as predicates on the loop context, in the code's order |
| `Decide` | `decide.ts`, `remediate.ts` | EXTENDS `Stuck`; the truth table of DECIDE |
| `PlanGraph` | `plan.ts`, `plan-graph.ts` | phases are numbered from 0 as in the code |
| `Step` | `step.ts`, `state.ts` | EXTENDS `Decide`, `PlanGraph`; one operator `StepX` per handler `stepX` |
| `Reducer` | `step.ts` driven by `perform.ts` | state machine: one action per kind of result a command can have |
| `TwoKeys` | (abstract) | what a run promises; `Reducer` refines it |
| `Replay` | `replay.ts` | EXTENDS `Step`; the fold of a log, extensions, streak relief |
| `Journal` | `driver.ts`, `file-runlog.ts`, `resume.ts`, `bootstrap.ts`, `baseline.ts` | state machine around `Replay`; refines `Reducer` |
| `Tournament` | `best-of-driver.ts`, `tournament.ts`, `git-worktree-host.ts` | state machine around `Replay` and `Step`: a best-of-N turn, step by step |
| `Wave` | `wave-runner.ts`, `git-worktree-host.ts` | children at once on one meter, merge, promotion, re-verification |
| `RunLock` | `lock.ts`, `run-cmd.ts` | state machine: one action per file-system call |
| `UiLaunch` | `start-run.ts`, `sessions.ts`, `ui-gates.ts`, `run-cmd.ts`, `worktree-manager.ts` | requests at their awaits, beside terminals; the lock is one step here |
| `Follow` | `sse.ts`, `server.ts`, `watch.ts`, the page | EXTENDS `UiLaunch`; streams, pages and `runs watch` beside a run |
| `Authoring` | `compile/*`, `plan/*`, `workspace-files.ts`, `scratch-copy.ts` | plan and contracts from the first call to the gate |
| `Prepare` | `prepare.ts`, `preflight-soundness.ts` | EXTENDS `Authoring`; the prepare phase and on to the next phase |
| `Spawn` | `util/spawn.ts` | one child, its process group, pipes and timers; time in ticks |
| `GoalyCode` | `goaly-code/*`, `openai-client.ts` | the built-in agent's loop and session file |
| `Turn` | `codec.ts` and the codecs, `agent-cli-harness.ts`, `agent-cli-provider.ts`, `perform.ts` | EXTENDS `Spawn`, `GoalyCode`; the calls of a run and their sessions |
| `Workspace` | `git-workspace.ts`, `file-workspace.ts` | snapshots and differences as functions of trees |
| `Verdicts` | `verify/*` | how each grader comes to its verdict |
| `Verify` | `baseline.ts`, `ladder.ts`, `perform.ts`, `run-prepare.ts`, `bootstrap.ts` | EXTENDS `Workspace`, `Verdicts`; worker, ladder, panel and what they are shown |
| `Corpus` | `defects/*` | the shared file of lessons: lines, keys, reading, ranking |
| `Lineage` | `followup/*`, `followup-wiring.ts`, `perform.ts` | EXTENDS `Corpus`; runs that descend from runs |
| `ReducerProofs` | | theorems about `Reducer`, the last its refinement of `TwoKeys` |
| `ReplayProofs` | | lemmas about the reducer's steps and the fold of `Replay`; no theorem of its own |
| `JournalProofs`, `TournamentProofs` | | EXTEND `ReplayProofs`; theorems about `Journal`, among them its refinement of `Reducer`, and about `Tournament` |
| `DriversProofs` | | theorems about `RunLock`, `Wave` and `Verify` |
| `CallProofs` | | theorems about `Turn` (hence `Spawn`, `GoalyCode`) and `Prepare` (hence `Authoring`) |
| `LaunchProofs`, `LineageProofs` | | theorems about `Follow` (hence `UiLaunch`) and `Lineage` (hence `Corpus`) |
| `MCReducer`, `MCJournal`, `MCTournament`, `MCWave`, `MCRunLock`, `MCUiLaunch`, `MCPrepare`, `MCTurn`, `MCVerify`, `MCLineage` | | instances for TLC |

**Correspondence.** `st` is the reducer's tagged union flattened into one record (fields a state
lacks are at rest) together with `cmd`, the one command `step` returns with it. A run without
phases is a run over the empty plan: its only contract is the acceptance phase, numbered one
past the last sub-goal. Tree hashes, contracts and verifier details are opaque values; a detail
is its signature (`NormalizeDetail`, what survives `normalizeDetail`) and its noise (what does
not), so that equal failures with different timestamps are told apart exactly as the code does.
Approvals, budgets and run statuses are the values themselves. Prompt and reason texts are not
modelled; `reason` names the branch that ended the run. `hist` is history for the properties and
read by no action. In `RunLock` the path holds a file that knows who created it, because a write
goes to the file a process opened even when the path has been unlinked or replaced meanwhile.

In `Journal` the log file is a sequence of entries plus two flags, a torn tail and a fused line;
`tree` is the working tree; `proc` is everything a live process holds in memory (the state, an
event that is performed but not appended, the sequence number, whether it has checked the tail,
a due checkpoint, the two diff baselines, the note, the meter) and is `Down` between processes.
`Perform` is `performStep` up to the append: the effect has happened, nothing is durable. A
result of a command is a template in `world.results`; `Event` adds what the driver reads itself
(the tree before, the meter) and what its calls of a model cost. `Commit` is `commitTransition`; `CommitTorn`, `CheckpointFails` and
`Stop` are where it is cut short. `Resume` writes the markers and folds; an overlay is a function
on the configuration fields it replaces. `run` is a ghost, the state and history `Reducer` would
have, kept until the first extension and read by the refinement only. Where a value is drawn
from a singleton (`\E s \in {...}`) the meaning is `LET`; TLC then evaluates it once.

In `Tournament` a tree is its tracked files (one opaque version) and the set of files created
beside them, because promotion treats the two differently. `proc.fan` is the tournament a live
process is in: the indices not started, those whose worker ran, those scored, those whose marker
is due. `RunWorker` is `addWorktree` and `harness.run`, `ScoreCandidate` the hash and the ladder,
`CandidateThrows` their catch; `AppendMarker`, `Select`, `Promote` and `CommitTurn` are the
awaits of `runBestOf` and of the driver after it, and `Stop` may come between any two. The file
with its torn tail is `Journal`'s subject and is whole here; the meter is left out, so a turn
never reads over budget. A log that cannot be read back, which the code takes for an empty one and
runs all candidates again, is left out too.

In `Wave` a tree maps tracked files to versions; authored verification files, which git does not
see, lie beside it and remember whose they are. A child is its turns, what they change and spend,
and how it ends; merging takes the members in phase order, and promotion, the copies and the
re-verification are the runner's awaits, any of which may throw (`Thrown`); the checkpoint of the wave that
is downgraded for it may throw too, which ends the process without an event (`DowngradeFails`). In `UiLaunch` a request moves
from await to await of `launch` (look for a live run, parse, execute, register the session), a
run compiles, parks at its Seal, takes turns and ends; a gate is a number a page answers; `unguarded`
remembers whose lock file another has taken away, for the properties only. `Follow` gives each page
a stream with its place in the log, the frames queued for it and the gate in its modal.

In `Authoring` a file's content is the attempt, or the operator's edit, that wrote it, a session is
the phases whose goal it has been told, a prompt the kinds of feedback it carries, and an answer a
flaw that one of the guards sees, with its files, setup and tools. `Prepare` adds the steps of
`performPrepareWorkspace`. In `Spawn` a child has the main process, a helper of its group and a stray that
left the group, all of which hold the pipes. In `Turn` a conversation is who has spoken in it, and
`run` what the driver keeps: session ids, spend, the retry. In `Verify` a tree is what every path
holds, a difference the set of its changes, `mem` what the process holds, `log` what survives it,
`past` the trees the properties speak of. In `Corpus` a line is a record with the key that signed
it; in `Lineage` a run is its header, the stage its log folds to, and what its process was composed with.

**Operators beginning with `Broken`** are plausible bugs of the definition they precede. No
specification uses them; they exist to show that each property fails when the code does. **Properties
that are conjunctions** (`BackstopsHold`, `MemoryMatchesLog`, `SelectionSound` and others) have named parts, each
stated and commented on its own.

## 3. Runs and bounds

| Run | Question | Distinct states |
|---|---|---|
| `reducer` | Does every backstop of a contract's loop end it when it must, does the phase walk skip, repeat or misorder nothing, and do both keys turn? | 108 thousand |
| `journal` | Is a run the same run however often it is killed, resumed and extended? | 385 thousand |
| `tournament` | Does a best-of-N turn end in a selection its log justifies, however often it is killed and resumed, and does the verifier run on the winner's tree? | 77 thousand |
| `wave` | Is what a wave reports merged finished, promoted and verified where it landed, within one budget, with nothing left behind? | 324 thousand |
| `run_lock` | Do drivers that acquire one after the other exclude each other across crashes, and is a stale lock never in the way? | 206 thousand |
| `launch` | Do racing requests, terminals, removals, late answers and reconnecting pages leave one run per tree, gates that meet their human and waits that end? | 208 thousand |
| `contract` | Is what is sealed on disk and what the controls measured, do steers reach the author, does authoring end? | 22 thousand |
| `turn` | Do calls end at their caps, keep to their own conversations, and account for spend and tool calls, over crashes, retries and interrupts? | 1.1 million |
| `verify` | Are both keys shown what they judge, and do panels that stop early or lose votes decide as the whole panel would? | 1.1 million |
| `memory` | What does a run learn from the runs before it, and does that survive crashes and resumes? | 2.7 million |
| `raised_on_resume` | A claim about sign-off that the code does not keep (section 6). | |
| `bare_repair` | A claim about repaired bars that the code does not keep (section 6). | |

A configuration together with the results its commands may have is a *scenario*; a run checks
all the scenarios of its set at once, each explored exhaustively. Small bounds suffice where the
code compares a streak with a threshold: two is the least a threshold may be
(`domain/config.ts`), and each scenario leaves room for a streak that reaches it, falls one short
of it, or is broken before it.

*Reducer.* `maxIterations` is 1 to 5, two tree
hashes, up to three verifier details of which two differ in noise only, one retry and one revision
of every kind. The loop scenarios: `Crashing` (crash streaks, repeated failures, adjudication), `Remediating`
and `Recovering` (self-recovery), `Starved` (budget and unevaluable verifier), `TimingOut`,
`Drifting` (something else writes to the tree), `Cycling` (oscillation) and `PhasedRemediating`.
The phase scenarios are all valid plans of up to three phases, with every mix of declared edges
and groups, walked alone or in waves of which any subset merges.

*Journal.* Two processes (three in `TimingOut`), each of which may die before the effect, after
it, or in the append. `Interrupted` is a phased run under `--delta-verify` whose checkpoints may
fail, resumed with a note and under another wiring; `Aborting` trips every counted detector alone
and together, raises a knob or switches both uncounted detectors off; `TimingOut` has three turns that time out without a change and a
second marker behind them; `Adjudicating` extends a run that adjudicated its contract; `Spending`
has a cap of three tokens that a resume may raise to five, turns of one token, one of which may have
an attempt of another that was abandoned, and steps whose calls of a model cost one or nothing. Scenarios keep
the number of turns at two to four because the log, hence the state, grows with every event.

*Tournament.* Two candidates, the least that can compete; every interleaving of their steps.
`Ranked`: one turn, three processes, every combination of depth (0, 1), cost (1, 2, not reported)
and a candidate that throws, under both policies for an incomplete fan-out. `Repeated`: two turns
and two different edits, so that a later turn's candidates meet an earlier one's in the log.
`Phased`: two contracts. `Throwing`: every call of the tournament may throw and workers may crash.

*Wave.* Three members, the least of which two can conflict while a third does not, over two
files. `Merging`: every mix of four edits, children and merges that throw. `Spending`: turns of one
or two tokens under a cap of two. `Failing`: every call throws, up to the re-verification and the checkpoint
after it, the process is killed and the wave performed once more. `Colliding`: two contracts chose one path for a script.

*RunLock.* Four drivers, one in a resident server process, two that get the same pid when one
starts after the other; `Overlap` says whether acquisitions may overlap in time.

*UiLaunch, Follow.* Two requests and a terminal: any race of the guards needs only two. `Busy`:
one tree, refused locks, a proxy that throws, the terminal resuming the request's run. `Reviewed`:
two runs of one tree, or one run twice, with answered, late and repeated gates. `Removed`: a worktree
created and removed between the looks of two others. `Dying`: processes die. `Followed`: one page and
one watcher on a run of two gates and two turns, connections that break and come back. The server may
restart once.

*Authoring, Prepare.* One retry, one revision, one critique round and one edit (two retries in the phased
follow-up): the bounds interact only by which is spent first. `Autonomous` meets every flawed answer, `Reviewed` a human, `FollowUp`
two phases and a seed, `Existing2` the user's own command, `Repair` and `BareRepair` a re-contract
with a model and without, prepared and not, with up to two rungs.

*Turn.* claude, codex, droid and goaly-code; two authoring calls and two worker turns, so that an id
learnt from one call is used by the next, one retry of each kind, and limits of one tick, which
make every order of chunk, timer and exit possible. A run begins with no session, with a sentinel, or with the session
of a harness it was resumed away from. Under pi the first property does not hold (section 6).

*Verify.* Three files (one the repository's, one the authored bar, one a command writes) of two contents,
two turns, one fault. Trees do everything under panels of one and one-turn runs
do everything with panels of two to four, because the panel does not touch the tree. Runs at raised
autonomy on an unborn HEAD, of which the code warns that they have no baseline, are no initial state.

*Lineage.* Two runs side by side with one fault, two in sequence with two faults, three in
sequence with one; two lessons, one of which argues from effort; a fault is a crash, a
copied line, a cleared corpus or a torn append.

`CHECK_DEADLOCK FALSE` is set for the journal, the tournament, the wave, the server, the verification and the lineage: a
run that ended and whose last process is gone, or whose bound on processes is spent,
does stop. The reducer's `Finished` stutters in a terminal state, so that any other state in
which nothing can happen would be a deadlock, and so do `Over` and `RunOver` of authoring and turn;
a crashed or finished driver of the lock may start again.

## 4. Fairness

`FairSpec` of the reducer is `WF_vars(Next)` with its ENABLED spelt out (a state waits for no command only when
it is terminal): the driver's loop performs the one pending
command until the state is terminal, and every port is bounded (timeouts) and fail-closed (a port
that throws becomes an event), so some event always arrives. Which one is unconstrained: liveness
never leans on a good verdict. `Terminates` therefore says that the counters alone end a run.
`Tournament`'s `FairSpec` is weakly fair to a candidate's steps (a harness run and a ladder are
bounded by their timeouts) and to what follows them in the driver (an await settles or throws), not
to starting, resuming or stopping: `FanOutEnds` says that the wait for all candidates is never for
one that cannot come. `Wave`'s is the same for its children, its merge and what follows. `FollowSpec`
is fair to the steps of a run that is driven and to the timers and sockets of streams and watchers; a
human owes no answer, a page no connection, a terminal no stop, so `WaitsEnd` holds only for what was stopped or has
ended. `Prepare` is fair to `Progress`, the calls the program waits for; only an autonomous run is
promised an end. `Turn` is fair to time, a due wall-clock timer and the closing of pipes, and to nothing an
agent does: `CapEndsTheCall` leans on the kill alone, and speaks of a call whose descendants
can be killed. The journal, the lock, the verification and the lineage have no fairness, since an operator may
kill a process and never return; nothing is claimed there but safety.

## 5. Proofs

*Assumptions.* Each module names what it assumes of its constants, TLC evaluates it in the runs, and
nothing in it bounds a size. The reducer (`WellFormedScenarios`): caps and thresholds are naturals, a plan is numbered from 0
and not empty, a compiled contract is one, and no tree has the sentinel that stands for the hash of a tree that could not be
hashed. The lock (`PidsAssumption`, `FileAssumption`), the wave (`WaveAssumption`), the verification (`ScenariosAssumption`, `NoneIsNoContent`,
`ExcludedAreFiles`), the server (`LaunchAssumption`, `FollowAssumption`: the empty lock is not a process),
the calls (`LimitsAssumption`, `LinesAssumption`, `RepliesAssumption`, `ClisAssumption`, `LoopBoundsAssumption`, `RunBoundsAssumption`),
the authors (`AuthoringAssumption`, `PrepareAssumption`), the journal and the tournament (`ScenarioAssumption`, `TournamentAssumption`: a configuration of the schema's types, results of the
ports' types) and the memory (`CorpusAssumption`, `LineageAssumption`) assume the shape of their constants.

*Hypotheses.* Some theorems have one besides, because the code needs one and section 6 says what happens without it:
`Orderly` (lock exclusion), `NeverRaised` (the baselines, without which the run `raised_on_resume` fails), that the CLI is not pi (conversations),
and `Tame` for the journal: a checkpoint that fails leaves no bytes, and no extension lowers the repeat threshold while an adjudication is pending.
The baselines of a resumed process are proved for runs without parallel waves, the spend for runs whose token cap no extension
lowers. Every state of the `journal` run is tame.

*`ReducerProofs`, types*: `TypeOK` is inductive. It is more than types: a state waits for one command of
its own, holds a contract wherever work happens, has a phase inside the plan and a wave of live
phases, and no retry counter passes its cap, which is why retries end. One lemma per handler
shows that it returns a well-formed state, one step per action applies it.

*`ReducerProofs`, caps*: neither the budget nor the iteration cap is inductive by itself, because the
decision is taken two or three events after the reading and the count it is taken on.
`LoopInv` adds to `TypeOK` what each state of the loop carries over (`LoopOK`): a state about to
run a turn has a positive allowance left and no reading over budget; one about to verify or to
sign off has used at most its allowance and a ledger that adds up. `ContinueReady` shows that a
decision to continue re-establishes the former: the budget detector is first in the order and is
never excused, and a refund of an iteration is paid for by the ledger entry of a self-recovery.

*`ReducerProofs`, backstops*: `BackstopInv` bounds every streak by its threshold and what the ledger spent on it, with the entries the turn and
the verdict at hand may have added (`Bounded`). Three things make it hard. A detector that trips first hides the ones after it, so `Masked` says
which kinds can be reported when one trips, and `GoesOn` which of those the decision may continue from. Crashed turns enter the history of turns
but not the count of iterations, so between two counted ones there is one streak of crashes at most. The property
counts true idle timeouts, the code compares hashes: `TimeoutsOK` shows that the hashes tell all but the first of a streak
that began over an unknown tree. `VetoOK` makes the excuse for an idle turn one-shot: the turn after an idle veto has the veto as its
feedback, and a second one is not fresh.

*`ReducerProofs`, phases*: the code keeps no set of unfinished phases; `WalkInv` says that the index, the skip set and the wave tell it, that
a wave's members wait for nothing, and that every edge points back (`ValidPlanDependsBack`: that is what the validation at parse buys, declared
edges and positional bands alike). The frontier and the wave of `PlanGraph` are shown to respect the edges, the order
follows, and then the refinement: each action of `Reducer` is a step of `TwoKeys` or a stutter under the mapping.

*`DriversProofs`, lock*: `LockInv` adds to mutual exclusion that at most one driver is acquiring, that
live drivers have different pids, that the file names its holder and its creator, and that a
driver's file is not another's. It is inductive under `Orderly`: acquisitions do not overlap, and
a resident process drives the run once at a time. `RefusalInv`, for `RefusedOnlyByRivals`, needs neither: a file
names its creator's process, and a driver that had no rival since it began finds the path free after its one reclaim (`AloneIsQuick`).

*`DriversProofs`, waves*: `WaveInv`. A child past the cap has begun its turn on a reading below it and finds the meter at the cap when it asks again
(`CapRead`); the accumulated tree is the base with exactly the changes of who merged (`Accumulated`), so neither the order of merges nor a conflict
loses or adds one; authored files are copied before a rung runs; and an outcome "merged" is a verdict on the tree that is still there when the event
is made. Worktrees are swept on every way out (`Cleaned`).

*`DriversProofs`, verification*: the two baselines are trees: `Held` says which ones in the process, `Kept` that the log and the header would give a resumed process
the same, `Checkpointing` that a half-made checkpoint can be taken back, `Pinned` that no baseline is HEAD where the worker may commit. On top of
that, a difference against a tree shows every file that differs from it, whatever git tracks, ignores or committed (`GitDiffShows`). `PollInv` knows of a panel that
stopped only that it was full or settled; the rest is arithmetic about majorities, for panels of every size.

*`LaunchProofs`*: `TreeInv`: sessions are of different trees and whoever works is registered or was told to stop before its first step; a live
driver's lock file names its process until another takes it away (`Guarded`), so it is seen by whoever looks; a lock names a process that was there. `GateInv`: gates are numbered and the decided ones are
behind the parked one. `ModalFollows` is about what is under way: the last frame queued for a page is the gate that is parked.

*`CallProofs`, calls*: `BaseInv`: an id that is no sentinel names a conversation on disk, so no CLI refuses a call, and a fresh id exists because
finitely many are taken; the idle timer's clock and the time without progress agree as long as a process can print (`ReapOK`); every tool call of a log is answered in it or is
next in line (`Owed`, kept through every abort, since the log is saved after the answers). For conversations, `OwnOK` adds that an id two roles
could name would hold no words, and `LogsOwn` that only the log a sentinel names may hold another run's
words; a session of an earlier harness is an id no conversation has, so it is refused and nothing is continued. Spend is counted per attempt (`SpendInv`).

*`JournalProofs`*: `JournalInv` says that the file is whole but for a torn tail (`FileOK`), that the live process's state is the fold of the
entries (`MemoryOK`), and that an event performed but not appended has a place in that state (`PendingOK`). The difficulty is that the
code folds every prefix anew under the thresholds of the whole log: a marker changes what they are, and a turn that was the last is judged
otherwise once there is another behind it. `FoldKept` shows that appending an entry nevertheless leaves every earlier position of the
fold as it was, and `FoldAppend` that the new one is the reducer's step. The fold is a recursive function of positions, so facts about it go
by the least position that would contradict them (`PositionInduction`), which needs no operator as a parameter. On top of it: `SpendInv`, that the meter of any
process and the sum over the log agree, worker and model alike, however the meter was re-armed, and a turn was let run by a reading below the cap; `NotesInv`, that a note
is pending until a turn that had it is logged; and the refinement, where each `Commit` is the action of `Reducer` its event's tag names,
and every other step (perform, tear, checkpoint, stop, resume) a stutter, because `RefInv` has the ghost follow the fold until the first extension.

*`JournalProofs`, resumes*: that the first resume goes on with the run (`ResumeContinues`) is about a log and two configurations, the header's and
the one an extension puts over it; `LogInv` says that the log folds under the former, whatever process wrote it. `FirstResumeFolds` compares the two folds position
by position: `Furthers` names the extensions that only let a run go further, `StepFurther` shows that an event the old state takes to a live state takes the new one to the same, and
`FoldFurther` that two folds in step before the last entry are in step at it. `ReliefBuysAStreak` needs the other direction, how an abort
comes about: in `Backed` no streak a state banks is longer than the matching entries the log ends with, and a state that ended in a counted detector has
as many of them behind it as the threshold asks for. The relief is one streak above the old threshold, so the same streak no longer reaches it.
The streaks are functions on positions too; `StreaksAreTrailing` shows that they count a set of entries, so their arithmetic is about cardinalities.
Both parts are stated for runs without self-recovery, where no trip is converted into a recovery that a raised threshold would not spend, and for a log
without markers, because a later resume can lower what an earlier one raised (section 6).

*`TournamentProofs`*: neither property is inductive, because a turn is spread over many log entries and several processes. `TournamentInv` says
which entries are of the turn under way, those behind the last turn (`UnderWay`), that the candidates a live tournament has are the pending ones,
each in one place (`FieldOK`), that the log holds what it began with and what it has marked since (`MarkedOK`), and that a turn about to be
committed, or to be verified, is the last selection and is in the tree (`TurnOK`, `VerifiedOK`). A process that finds a selection therefore finds all
it was made among, and selects the same. `WinnerBeats` shows that there is a best candidate to select, by well-foundedness of the subsets of
who beats whom. That no index of an iteration is logged twice holds over all turns with that number (`LoggedOnce`), which is
also why a later contract reuses an earlier one's candidates (section 6).

*`CallProofs`, contracts*: `PrepareInv`. What is frozen was written: a file not yet on disk is still to do (`Written`), a sealed draft has nothing to
do, and an edit rewrites disk and draft as one (`Sealed`). A steer that was given is in the prompt or the session has been told it, over retries in
fresh sessions (`Steered`).

*`LineageProofs`*: `LineageInv` orders runs (a predecessor's number is smaller, `Ordered`), has every line that verifies name a run that told its lesson
under a nonce drawn once (`LinesOK`), and ties each header to what its predecessor's log says (`RunOK`, `LinkOK`). `ReadIsGenuine` goes through
the reader position by position, as above. That hints count runs is then an injection from the occurrences of a lesson among what was read into the runs that told it. The
depth of a chain of repairs is a function defined by `CHOOSE`; `ChainLength` shows that it is the depth the header carries, by the least run
that would have another, since links lead to earlier runs.

*Only model-checked*: liveness (`Terminates`, `FanOutEnds`, `WaveEnds`, `WaitsEnd`, `CapEndsTheCall`, `AuthoringEnds`), which is out of the
prover's reach, as is ENABLED. Every invariant a passing run checks, and every action property, is stated by a theorem.

`TimeoutStreakExact` is stated for a tree only the agent writes to (`Drifting` is excused by its
definition): the code compares consecutive post-turn hashes, so a change between turns, after an
interruption for example, is invisible to it.

## 6. Findings

`raised_on_resume` is a violation run: a run begun at the lowest autonomy records no baseline in its
header, and a resume at a higher one pins none; its worker commits, HEAD moves, and the
sign-off panel is shown nothing of what it signs.

`bare_repair` is a violation run: a re-contracted bar with no setup, files or tools skips preparation
(`step.ts:485`), so the control against softened repairs neither runs nor is logged, which
`recontract.ts:34` and `prepare.ts:401` say of no bar. `PreparedRepairIsJudgedOrSaid` and `RepairIsCompared`,
which hold, speak of bars that are prepared.

Other disagreements of code and comment met while modelling, which no run repeats; the properties
named are stated so that they hold of the code as it is:

*Loop and log.*
- An oscillation is never excusable (`decide.ts:54`), but an excused no-diff that trips first hides it (`stuck.ts:181`). In a run whose trees
  were a b b a b b the last turn may be excused by a fresh veto although it closes a cycle. If a later turn ends the run in a no-diff, the
  report recommends `--stuck-no-diff false` (`run-report.ts:126`); under it the fold finds the cycle in the past, ends there, throws on the next entry, and the run can no longer be
  resumed. `Furthers`, hence `FirstResumeFolds`, excludes switching off the no-diff detector while the oscillation detector stays on.
- A worker is told that a second unchanged turn aborts the run, but a fresh veto excuses that turn
  (`remediate.ts:49`); self-recovery is promised once per run and accounted per contract (`state.ts:304`).
- The relief of a resume is measured off the header, so a later resume can lower a threshold that an
  earlier one raised; a turn in mid-log then ends the run, the fold throws, and the run can no
  longer be resumed (`replay.ts:61`). `FirstResumeFolds` is about the first resume.
- Raising the token cap does not revive a run that ended over budget at a verdict: only the reading of a turn is judged again (`replay.ts:204`), the
  ones of `VERIFIED` and `SIGNOFF_DECIDED` stay exceeded (against `docs/adr/0012-operator-control.md:53`).
- A resume that lowers the repeat threshold may send a run to adjudication; once that is logged, the fold takes
  the older threshold again (`replay.ts:345`), finds that the red had not tripped it, and the run can no longer be resumed. `Tame` excludes it.
- A checkpoint's torn append is survived by the process, whose next append fuses with the remnant
  (`baseline.ts:147`); `journal` checks checkpoints that fail without leaving bytes.
- What a planner's calls cost is charged live and logged, but not summed (`usage.ts:24`, against its "stay exact" at
  line 57), so a resumed process has forgotten it; `SpendWithinCap` counts what the log's sum counts.
- A wave moves the approver's baseline for a resumed process but not for the live one (`baseline.ts:131`); `journal` resumes no wave.
- Two overlapping acquisitions of the lock both succeed (`lock.ts:51`).
- An egress proxy that fails to start leaves the lock held by a live server (`run-cmd.ts:107`); `LocksAreDriven` excepts it.

*Tournaments and waves.*
- Candidates are found in the log by iteration number, and every contract counts from one; the
  first turn of a second phase selects among the candidates of the first and runs no worker, and
  so does the turn after a winner that crashed (`best-of-driver.ts:169`). `SelectionSound` speaks of one turn, not of one number.
- The one harness is not told of a candidate's worktree and works in the canonical workspace; candidates
  are scored on the baseline, and promotion checks the baseline out over what they wrote (`tournament.ts:216`).
- A candidate whose run crashed or timed out is scored like any other and may win (`docs/reference.md:1169`);
  promotion leaves files git does not track (`git-worktree-host.ts:79`); a tournament that throws after its markers makes
  the next entry repeat their numbers (`best-of-driver.ts:75`); the losers' spend is metered live and absent from the log's sum (`runlog/usage.ts:105`).
- Two members whose contracts chose one path overwrite each other's authored file, so a merged child may be
  re-verified with the other's; a member whose re-verification fails is reported unmerged while its tree stays.

*Server.*
- A run stopped at its Seal logs a rejection and is over, where ADR 0015 has it ask again (`ui-gates.ts:62`).
- "One live run per root" (`start-run.ts:97`) holds between runs of the server. A terminal never looks whether its tree is driven,
  and a request looks at line 103, awaits later begins to drive: a terminal that starts in between is beside it. A removal looks at
  `worktree-manager.ts:171` and deletes at 185 (falling back to deleting the directory when git refuses): the tree of a run
  that starts in between is removed under it, against the comment at 158, and so is its lock, unless the run has still to make one, for which the
  directory is made anew (`lock.ts:45`). `DrivenTreesRefuse` therefore speaks of who looks, and excepts the drivers that lost their lock so.
- Two resumes of one run in the server: the second takes its own pid's lock for stale, and the loser's
  settling unlinks the winner's lock (against `sessions.ts:27`), after which the winner is seen by nobody; excepted likewise.
- `runs watch` may call a run incomplete that logged its end between the read and the probe
  (`watch.ts:76`); a page that reconnects is sent the whole log again, and one that connected before
  its run's session was registered gets no gates until it reconnects; the children of a wave share their parent's gates and
  are refused while one is parked.

*Authors, agents and processes.*
- In a phased follow-up the author of a later phase resumes a conversation that was never told its goal
  (`agent-compiler.ts:392`, `seeded.ts:44`, against `agent-compiler.ts:273`).
- A retry in a fresh session loses what the reviewer said at the Seal; files of refused attempts stay on
  disk, unpinned (`agent-compiler.ts:498`).
- pi resumes whatever conversation its directory saw last, which the judge's calls create too (`pi-codec.ts:285`).
- A descendant that left the process group and holds the pipes keeps a call waiting past its cap (`spawn.ts:33`);
  an exit of zero whose pipes are held until the timer is a timeout.
- A resume with an explicit `--harness` hands the session of the earlier harness to the new CLI (`run-prepare.ts:264`; `codec.ts:257`
  withholds only sentinels and the ambient id), which refuses it, so every turn crashes until a backstop ends the run.
- goaly-code resumes sentinel session ids (`compose-harness.ts:161`, `goaly-code/harness.ts:78`): one file that all runs of a
  workspace share, in which a worker may find what another run's asked. `OwnConversationOnly` excepts both and nothing else.
- goaly-code appends the prompt again on a crash retry, and
  gives shell commands no limit where the harness has none (`compose-harness.ts:181`); codex drops the spend of turns that time out or
  crash; a harness's `truncated` flag is dropped.

*Verification.*
- `git diff <tree>` shows a file created before a checkpoint, and untouched since, as deleted and added
  again (`git-workspace.ts:251`, against `baseline.ts:26`); `JudgeSeesTheWork` asks for at least the delta.
- Under `--delta-verify` a deterministic red is checkpointed too, and what it changed is shown to no judge,
  as the trust model documents; the verify command itself failing to start is red and evaluable.
- The early exit of the refuters may call evaluable what the whole panel could not evaluate; tracked files that are excluded drop out of snapshots; forced
  includes never reach a plain directory's diff (`workspace.ts:126`).

*Memory.*
- A torn line swallows the next genuine record (`corpus.ts`, "the rest still counts"); an empty key file, left by a crash, disables learning
  for good, and clearing the corpus does not remove it.
- A crash between a lesson and its verdict has the run judged again: it may then be found sound while the lesson stays.
- An ordinary follow-up between two re-contracts restarts the depth of the chain (`recontract.ts:33`).

## 7. Not modelled

A step that succeeds here and may fail in the code: a worktree that is handed to removal is gone, where
`removeWorktree` swallows the failure to delete one (`git-worktree-host.ts:72`); `NoWorktreeLeft` says that each is handed over.

A run of `Lineage` has one bar. The corpus tells the bars of a run apart (`corpus.ts:396`), so a phased run could teach one lesson twice:
a verdict that is logged ends the run, so its first verdict would have to be lost in a crash after the lesson was
written, and the resume to raise the threshold that brought the bar before the adjudicator.

Not modelled, though a run depends on it: the agent session a follow-up inherits; the wall-clock budget; the header and
outcome of a log; the file workspace's baselines on disk.

Left out for good: sandbox command lines, telemetry, exports and most of the browser code keep no state
that steers a run; argument parsing and prompt wording are pure text.
