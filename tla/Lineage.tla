------------------------------ MODULE Lineage -------------------------------
(***************************************************************************)
(* Runs that descend from runs (src/src/followup): a follow-up is authored *)
(* with a digest of the run it builds on, a re-contract with the brief of  *)
(* the bar it repairs; both survive in the header of its log, for --resume *)
(* and --from-run exclude each other.  A condemned bar also leaves a       *)
(* lesson in the corpus, for every later run.                              *)
(*                                                                         *)
(* Of a run's log: its header, the stage its events fold to, the feedback, *)
(* the contract and the verdict they carry.  Of its process: the seed and  *)
(* the hints it was composed with, and the provenance it was started with. *)
(* A seed is [kind, of, contract, verdict].                                *)
(***************************************************************************)
EXTENDS Corpus

CONSTANTS
  Runs,           (* the runs, in the order they may be started *)
  Context,        (* what each run's contract betrays of its language *)
  Lessons,        (* anti-patterns an adjudicator may name *)
  MaxRecontracts,
  MaxAuthorings,  (* bound: compilations of a run *)
  Scenarios       (* [runs, live, faults]: bounds on the runs started, on those *)
                  (* alive at a time, on crashes, copied lines, cleared files   *)

ASSUME LineageAssumption ==
  /\ Runs \subseteq Nat \ {0}
  /\ MaxRecontracts \in Nat /\ MaxAuthorings \in Nat
  /\ Scenarios \subseteq [runs : Nat, live : Nat, faults : Nat]
  /\ Effort \subseteq Lessons

VARIABLES
  world,
  log,       (* what each run's log holds *)
  proc,      (* each run's process, or Down *)
  prompts,   (* the seed and hints of every authoring attempt *)
  told,      (* the lessons each run's adjudicator gave *)
  asked,     (* what the negative control of each run was shown, or was said *)
             (* to be the reason for showing it nothing                      *)
  minted,    (* nonces drawn *)
  faults

vars == << corpusVars, world, log, proc, prompts, told, asked, minted, faults >>

NoSeed == [kind |-> "none", of |-> 0, contract |-> 0, verdict |-> None]

NoProvider == [NoSeed EXCEPT !.kind = "no provider"]

Unexecuted == [NoSeed EXCEPT !.kind = "unexecuted"]

Header(kind, pred, depth, seed) == [kind |-> kind, pred |-> pred, depth |-> depth, seed |-> seed]

NoLog == [header |-> Header("none", 0, 0, NoSeed), stage |-> "none", note |-> FALSE,
          contract |-> 0, t0 |-> "unrun", verdict |-> "none", lesson |-> None]

Down == [stage |-> "down", seed |-> NoSeed, hints |-> {}, successor |-> FALSE, llm |-> FALSE,
         record |-> None]

Init ==
  /\ world \in Scenarios /\ InitCorpus
  /\ log = [r \in Runs |-> NoLog] /\ proc = [r \in Runs |-> Down]
  /\ prompts = [r \in Runs |-> {}] /\ told = [r \in Runs |-> {}]
  /\ asked = [r \in Runs |-> NoSeed]
  /\ minted = 0 /\ faults = 0

Started(r) == log[r].stage # "none"

(* A process composes once: hints are read then, and its provider is chosen. *)
Launch(r, stage, seed, successor) ==
  /\ Cardinality({ q \in Runs : proc[q].stage # "down" }) < world.live
  /\ \E llm \in BOOLEAN :
       proc' = [proc EXCEPT ![r] = [Down EXCEPT !.stage = stage, !.seed = seed, !.hints = Hints,
                                                !.successor = successor, !.llm = llm]]

-----------------------------------------------------------------------------
(* Beginning a run. *)

Begin(r, header) ==
  /\ ~Started(r) /\ r <= world.runs
  /\ \A q \in Runs : q < r => Started(q)
  /\ log' = [log EXCEPT ![r] = [NoLog EXCEPT !.header = header, !.stage = "compiling"]]
  /\ Launch(r, "running", header.seed, header.kind = "recontract")
  /\ UNCHANGED << corpusVars, world, prompts, told, asked, minted, faults >>

Fresh(r) == Begin(r, Header("fresh", 0, 0, NoSeed))

(* How a run ended, as a reader of its log sees it. *)
Status(p) == IF log[p].stage \in {"DONE", "ABORTED"} THEN log[p].stage ELSE "INCOMPLETE"

CompactRun(p) ==
  [kind |-> "digest", of |-> p, contract |-> log[p].contract, verdict |-> Status(p)]

FollowUp(r, p) == Started(p) /\ p # r /\ Begin(r, Header("followup", p, 0, CompactRun(p)))

RecontractSeed(p) ==
  [kind |-> "brief", of |-> p, contract |-> log[p].contract, verdict |-> log[p].lesson]

(* How often the chain a successor of p would end has been repaired. *)
Depth(p) == log[p].header.depth + 1

(* The log says that goaly's own adjudicator condemned the bar. *)
PlanRecontract(p) ==
  /\ log[p].verdict = "defective" /\ Status(p) = "ABORTED"
  /\ log[p].contract # 0
  /\ Depth(p) <= MaxRecontracts

Recontract(r, p) ==
  PlanRecontract(p) /\ Begin(r, Header("recontract", p, Depth(p), RecontractSeed(p)))

-----------------------------------------------------------------------------
(* Resuming it. *)

BrokenResumeAuthoringSeed(header) == IF header.kind = "followup" THEN header.seed ELSE NoSeed

(* The digest as it was recorded; the brief, put together again. *)
ResumeAuthoringSeed(header) == header.seed

BrokenAdopted(header) == FALSE

(* The provenance the header recorded. *)
Adopted(header) == header.kind = "recontract"

(* A run that was about to be judged may be given a longer streak instead. *)
Resume(r) ==
  /\ proc[r].stage = "down" /\ log[r].stage \notin {"none", "DONE", "ABORTED"}
  /\ Launch(r, "running", ResumeAuthoringSeed(log[r].header), Adopted(log[r].header))
  /\ \/ UNCHANGED log
     \/ log[r].stage = "adjudicating" /\ log' = [log EXCEPT ![r].stage = "working"]
  /\ UNCHANGED << corpusVars, world, prompts, told, asked, minted, faults >>

-----------------------------------------------------------------------------
(* A run. *)

At(r, stage) == proc[r].stage = "running" /\ log[r].stage = stage

UnchangedByRun == UNCHANGED << corpusVars, world, told, minted, faults >>

(* The seed rides every attempt, before the note the attempt answers. *)
CombineFeedback(r) == [seed |-> proc[r].seed, hints |-> proc[r].hints, note |-> log[r].note]

Compile(r) ==
  /\ At(r, "compiling") /\ log[r].contract < MaxAuthorings
  /\ prompts' = [prompts EXCEPT ![r] = @ \cup {CombineFeedback(r)}]
  /\ log' = [log EXCEPT ![r].stage = "sealing", ![r].note = FALSE, ![r].contract = @ + 1]
  /\ UNCHANGED << proc, asked >> /\ UnchangedByRun

(* An approved bar is prepared, unless it has no setup, files or tools to  *)
(* prepare: a bare command goes to the loop as it is.                      *)
Seal(r) ==
  /\ At(r, "sealing")
  /\ \/ \E next \in {"preparing", "working"} :
          log' = [log EXCEPT ![r].stage = next] /\ UNCHANGED proc
     \/ log' = [log EXCEPT ![r].stage = "compiling", ![r].note = TRUE] /\ UNCHANGED proc
     \/ log' = [log EXCEPT ![r].stage = "ABORTED"] /\ proc' = [proc EXCEPT ![r] = Down]
  /\ UNCHANGED << prompts, asked >> /\ UnchangedByRun

(* What a repair's bar does before the first turn: it fails, it passes, or *)
(* it cannot be executed, for want of its tools or of a rung to run, or    *)
(* because a rung throws.  Of other bars it is not kept.                   *)
Starts(r) ==
  IF log[r].header.kind = "recontract" THEN {"red", "green", "unknown"} ELSE {"unrun"}

(* A successor's bar that passes at once is compared with the old one; a   *)
(* control that cannot run is logged.                                      *)
Control(r, t0) ==
  IF ~proc[r].successor THEN NoSeed
  ELSE IF t0 = "green" THEN IF proc[r].llm THEN log[r].header.seed ELSE NoProvider
  ELSE IF t0 = "unknown" THEN Unexecuted
  ELSE NoSeed

(* Tools, a setup or a classifier may end the run instead. *)
Prepare(r) ==
  /\ At(r, "preparing")
  /\ \/ \E t0 \in Starts(r) :
          /\ log' = [log EXCEPT ![r].stage = "working", ![r].t0 = t0]
          /\ asked' = [asked EXCEPT ![r] = Control(r, t0)]
          /\ UNCHANGED proc
     \/ /\ log' = [log EXCEPT ![r].stage = "ABORTED"]
        /\ proc' = [proc EXCEPT ![r] = Down]
        /\ UNCHANGED asked
  /\ UNCHANGED prompts /\ UnchangedByRun

(* The loop, which is Reducer's subject, ends one way or the other. *)
Loop(r) ==
  /\ At(r, "working")
  /\ \/ log' = [log EXCEPT ![r].stage = "adjudicating"] /\ UNCHANGED proc
     \/ log' = [log EXCEPT ![r].stage = "DONE"] /\ proc' = [proc EXCEPT ![r] = Down]
  /\ UNCHANGED << prompts, asked >> /\ UnchangedByRun

-----------------------------------------------------------------------------
(* Judging its bar. *)

Judged(r, verdict, lesson) ==
  /\ log' = [log EXCEPT ![r].stage = "ABORTED", ![r].verdict = verdict, ![r].lesson = lesson]
  /\ proc' = [proc EXCEPT ![r] = Down]

(* Nobody to ask, an answer that does not parse, or a bar that is sound. *)
FindSound(r) ==
  /\ At(r, "adjudicating")
  /\ Judged(r, "sound", None)
  /\ UNCHANGED << prompts, asked >> /\ UnchangedByRun

(* What is to be logged and learned once the adjudicator has condemned it. *)
(* A run has one bar here: a verdict that is logged ends it (step.ts:       *)
(* stepAdjudicating), so it can condemn the bars of two phases only if the  *)
(* first verdict was lost and the resume raised the threshold it rests on.  *)
Condemn(r) ==
  /\ At(r, "adjudicating") /\ proc[r].llm
  /\ \E lesson \in Lessons :
       /\ told' = [told EXCEPT ![r] = @ \cup {lesson}]
       /\ proc' = [proc EXCEPT
            ![r].stage = "learning",
            ![r].record = [lesson |-> lesson,
                           line |-> FromAdjudication(minted + 1, r, Context[r], lesson)]]
  /\ minted' = minted + 1
  /\ UNCHANGED << corpusVars, world, log, prompts, asked, faults >>

SetStage(r, stage) == proc' = [proc EXCEPT ![r].stage = stage]

Learning(r) == proc[r].stage = "learning" /\ proc[r].record.line # None

EnsureKey(r) ==
  /\ Learning(r) /\ CreateKey
  /\ SetStage(r, "minting")
  /\ UNCHANGED << world, log, prompts, told, asked, minted, faults >>

MintKey(r) ==
  /\ proc[r].stage = "minting" /\ FillKey(r)
  /\ SetStage(r, "learning")
  /\ UNCHANGED << world, log, prompts, told, asked, minted, faults >>

Learn(r) ==
  /\ Learning(r) /\ KeyReadable
  /\ AppendLine(proc[r].record.line, key)
  /\ SetStage(r, "learned")
  /\ UNCHANGED << world, log, prompts, told, asked, minted, faults >>

(* The verdict, once its lesson is written or cannot be. *)
LogVerdict(r) ==
  /\ \/ proc[r].stage = "learned"
     \/ proc[r].stage = "learning" /\ (proc[r].record.line = None \/ key = EmptyKey)
  /\ Judged(r, "defective", proc[r].record.lesson)
  /\ UNCHANGED << prompts, asked >> /\ UnchangedByRun

-----------------------------------------------------------------------------
(* Faults. *)

Fault == faults < world.faults /\ faults' = faults + 1

Crash(r) ==
  /\ proc[r].stage # "down" /\ Fault
  /\ proc' = [proc EXCEPT ![r] = Down]
  /\ \/ UNCHANGED corpusVars
     \/ Learning(r) /\ KeyReadable /\ TearLine(proc[r].record.line, key)
  /\ UNCHANGED << world, log, prompts, told, asked, minted >>

(* A genuine line again, or one signed with another key. *)
Copy ==
  /\ Fault
  /\ \E i \in { j \in DOMAIN lines : lines[j] # Junk } :
       Tamper(lines[i]) \/ Tamper([lines[i] EXCEPT !.key = Foreign])
  /\ UNCHANGED << world, log, proc, prompts, told, asked, minted >>

ClearCorpus == Fault /\ Clear /\ UNCHANGED << world, log, proc, prompts, told, asked, minted >>

Next ==
  \/ \E r \in Runs :
       \/ Fresh(r) \/ Resume(r) \/ \E p \in Runs : FollowUp(r, p) \/ Recontract(r, p)
       \/ Compile(r) \/ Seal(r) \/ Prepare(r) \/ Loop(r)
       \/ FindSound(r) \/ Condemn(r) \/ EnsureKey(r) \/ MintKey(r) \/ Learn(r) \/ LogVerdict(r)
       \/ Crash(r)
  \/ Copy \/ ClearCorpus

Spec == Init /\ [][Next]_vars

-----------------------------------------------------------------------------
(* Properties. *)

(* A hint is counted once for each run that was told its lesson: neither   *)
(* copied lines, nor a run that is judged again because its first verdict  *)
(* was lost, nor torn or foreign lines make a pattern look more frequent   *)
(* to the compiler than it was (corpus.ts: ReplayGuard, over read).  The   *)
(* guard tells apart the bars of one run, of which each has one here.      *)
HintsCountRuns ==
  \A r \in Runs : \A prompt \in prompts[r] : \A hint \in prompt.hints :
    hint.occurrences <= Cardinality({ q \in Runs : hint.lesson \in told[q] })

(* Every attempt to author the bar of a derived run, those of a process    *)
(* resumed before the freeze included, has its predecessor in view, and    *)
(* the brief of a repair names the contract and the verdict that are in    *)
(* the predecessor's log (followup-wiring.ts: resumeAuthoringSeed).        *)
SeedSurvivesResume ==
  \A r \in Runs : \A prompt \in prompts[r] :
    /\ prompt.seed = log[r].header.seed
    /\ log[r].header.kind = "recontract" => prompt.seed = RecontractSeed(log[r].header.pred)

(* A successor whose bar was prepared and passed before its first turn has *)
(* been compared with the bar it repairs, and one that could not be        *)
(* executed then is logged as not compared, in the process that began the  *)
(* run or in one that resumed it (bootstrap.ts: the header's provenance is *)
(* re-adopted).  Only a missing provider excuses the comparison.  Of a bar *)
(* that has nothing to prepare it says nothing: the code neither runs nor  *)
(* logs that one (Prepare, RepairIsJudgedOrSaid).                          *)
RepairIsCompared ==
  \A r \in Runs :
    log[r].header.kind = "recontract" /\ At(r, "working") =>
      /\ log[r].t0 = "green" => asked[r] \in {log[r].header.seed, NoProvider}
      /\ log[r].t0 = "unknown" => asked[r] = Unexecuted

(* However a chain of re-contracts was planned, crashed and resumed, it is *)
(* no longer than --max-recontracts, and each link repairs a bar its       *)
(* predecessor's own adjudicator condemned (recontract.ts: the depth in    *)
(* the predecessor's header).                                              *)
ChainIsBounded ==
  LET chain[r \in Runs] ==
        IF log[r].header.kind = "recontract" THEN chain[log[r].header.pred] + 1 ELSE 0
  IN  \A r \in Runs :
        /\ chain[r] <= MaxRecontracts
        /\ chain[r] > 0 => log[log[r].header.pred].verdict = "defective"

(***************************************************************************)
(* A chain of re-contracts repairs what was condemned: each link names a   *)
(* bar its own run condemned, one that is prepared is compared with it or  *)
(* said not to be, and the chain ends.                                     *)
(***************************************************************************)
RepairsAreReal ==
  /\ ChainIsBounded
  /\ RepairIsCompared
=============================================================================
