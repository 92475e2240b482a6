------------------------------ MODULE Authoring ------------------------------
(***************************************************************************)
(* How a plan and each phase's contract come to be: the authoring call and *)
(* its session (compile/agent-compiler.ts, plan/agent-planner.ts), the     *)
(* guards on what it answers, the files it writes, the critics that send   *)
(* it back (critiqued-compiler.ts, critiqued-planner.ts), the positive     *)
(* control in a scratch copy (contract-dry-run.ts), the reducer's bounded  *)
(* retries and revisions, and the gate a human or nobody sits at           *)
(* (seal-gates.ts, plan-gates.ts).                                         *)
(*                                                                         *)
(* Phase 0 is the plan; phases 1..phases are the contracts, the last one   *)
(* on the run's own goal.  A file's content is the authoring attempt, or   *)
(* the operator's edit, that wrote it; 0 is no file.  What a session or a  *)
(* prompt says is abstracted to the phases whose goal it has been told and *)
(* the kinds of feedback it carries.                                       *)
(***************************************************************************)
EXTENDS FiniteSetsExt, Functions, Integers

CONSTANTS
  Files,   (* paths a contract's verification files may take *)
  Worlds   (* the configurations authored under *)

ASSUME AuthoringAssumption ==
  \A w \in Worlds :
    /\ w.phases \in Nat \ {0} /\ w.rounds \in Nat /\ w.retries \in Nat /\ w.revisions \in Nat
    /\ w.edits \in Nat
    /\ w.verifier \in {"generate", "existing"} /\ w.planner \in {"none", "agent", "file"}
    /\ w.answers \subseteq [flaw : STRING, files : SUBSET Files, setup : BOOLEAN, tools : BOOLEAN]
    /\ {w.seeded, w.resumes, w.critics, w.satisfiability, w.dryRun, w.human, w.builds} \subseteq BOOLEAN

VARIABLES
  world,
  at,        (* where the run stands *)
  phase,     (* what is being authored *)
  asked,     (* feedback the command carries *)
  given,     (* feedback the author is called with *)
  heard,     (* feedback the prompt the author answered carried *)
  retries, revises, edits, round,
  session,   (* phases told in the author's session, or {} for no session *)
  told,      (* phases told in the conversation that gave the last answer *)
  answer,    (* the answer being turned into a draft *)
  todo,      (* files of the answer still to be written *)
  draft,     (* the frozen plan or contract *)
  disk,      (* the workspace's verification files *)
  writes,    (* authoring attempts that reached the disk *)
  scratch    (* the scratch copy the control runs in, or Empty *)

authoringVars == << world, at, phase, asked, given, heard, retries, revises, edits, round, session, told,
           answer, todo, draft, disk, writes, scratch >>

conversation == << session, told, heard >>
counters == << retries, revises, edits, round >>

Empty == [f \in {} |-> 0]
NoAnswer == [flaw |-> "none", files |-> {}, setup |-> FALSE, tools |-> FALSE]
NoDraft == [pins |-> Empty, setup |-> FALSE, tools |-> FALSE]

Planning == phase = 0

(* A sub-goal's contract is always generated; the user's command, if any,  *)
(* verifies the last phase.                                                *)
Existing == ~Planning /\ world.verifier = "existing" /\ phase = world.phases

Seed == IF world.seeded THEN {"seed"} ELSE {}

-----------------------------------------------------------------------------
(* The authoring call. *)

(* A command to author, with the feedback the reducer puts in it and the   *)
(* seed a follow-up adds to every one.                                     *)
Ask(feedback) ==
  /\ asked' = feedback \cup Seed
  /\ given' = feedback \cup Seed
  /\ round' = 0
  /\ at' = "authoring"

ResumesSession == given # {} /\ world.resumes /\ session # {}

(* A fresh session gets the whole prompt: the goal and all the feedback. *)
Fresh(carried) == heard' = carried /\ told' = {phase}

(* A resumed one gets the feedback alone. *)
Resumed == heard' = given /\ told' = session

(* The guards on an answer, in their order: no object of the right shape   *)
(* (for a plan, or too many phases); a command that measures nothing,      *)
(* reaches outside the repository or the network; authored files run       *)
(* through a mutable script or in the wrong module format; and a goal to   *)
(* build a thing and use it whose files never use it.  A second model is   *)
(* asked for the goal's shape, and its failure is no shape.                *)
Garbled(a) == a.flaw = "garbled"

Vacuous(a) == a.flaw = "vacuous"

OutOfRepo(a) == a.flaw = "outside"

NetworkFetch(a) == a.flaw = "network"

Unloadable(a) == a.flaw \in {"mutable", "format"} /\ a.files # {}

Shapes == {"other"} \cup (IF world.builds THEN {"build and use"} ELSE {})

UsageMissing(a, shape) == shape = "build and use" /\ a.flaw = "unused"

PlanRefused(a) == Planning /\ a.flaw = "garbled"

ContractRefused(a, shape) ==
  ~Planning /\ (Garbled(a) \/ Vacuous(a) \/ OutOfRepo(a) \/ NetworkFetch(a) \/ Unloadable(a)
                \/ UsageMissing(a, shape))

Accept(a, shape) ==
  IF PlanRefused(a) \/ ContractRefused(a, shape)
  THEN at' = "failed" /\ UNCHANGED << answer, todo, draft, writes >>
  ELSE /\ at' = "writing"
       /\ answer' = IF Planning THEN NoAnswer ELSE a
       /\ todo' = answer'.files
       /\ draft' = NoDraft
       /\ writes' = writes + 1

(* The call is answered, at once or by a fresh session after the resumed   *)
(* one failed.  The session is kept even if a guard then refuses.          *)
CallAnswered(a, shape) ==
  /\ at = "authoring" /\ ~Existing /\ ~(Planning /\ world.planner = "file")
  /\ \/ ResumesSession /\ Resumed
     \/ Fresh(given)
  /\ session' = IF world.resumes THEN told' ELSE {}
  /\ Accept(a, shape)
  /\ UNCHANGED << world, phase, asked, given, retries, revises, edits, round, disk, scratch >>

(* The call fails, and when it was a resumed one so does the fresh call    *)
(* that follows.  A fresh call that fails leaves the session as it was.    *)
CallFails ==
  /\ at = "authoring" /\ ~Existing /\ ~(Planning /\ world.planner = "file")
  /\ session' = IF ResumesSession THEN {} ELSE session
  /\ at' = "failed"
  /\ UNCHANGED << world, phase, asked, given, heard, told, counters, answer, todo, draft, disk,
                  writes, scratch >>

(* The user's own plan file, which may not parse, and the user's own       *)
(* command: no model is called and feedback steers nothing.                *)
Given ==
  /\ heard' = given /\ told' = {phase}
  /\ todo' = {} /\ draft' = NoDraft
  /\ UNCHANGED << world, phase, asked, given, counters, session, disk, writes, scratch >>

TakeThePlan(parses) ==
  /\ at = "authoring" /\ Planning /\ world.planner = "file"
  /\ at' = IF parses THEN "writing" ELSE "failed"
  /\ answer' = NoAnswer
  /\ Given

TakeTheCommand(tools) ==
  /\ at = "authoring" /\ Existing
  /\ at' = "writing"
  /\ answer' = [NoAnswer EXCEPT !.tools = tools]
  /\ Given

(* Files are written one by one and pinned by what was written; a path     *)
(* outside the workspace is refused by the writer, mid-way.                *)
WriteFile(f) ==
  /\ at = "writing" /\ f \in todo
  /\ \/ /\ disk' = [disk EXCEPT ![f] = writes]
        /\ todo' = todo \ {f}
        /\ UNCHANGED at
     \/ at' = "failed" /\ UNCHANGED << disk, todo >>
  /\ UNCHANGED << world, phase, asked, given, counters, conversation, answer, draft, writes, scratch >>

HasSetup(a) ==
  \/ world.setup = "user" /\ phase = world.phases
  \/ world.setup # "none" /\ a.setup

(* Every file is pinned by the content written. *)
Frozen(a) == [pins |-> [f \in a.files |-> writes], setup |-> HasSetup(a), tools |-> a.tools]

Freeze ==
  /\ at = "writing" /\ todo = {}
  /\ draft' = Frozen(answer)
  /\ at' = "drafted"
  /\ UNCHANGED << world, phase, asked, given, counters, conversation, answer, todo, disk, writes,
                  scratch >>

-----------------------------------------------------------------------------
(* Before the gate. *)

(* A --plan-file and a --verify-cmd are the user's and never critiqued;    *)
(* the satisfiability critic needs authored files to look at.              *)
CriticsEligible ==
  /\ ~Existing /\ ~(Planning /\ world.planner = "file")
  /\ \/ world.critics
     \/ world.satisfiability /\ ~Planning /\ DOMAIN draft.pins # {}

MoreRounds == CriticsEligible /\ round < world.rounds

BrokenWithCritique == {"critique"}

(* The panel's findings join what the operator asked for. *)
WithCritique == asked \cup {"critique"}

(* Critics that throw or talk nonsense are dropped. *)
Critical(outputs) == "critical" \in outputs \ {"dropped"}

(* None left, none critical, or no round left passes the draft on. *)
Criticise(outputs) ==
  /\ at = "drafted"
  /\ IF Critical(outputs) /\ MoreRounds
     THEN at' = "authoring" /\ given' = WithCritique /\ round' = round + 1
     ELSE at' = "criticised" /\ UNCHANGED << given, round >>
  /\ UNCHANGED << world, phase, asked, retries, revises, edits, conversation, answer, todo, draft,
                  disk, writes, scratch >>

(* The reference implementation's files: each a path and how it is spelt. *)
Spellings == {"plain", "dotted"}

BrokenNamesFrozenFile(file) == file[2] = "plain" /\ file[1] \in DOMAIN draft.pins

(* Any spelling that resolves to a frozen file is discarded. *)
NamesFrozenFile(file) == file[1] \in DOMAIN draft.pins

Controlled == ~Planning /\ ~Existing /\ world.dryRun /\ DOMAIN draft.pins # {}

(* A copy of the workspace with a reference's files on top; version -1 is  *)
(* the reference's.                                                        *)
ScratchCopy(over) == [f \in Files |-> IF f \in over THEN -1 ELSE disk[f]]

(* The control runs in such a copy with the reference's other files; no    *)
(* reference, or none left, or a copy that fails, and it steps aside.      *)
BeginControl(reference) ==
  /\ at = "criticised" /\ Controlled
  /\ LET kept == { file \in reference : ~NamesFrozenFile(file) }
         over == { file[1] : file \in kept } \cap Files
     IN IF kept = {}
        THEN at' = "gate" /\ UNCHANGED scratch
        ELSE /\ scratch' = ScratchCopy(over)
             /\ at' = "control"
  /\ UNCHANGED << world, phase, asked, given, counters, conversation, answer, todo, draft, disk,
                  writes >>

SkipControl ==
  /\ at = "criticised"
  /\ at' = "gate"
  /\ UNCHANGED << world, phase, asked, given, counters, conversation, answer, todo, draft, disk,
                  writes, scratch >>

(* Setup that fails, or a rung that times out, cannot start or overflows,  *)
(* is no verdict; only an exit code of its own refuses the bar.  The copy  *)
(* is destroyed on every way out.                                          *)
EndControl(result) ==
  /\ at = "control"
  /\ at' = IF result = "red" THEN "failed" ELSE "gate"
  /\ scratch' = Empty
  /\ UNCHANGED << world, phase, asked, given, counters, conversation, answer, todo, draft, disk,
                  writes >>

-----------------------------------------------------------------------------
(* The reducer's retries, and the gate. *)

BrokenRetry ==
  /\ at = "failed" /\ retries < world.retries
  /\ retries' = retries + 1 /\ at' = "gate"
  /\ UNCHANGED << world, phase, asked, given, heard, revises, edits, round, session, told, answer,
                  todo, draft, disk, writes, scratch >>

BrokenUncounted ==
  /\ at = "failed" /\ retries < world.retries
  /\ Ask({"reason"})
  /\ UNCHANGED << world, phase, retries, revises, edits, conversation, answer, todo, draft, disk,
                  writes, scratch >>

(* The reason an attempt failed is the feedback of the next. *)
Retry ==
  /\ at = "failed" /\ retries < world.retries
  /\ retries' = retries + 1
  /\ Ask({"reason"})
  /\ UNCHANGED << world, phase, revises, edits, conversation, answer, todo, draft, disk, writes,
                  scratch >>

GiveUp ==
  /\ at = "failed" /\ retries >= world.retries
  /\ at' = "over"
  /\ UNCHANGED << world, phase, asked, given, counters, conversation, answer, todo, draft, disk,
                  writes, scratch >>

Start(p) ==
  /\ phase' = p
  /\ retries' = 0 /\ revises' = 0
  /\ Ask({})

(* needsPreparation: something to set up, to pre-flight or to look for. *)
NeedsPreparation == draft.setup \/ draft.tools \/ DOMAIN draft.pins # {}

ApprovePlan ==
  /\ at = "gate" /\ Planning
  /\ Start(1)
  /\ session' = {}
  /\ UNCHANGED << world, heard, edits, told, answer, todo, draft, disk, writes, scratch >>

ApproveContract ==
  /\ at = "gate" /\ ~Planning
  /\ at' = IF NeedsPreparation THEN "preparing" ELSE "working"
  /\ UNCHANGED << world, phase, asked, given, counters, conversation, answer, todo, draft, disk,
                  writes, scratch >>

(* A gate somebody sits at; an automatic one only ever approves. *)
AtHumanGate == at = "gate" /\ world.human

(* A no, an unknown answer, or an empty note. *)
Reject ==
  /\ AtHumanGate
  /\ at' = "over"
  /\ UNCHANGED << world, phase, asked, given, counters, conversation, answer, todo, draft, disk,
                  writes, scratch >>

(* A note; the cap is the reducer's, and with a cap of zero the gate does  *)
(* not offer it.  A fresh human round gets a fresh retry budget.           *)
Revise ==
  /\ AtHumanGate /\ world.revisions > 0
  /\ IF revises + 1 > world.revisions
     THEN at' = "over" /\ UNCHANGED << asked, given, retries, revises, round >>
     ELSE revises' = revises + 1 /\ retries' = 0 /\ Ask({"revision"})
  /\ UNCHANGED << world, phase, edits, conversation, answer, todo, draft, disk, writes, scratch >>

(* Every pinned file is pinned again by what is on disk now. *)
Repinned == [f \in DOMAIN draft.pins |-> disk'[f]]

(* The operator changes or removes a file, or patches a field (well or     *)
(* not), and asks for the contract to be frozen again: no call, no revise  *)
(* spent, and a file missing or a bad patch is a compile failure.          *)
Edited(f, content, patches) ==
  /\ AtHumanGate /\ ~Planning /\ edits < world.edits
  /\ edits' = edits + 1 /\ retries' = 0
  /\ f \in DOMAIN draft.pins
  /\ disk' = [disk EXCEPT ![f] = content]
  /\ IF patches /\ \A g \in DOMAIN draft.pins : disk'[g] # 0
     THEN draft' = [draft EXCEPT !.pins = Repinned] /\ UNCHANGED at
     ELSE at' = "failed" /\ UNCHANGED draft
  /\ writes' = writes + 1
  /\ UNCHANGED << world, phase, asked, given, revises, round, conversation, answer, todo, scratch >>

-----------------------------------------------------------------------------
AuthoringInit ==
  /\ world \in Worlds
  /\ at = "authoring"
  /\ phase = IF world.planner = "none" THEN 1 ELSE 0
  /\ asked = Seed /\ given = Seed /\ heard = {}
  /\ retries = 0 /\ revises = 0 /\ edits = 0 /\ round = 0
  /\ session = {} /\ told = {}
  /\ answer = NoAnswer /\ todo = {} /\ draft = NoDraft
  /\ disk = [f \in Files |-> 0] /\ writes = 0
  /\ scratch = Empty

References == SUBSET ((Files \cup {"impl"}) \X Spellings)

Call ==
  \/ CallFails
  \/ \E a \in world.answers, shape \in Shapes : CallAnswered(a, shape)
  \/ \E parses \in BOOLEAN : TakeThePlan(parses)
  \/ \E tools \in BOOLEAN : TakeTheCommand(tools)

Write == Freeze \/ \E f \in Files : WriteFile(f)

Control ==
  \/ SkipControl
  \/ \E reference \in References : BeginControl(reference)
  \/ \E result \in {"green", "red", "skipped"} : EndControl(result)

Gate ==
  \/ ApprovePlan
  \/ ApproveContract
  \/ Reject
  \/ Revise
  \/ \E f \in Files, content \in {0, writes + 1}, patches \in BOOLEAN : Edited(f, content, patches)

AuthoringNext ==
  \/ Call
  \/ Write
  \/ \E outputs \in SUBSET {"critical", "clean", "dropped"} : Criticise(outputs)
  \/ Control
  \/ Retry
  \/ GiveUp
  \/ Gate
=============================================================================
