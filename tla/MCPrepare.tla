----------------------------- MODULE MCPrepare ------------------------------
(***************************************************************************)
(* Small instances of authoring and preparing a run's contracts.           *)
(***************************************************************************)
EXTENDS Prepare

CONSTANTS f, g

Answer(flaw, files, setup, tools) ==
  [flaw |-> flaw, files |-> files, setup |-> setup, tools |-> tools]

Flawed ==
  { Answer("garbled", {}, FALSE, FALSE), Answer("vacuous", {f}, FALSE, FALSE),
    Answer("mutable", {f}, FALSE, FALSE), Answer("unused", {f}, FALSE, FALSE) }

World ==
  [phases |-> 1, rounds |-> 1, retries |-> 1, revisions |-> 1, edits |-> 0,
   verifier |-> "generate", planner |-> "none", answers |-> {Answer("none", {f}, FALSE, FALSE)},
   seeded |-> FALSE, resumes |-> TRUE, critics |-> FALSE, satisfiability |-> FALSE,
   dryRun |-> FALSE, human |-> FALSE, builds |-> TRUE, setup |-> "authored",
   recontract |-> FALSE, llm |-> TRUE, install |-> TRUE, rungs |-> 1]

(* Nobody at the gate, and everything the author and the critics may do. *)
Autonomous ==
  [World EXCEPT !.answers = Flawed \cup {Answer("none", {f, g}, FALSE, FALSE)},
                !.critics = TRUE, !.satisfiability = TRUE, !.dryRun = TRUE, !.planner = "agent",
                !.builds = TRUE]

(* An operator who revises and edits. *)
Reviewed ==
  [World EXCEPT !.answers = {Answer("none", {f, g}, TRUE, TRUE), Answer("none", {}, FALSE, FALSE)},
                !.human = TRUE, !.edits = 1, !.critics = TRUE, !.dryRun = TRUE]

(* A phased follow-up from the user's own plan. *)
FollowUp ==
  [World EXCEPT !.phases = 2, !.planner = "file", !.seeded = TRUE, !.retries = 2,
                !.answers = {Answer("none", {f}, FALSE, FALSE)}]

(* A phased run of the user's own command and setup. *)
Existing2 ==
  [World EXCEPT !.phases = 2, !.verifier = "existing", !.planner = "agent", !.setup = "user",
                !.install = FALSE, !.resumes = FALSE]

(* Repairs of a defective bar, with and without files of its own. *)
Repair(verifier, llm) ==
  [World EXCEPT !.recontract = TRUE, !.rungs = 2, !.verifier = verifier, !.setup = "user", !.llm = llm,
                !.answers = {Answer("none", {f}, TRUE, TRUE), Answer("none", {}, FALSE, TRUE)}]

BareRepair == [Repair("existing", TRUE) EXCEPT !.setup = "none"]

(* A repair whose bar is the user's own command, with nothing to prepare. *)
BareRepairs == {BareRepair}

PrepareWorlds ==
  {Autonomous, Reviewed, FollowUp, Existing2, BareRepair}
  \cup { Repair(verifier, llm) : verifier \in {"generate", "existing"}, llm \in BOOLEAN }
  \cup { [Repair("generate", TRUE) EXCEPT !.rungs = 0] }
=============================================================================
