----------------------------- MODULE MCJournal ------------------------------
(***************************************************************************)
(* Small instances of the journal.  Each scenario fixes a configuration    *)
(* and a world in which one family of interruptions happens in full.       *)
(***************************************************************************)
EXTENDS Journal

CONSTANTS h1, h2, f1

Policy ==
  [phased |-> FALSE, parallelPhases |-> FALSE, maxPlanRetries |-> 0, maxPlanRevisions |-> 0,
   maxCompileRetries |-> 0, maxSealRevisions |-> 0, maxIterations |-> 2, candidates |-> 1,
   noDiff |-> TRUE, oscillation |-> TRUE, repeatFailureThreshold |-> 2,
   harnessCrashThreshold |-> 2, unevaluableThreshold |-> 2, timeoutNoDiffThreshold |-> 2,
   autoRemediate |-> FALSE, tokens |-> 99, deltaVerify |-> FALSE, collapse |-> FALSE]

Contract(id, setup, files) ==
  [id |-> id, setup |-> setup, generatedFiles |-> files, requiredTools |-> FALSE]

Plain    == Contract("plain", FALSE, {})
Authored == Contract("authored", TRUE, {f1})

Compiled(contract) == [tag |-> "CONTRACT_COMPILED", contract |-> contract]
Sealed             == [tag |-> "SEAL_DECIDED", decision |-> "approve"]
Prepared           == [tag |-> "WORKSPACE_PREPARED", prepared |-> "proceed"]
Turn(status, hash, tokens, abandoned) ==
  [tag |-> "AGENT_RAN", status |-> status, hash |-> hash, tokensUsed |-> tokens,
   abandoned |-> abandoned]
Green                == [tag |-> "VERIFIED", pass |-> TRUE]
Red(text, files, ev) ==
  [tag |-> "VERIFIED", pass |-> FALSE, evaluable |-> ev,
   detail |-> [signature |-> [text |-> text, names |-> files], noise |-> 0]]
Signed(approval)     == [tag |-> "SIGNOFF_DECIDED", approval |-> approval]
Adjudication(defect) == [tag |-> "CONTRACT_ADJUDICATED", defective |-> defect]

Raise(field, value) == [overlay |-> [k \in {field} |-> value], note |-> FALSE]
NoDetectors == [overlay |-> [k \in {"noDiff", "oscillation"} |-> FALSE], note |-> FALSE]
Note                == [overlay |-> NoOverlay, note |-> TRUE]

World ==
  [results |-> {Compiled(Plain), Sealed}, extensions |-> {Unextended}, rewired |-> {FALSE},
   processes |-> 2, charges |-> {0}, faults |-> {"unwritten"}]

(* A phased run under --delta-verify, killed and resumed, under another wiring or not. *)
OnePhase == [i \in {0} |-> [id |-> "p0", dependsOn |-> Absent, group |-> Absent]]

Interrupted ==
  [config |-> [Policy EXCEPT !.phased = TRUE, !.deltaVerify = TRUE],
   world  |-> [World EXCEPT
     !.results = @ \cup {[tag |-> "PLAN_COMPILED", plan |-> OnePhase],
                         [tag |-> "PLAN_SEAL_DECIDED", decision |-> "approve"],
                         [tag |-> "PHASE_ADVANCED"], Green,
                         Turn("completed", h1, 1, 0), Turn("completed", h2, 1, 0),
                         Signed("approve"), Signed("veto")},
     !.extensions = {Unextended, Note},
     !.rewired = BOOLEAN]]

(* Every counted detector, tripping alone and together; relief and raised knobs. *)
Aborting ==
  [config |-> [Policy EXCEPT !.repeatFailureThreshold = 3],
   world  |-> [World EXCEPT
     !.results = @ \cup {Turn("completed", h1, 1, 0), Turn("completed", h2, 1, 0),
                         Turn("crashed", h1, 0, 0), Red("r1", {}, TRUE), Red("r2", {}, FALSE)},
     !.extensions = {Unextended, Note, Raise("maxIterations", 3), NoDetectors}]]

(* Turns that time out without a change, under wirings that differ. *)
TimingOut ==
  [config |-> [Policy EXCEPT !.maxIterations = 4, !.repeatFailureThreshold = 9],
   world  |-> [World EXCEPT
     !.results = @ \cup {Turn("timeout", h1, 1, 0), Red("r1", {}, TRUE),
                         Red("r2", {}, TRUE)},
     !.extensions = {Unextended, Raise("timeoutNoDiffThreshold", 3)},
     !.rewired = BOOLEAN, !.processes = 3]]

(* A repeated failure that names an authored file is adjudicated, then extended. *)
Adjudicating ==
  [config |-> Policy,
   world  |-> [World EXCEPT
     !.results = {Compiled(Authored), Sealed, Prepared, Turn("completed", h1, 1, 0),
                  Turn("completed", h2, 1, 0), Red("r1", {f1}, TRUE), Green, Signed("veto"),
                  Adjudication(TRUE), Adjudication(FALSE)},
     !.extensions = {Unextended, Note, Raise("repeatFailureThreshold", 4)}]]

(* A cap of three, turns that cost one, an attempt abandoned, models that charge. *)
Spending ==
  [config |-> [Policy EXCEPT !.tokens = 3, !.maxIterations = 3, !.repeatFailureThreshold = 9],
   world  |-> [World EXCEPT
     !.results = @ \cup {Turn("completed", h1, 1, 0), Turn("completed", h2, 1, 1),
                         Red("r1", {}, TRUE), Green,
                         Signed("veto")},
     !.extensions = {Unextended, Raise("tokens", 5)},
     !.charges = {0, 1}]]

JournalScenarios == {Interrupted, Aborting, TimingOut, Adjudicating, Spending}

=============================================================================
