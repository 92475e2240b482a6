------------------------------ MODULE MCVerify ------------------------------
(* Runs whose trees do everything under panels of one, and runs of one turn *)
(* whose panels do.                                                         *)
EXTENDS Verify

Classic == [mode |-> "git", delta |-> FALSE, phases |-> 1, raised |-> FALSE,
            mayRaise |-> FALSE, explicit |-> FALSE, authored |-> TRUE,
            rungs |-> <<"det", "judge">>, gated |-> FALSE,
            quorum |-> 1, refuters |-> 0, panel |-> 1]

Delta == [Classic EXCEPT !.delta = TRUE, !.phases = 2]

TreeScenarios ==
  { [Delta EXCEPT !.raised = TRUE],
    [Delta EXCEPT !.mode = "file", !.rungs = <<"judge">>],
    [Classic EXCEPT !.raised = TRUE, !.explicit = TRUE, !.authored = FALSE],
    [Classic EXCEPT !.phases = 2] }

PanelScenarios ==
  { [Classic EXCEPT !.rungs = <<"judge">>, !.gated = TRUE, !.authored = FALSE,
                    !.quorum = q, !.refuters = r, !.panel = p] :
      q \in {2, 3}, r \in {3, 4}, p \in {3, 4} }

AllScenarios == TreeScenarios \cup PanelScenarios

\* A run begun at the lowest autonomy and resumed at a higher one.
RaisedOnResume == {[Classic EXCEPT !.mayRaise = TRUE, !.authored = FALSE]}

=============================================================================
