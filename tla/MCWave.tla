------------------------------- MODULE MCWave -------------------------------
(***************************************************************************)
(* Small instances of a wave.                                              *)
(***************************************************************************)
EXTENDS Wave, TLC

CONSTANTS f1, f2, v0, v1, v2, p1, p2

Tree0 == (f1 :> v0) @@ (f2 :> v0)

World ==
  [edits |-> {f1 :> v1, f2 :> v1}, costs |-> {0}, authored |-> [i \in Members |-> {}],
   turns |-> 1, faults |-> {}, processes |-> 1]

(* Any mix of edits that meet or do not, in one turn each. *)
Merging ==
  [World EXCEPT !.edits = {f1 :> v1, f1 :> v2, f2 :> v1, (f1 :> v1) @@ (f2 :> v2)},
                !.faults = {"child", "merge"}]

(* Turns that spend the shared cap between them. *)
Spending == [World EXCEPT !.edits = {f1 :> v1}, !.costs = {1, 2}, !.turns = 3]

(* Whatever throws or kills, and the wave is performed again. *)
Failing ==
  [World EXCEPT !.authored = [i \in Members |-> {IF i = 0 THEN p1 ELSE p2}], !.processes = 2,
                !.faults = {"fork", "child", "promote", "copy", "verify", "checkpoint", "kill"}]

(* Two contracts that chose the same path for a verification script. *)
Colliding == [World EXCEPT !.authored = [i \in Members |-> {p1}]]

WaveScenarios == {Merging, Spending, Failing, Colliding}
=============================================================================
