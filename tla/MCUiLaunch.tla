----------------------------- MODULE MCUiLaunch -----------------------------
(* The launcher in small worlds: two requests and a terminal. *)
EXTENDS Follow, TLC

CONSTANTS q1, q2, t1, s1, s2, s3, main, tree1, v1

MCRequests == {q1, q2}
MCTerminals == {t1}

(* Three runs of their own; or the terminal resumes the first request's run. *)
Apart  == (q1 :> s1) @@ (q2 :> s2) @@ (t1 :> s3)
Shared == (q1 :> s1) @@ (q2 :> s2) @@ (t1 :> s1)

Only(run, drivers) == [d \in drivers |-> run[d]]

World(run, root, gated, faults) ==
  [run |-> run, root |-> [s \in {s1, s2, s3} |-> root], gated |-> gated,
   rounds |-> 2, entries |-> 2, faults |-> faults]

(* Both requests and the terminal in one tree. *)
Busy == { World(Shared, main, {}, {"refuse", "proxy"}) }

(* Two requests for runs of one tree, then for one and the same run. *)
Reviewed == { World((q1 :> s1) @@ (q2 :> s), main, {q1}, {}) : s \in {s1, s2} }

(* A worktree that requests create and removals take away. *)
Removed == { [World(Only(Apart, {d, q1}), tree1, {q1}, {"remove"}) EXCEPT !.rounds = 1] :
               d \in {q2, t1} }

(* The processes die. *)
Dying == { World(Only(Apart, {q1, q2}), main, {q1}, {"kill"}) }

(* A run that a page and a terminal follow. *)
Followed == { World(Only(Shared, {q1}), main, {q1}, {}) }

MCWatched == [w \in Followed |-> s1]

MCScenarios == Busy \cup Reviewed \cup Removed \cup Dying \cup Followed
=============================================================================
