----------------------------- MODULE MCLineage ------------------------------
(* Three runs, the second and third free to descend from those before them. *)
EXTENDS Lineage

Bars == [r \in {1, 2, 3} |->
  CASE r = 1 -> [files |-> <<"ts">>, tools |-> << >>, runner |-> "vitest"]
    [] r = 2 -> [files |-> <<"unknown">>, tools |-> << >>, runner |-> "vitest"]
    [] r = 3 -> [files |-> << >>, tools |-> <<"py">>, runner |-> "unknown"]]

Implied == [r \in {"vitest", "unknown"} |-> IF r = "vitest" THEN "js" ELSE "unknown"]

Shared == {<<"js", "ts">>, <<"ts", "js">>}

(* Two runs side by side, two with more faults, and three one after the other. *)
Worlds == {[runs |-> 2, live |-> 2, faults |-> 1], [runs |-> 2, live |-> 1, faults |-> 2],
           [runs |-> 3, live |-> 1, faults |-> 1]}

Found == {[language |-> "js", runner |-> "vitest"]}
=============================================================================
