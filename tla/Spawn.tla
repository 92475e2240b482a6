------------------------------- MODULE Spawn -------------------------------
(***************************************************************************)
(* One child process of goaly (util/spawn.ts): a command with its output   *)
(* captured, a wall-clock limit, an idle limit that output re-arms, a cap  *)
(* on captured output, and a promise that settles when the last holder of  *)
(* the stdio pipes is gone.                                                *)
(*                                                                         *)
(* Processes: "main" is the spawned command, "helper" a descendant in its  *)
(* process group, "stray" a descendant that moved to a group of its own.   *)
(* All of them hold the pipes while alive.  Time is counted in ticks.      *)
(***************************************************************************)
EXTENDS Integers, Sequences, FiniteSets

CONSTANTS
  Wall,       \* the wall-clock limit of a call, in ticks
  Idle,       \* the idle limit, in ticks, where a call sets one
  Lines       \* the kinds of output line the command produces, in order

ASSUME LimitsAssumption == Wall \in Nat \ {0} /\ Idle \in Nat \ {0}
ASSUME LinesAssumption == Lines \in Seq(STRING)

VARIABLE child

Processes == {"main", "helper", "stray"}
Tree(c) == IF c.group THEN {"main", "helper"} ELSE {"main"}

\* No call in progress.
NoChild ==
  [phase |-> "none", group |-> TRUE, idle |-> FALSE, stream |-> FALSE,
   alive |-> {}, forked |-> FALSE, made |-> 0, out |-> {}, code |-> 0,
   age |-> 0, quiet |-> 0, stalled |-> 0,
   timedOut |-> FALSE, reaped |-> FALSE, truncated |-> FALSE]

Running == child.phase = "running"
Settled == child.phase = "settled"

\* The process as runProcess starts it: timers armed, nothing captured.
Launched(s) ==
  [NoChild EXCEPT !.phase = "running", !.alive = {"main"}, !.group = s.group,
                  !.idle = s.idle, !.stream = s.stream]

\* SIGKILL to the group of a detached child, to the lone child otherwise.
KillAll(c) ==
  [c EXCEPT !.alive = @ \ Tree(c),
            !.code = IF "main" \in c.alive THEN 1 ELSE @]

BrokenKill(c) ==
  [c EXCEPT !.alive = @ \ {"main"},
            !.code = IF "main" \in c.alive THEN 1 ELSE @]

Killed(c) == KillAll(c)

\* A chunk on stdout or stderr: ignored once the cap was hit, and a sign of
\* life for the idle timer until then.
Heard(c, lines) ==
  IF c.truncated THEN c ELSE [c EXCEPT !.out = @ \cup lines, !.quiet = 0]

\* The command works: a streaming one prints the line now, a buffering one
\* keeps it for the end.
Work ==
  /\ Running /\ "main" \in child.alive /\ child.made < Len(Lines)
  /\ LET c == [child EXCEPT !.made = @ + 1, !.stalled = 0]
     IN  child' = IF c.stream THEN Heard(c, {Lines[c.made]}) ELSE c

\* A descendant is started, before the first line here; the second kind
\* leaves the group.
Fork(p) ==
  /\ Running /\ "main" \in child.alive /\ ~child.forked /\ child.made = 0 /\ p \in {"helper", "stray"}
  /\ child' = [child EXCEPT !.alive = @ \cup {p}, !.forked = TRUE]

\* The command exits; a buffering one has printed its result if it got one.
Exit(code) ==
  /\ Running /\ "main" \in child.alive
  /\ LET c == [child EXCEPT !.alive = @ \ {"main"}, !.code = code]
     IN  child' = IF c.stream THEN c ELSE Heard(c, {Lines[i] : i \in (1..c.made) \cap {Len(Lines)}})

DescendantEnds(p) ==
  /\ Running /\ p \in child.alive \cap {"helper", "stray"}
  /\ child' = [child EXCEPT !.alive = @ \ {p}]

\* Output past the cap: capture stops and the process is killed.
Overflow ==
  /\ Running /\ child.alive # {} /\ ~child.truncated
  /\ child' = Killed([child EXCEPT !.truncated = TRUE])

Tick ==
  /\ Running /\ child.age < Wall
  /\ child' = [child EXCEPT !.age = @ + 1,
                            !.quiet = IF child.idle /\ @ < Idle THEN @ + 1 ELSE @,
                            !.stalled = IF child.idle /\ @ < Idle THEN @ + 1 ELSE @]

WallFires ==
  /\ Running /\ child.age = Wall /\ ~child.timedOut
  /\ child' = Killed([child EXCEPT !.timedOut = TRUE])

IdleFires ==
  /\ Running /\ child.idle /\ child.quiet = Idle /\ ~child.reaped
  /\ child' = Killed([child EXCEPT !.timedOut = TRUE, !.reaped = TRUE])

\* 'close': no process holds the pipes any more, both timers are cleared.
Close ==
  /\ Running /\ child.alive = {}
  /\ child' = [child EXCEPT !.phase = "settled"]

\* 'error': the command could not be started.
SpawnError ==
  /\ Running /\ child.made = 0 /\ ~child.forked /\ child.age = 0 /\ "main" \in child.alive
  /\ child' = [child EXCEPT !.phase = "settled", !.alive = {}, !.code = 127]

\* A forced shutdown sweeps the children still registered.
SweepChildren(c) == IF c.phase = "running" THEN Killed(c) ELSE c

ChildStep ==
  \/ Work
  \/ \E p \in Processes : Fork(p) \/ DescendantEnds(p)
  \/ \E code \in {0, 1} : Exit(code)
  \/ Overflow \/ Tick \/ WallFires \/ IdleFires \/ Close \/ SpawnError
=============================================================================
