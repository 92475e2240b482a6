------------------------------ MODULE UiLaunch ------------------------------
(***************************************************************************)
(* The web UI's launcher (src/src/ui/start-run.ts, sessions.ts, ui-gates   *)
(* .ts): requests that start or resume a run inside the server process,    *)
(* beside drivers in terminals, in working trees that requests create and  *)
(* remove.  A run asks for its Seal by parking a gate in server memory.    *)
(*                                                                         *)
(* Requests interleave at their awaits.  The lock of a run directory is    *)
(* taken in one step: its calls are RunLock's subject.  What a run does is *)
(* Reducer's; here it compiles, asks for the Seal, takes turns and ends.   *)
(***************************************************************************)
EXTENDS Integers, FiniteSets

CONSTANTS
  Requests,   (* start and resume requests to the server *)
  Terminals,  (* drivers in processes of their own *)
  Main,       (* the main workspace *)
  Scenarios,  (* worlds the server is checked in *)
  Nobody

Drivers == Requests \cup Terminals

(* run: who comes, and for which run.  root: where each run lives.  gated:  *)
(* requests with the browser gate.  rounds: gates a run may ask for.        *)
ASSUME LaunchAssumption ==
  /\ Requests \cap Terminals = {} /\ Nobody \notin Drivers
  /\ Nobody \notin {<< "server", 1 >>, << "server", 2 >>}
  /\ \A t \in Terminals : Nobody # << "terminal", t >>
  /\ \A w \in Scenarios :
       /\ w = [run |-> w.run, root |-> w.root, gated |-> w.gated, rounds |-> w.rounds,
               entries |-> w.entries, faults |-> w.faults]
       /\ DOMAIN w.run \subseteq Drivers /\ \A d \in DOMAIN w.run : w.run[d] \in DOMAIN w.root
       /\ w.gated \subseteq Requests
       /\ w.rounds \in Nat /\ w.entries \in Nat
       /\ w.faults \subseteq {"refuse", "proxy", "kill", "remove"}

VARIABLES
  world,
  pc,        (* where each driver is *)
  at,        (* the stage its run is at, in its memory *)
  unguarded, (* drivers whose lock file another has taken away *)
  lock,      (* the process named in each run's lock file, or Nobody *)
  sessions,  (* requests whose runs are registered *)
  stopping,  (* drivers asked to stop *)
  gate,      (* each request's gates: asked so far, parked, and decided *)
  answers,   (* approvals between their drift check and the gate *)
  log,       (* each run's directory, its entries, and the stage they fold to *)
  tree,      (* each tree: absent, clean or dirty *)
  removal,   (* a removal of each tree *)
  life       (* the life of the server process *)

vars == << world, pc, at, unguarded, lock, sessions, stopping, gate, answers, log, tree,
           removal, life >>

Run(d)  == world.run[d]
Root(d) == world.root[Run(d)]

RunsIn(r) == { s \in DOMAIN world.root : world.root[s] = r }

Process(d) == IF d \in Requests THEN << "server", life >> ELSE << "terminal", d >>

(* Past the acquisition of its lock. *)
Live(d) == pc[d] \in {"booting", "between", "doing", "parked", "unwinding"}

IsAlive(p) ==
  \/ p = << "server", life >>
  \/ \E t \in Terminals : p = << "terminal", t >> /\ (Live(t) \/ pc[t] = "preparing")

AnyRunLockActive(r) == \E s \in RunsIn(r) : lock[s] # Nobody /\ IsAlive(lock[s])

NoLog  == [dir |-> FALSE, entries |-> 0, stage |-> "compile"]
NoGate == [asked |-> 0, parked |-> 0, decided |-> {}]

(* A tree is made, or found; so is a run's directory, with what is above it. *)
MakeDirectory(d) == tree' = [tree EXCEPT ![Root(d)] = IF @ = "absent" THEN "clean" ELSE @]

To(d, where) == pc' = [pc EXCEPT ![d] = where]

(* All a request changes before it takes a lock is where it is. *)
UnchangedByRequest ==
  UNCHANGED << world, at, unguarded, lock, sessions, stopping, gate, answers, log, removal, life >>

-----------------------------------------------------------------------------
(* A request on its way to a run. *)

BrokenClashes(d) == {}

Clashes(d) == { e \in sessions : Root(e) = Root(d) }

(* The worktree is made or found; a registered run in the tree refuses. *)
Arrive(d) ==
  /\ pc[d] = "idle" /\ d \in Requests
  /\ To(d, IF Clashes(d) = {} THEN "probing" ELSE "refused")
  /\ MakeDirectory(d)
  /\ UnchangedByRequest

(* Any live lock in the tree refuses, a terminal's too. *)
Probe(d) ==
  /\ pc[d] = "probing"
  /\ To(d, IF AnyRunLockActive(Root(d)) THEN "refused" ELSE "preparing")
  /\ UNCHANGED tree /\ UnchangedByRequest

(* Bad flags, no such run, a failed preflight; and a terminal that starts, *)
(* which looks for no lock but its own run's.                              *)
Prepare(d) ==
  /\ \/ pc[d] = "preparing" /\ "refuse" \in world.faults /\ To(d, "refused")
     \/ pc[d] = "idle" /\ d \in Terminals /\ tree[Root(d)] # "absent" /\ To(d, "preparing")
  /\ UNCHANGED tree /\ UnchangedByRequest

BrokenHeld(d) == FALSE

(* What another process drives; a file naming one's own is taken for stale. *)
Held(d) == lock[Run(d)] \notin {Nobody, Process(d)} /\ IsAlive(lock[Run(d)])

(* The lock, the id reported, the session registered, before any other await; *)
(* who lost the race to a concurrent start is stopped and refused.  A run     *)
(* directory that is gone, and its tree with it, is made again for the lock.  *)
Acquire(d) ==
  /\ pc[d] = "preparing"
  /\ IF Held(d)
     THEN To(d, "refused") /\ UNCHANGED << lock, sessions, stopping, log, tree >>
     ELSE /\ To(d, "booting")
          /\ MakeDirectory(d) /\ log' = [log EXCEPT ![Run(d)].dir = TRUE]
          /\ lock' = [lock EXCEPT ![Run(d)] = Process(d)]
          /\ sessions' = sessions \cup { e \in {d} \cap Requests : Clashes(d) = {} }
          /\ stopping' = stopping \cup { e \in {d} \cap Requests : Clashes(d) # {} }
  /\ UNCHANGED << world, at, unguarded, gate, answers, removal, life >>

-----------------------------------------------------------------------------
(* A run. *)

UnchangedByRun == UNCHANGED << world, answers, removal, life >>

(* An entry of run s, after which its log folds to the given stage. *)
Logged(s, stage) ==
  log' = [log EXCEPT ![s] = [dir |-> TRUE, entries |-> @.entries + 1, stage |-> stage]]

(* A step is logged and taken; where the directory is gone the run aborts. *)
Commit(d, stage) ==
  IF log[Run(d)].dir
  THEN To(d, "between") /\ at' = [at EXCEPT ![d] = stage] /\ Logged(Run(d), stage)
  ELSE To(d, "unwinding") /\ UNCHANGED << at, log >>

(* The header, for which the directory is made, or the marker of a resume; *)
(* then the log is folded.                                                 *)
Boot(d) ==
  /\ pc[d] = "booting"
  /\ To(d, "between")
  /\ at' = [at EXCEPT ![d] = log[Run(d)].stage]
  /\ MakeDirectory(d) /\ Logged(Run(d), log[Run(d)].stage)
  /\ UNCHANGED << unguarded, lock, sessions, stopping, gate >> /\ UnchangedByRun

(* The egress proxy does not start: thrown past the lock's release. *)
ProxyThrows(d) ==
  /\ "proxy" \in world.faults /\ pc[d] = "booting"
  /\ To(d, "thrown") /\ sessions' = sessions \ {d}
  /\ UNCHANGED << at, unguarded, lock, stopping, gate, log, tree >> /\ UnchangedByRun

(* Between two steps: the stop probe, and a run that is over. *)
Leave(d) ==
  /\ pc[d] = "between" /\ (d \in stopping \/ at[d] = "over")
  /\ To(d, "unwinding")
  /\ UNCHANGED << at, unguarded, lock, sessions, stopping, gate, log, tree >> /\ UnchangedByRun

Begin(d) ==
  /\ pc[d] = "between" /\ d \notin stopping /\ at[d] \in {"compile", "turn"}
  /\ To(d, "doing")
  /\ UNCHANGED << at, unguarded, lock, sessions, stopping, gate, log, tree >> /\ UnchangedByRun

(* A turn may be the last; a log at its bound ends the run. *)
After(d) ==
  CASE at[d] = "compile" -> {"seal"}
    [] log[Run(d)].entries >= world.entries -> {"over"}
    [] OTHER -> {"turn", "over"}

End(d) ==
  /\ pc[d] = "doing"
  /\ \E stage \in After(d) : Commit(d, stage)
  /\ \/ UNCHANGED tree
     \/ tree[Root(d)] # "absent" /\ tree' = [tree EXCEPT ![Root(d)] = "dirty"]
  /\ UNCHANGED << unguarded, lock, sessions, stopping, gate >> /\ UnchangedByRun

(* A resume whose log was removed with the tree finds nothing to fold. *)
Lost(d) ==
  /\ pc[d] = "booting" /\ log[Run(d)].entries = 0
  /\ removal[Root(d)].stage \in {"removed", "overrode"}
  /\ To(d, "unwinding")
  /\ UNCHANGED << at, unguarded, lock, sessions, stopping, gate, log, tree >> /\ UnchangedByRun

BrokenReleased(d) == lock

Released(d) == [lock EXCEPT ![Run(d)] = Nobody]

(* executeRun returns: the lock is unlinked, the session forgotten.  The file *)
(* goes whoever is named in it: a twin of the run is left without one.        *)
Settle(d) ==
  /\ pc[d] = "unwinding"
  /\ To(d, "ended") /\ lock' = Released(d) /\ sessions' = sessions \ {d}
  /\ unguarded' = unguarded \cup { e \in Drivers \ {d} : Live(e) /\ Run(e) = Run(d) }
  /\ UNCHANGED << at, stopping, gate, log, tree >> /\ UnchangedByRun

-----------------------------------------------------------------------------
(* The Seal. *)

(* A gate under a fresh id; without the browser gate the Seal accepts. *)
Ask(d) ==
  /\ pc[d] = "between" /\ d \notin stopping /\ at[d] = "seal"
  /\ IF d \in world.gated
     THEN /\ To(d, "parked")
          /\ gate' = [gate EXCEPT ![d].asked = @ + 1, ![d].parked = gate[d].asked + 1]
          /\ UNCHANGED << at, log >>
     ELSE Commit(d, "turn") /\ UNCHANGED gate
  /\ UNCHANGED << unguarded, lock, sessions, stopping, tree >> /\ UnchangedByRun

(* A revision, or an edit made by hand, compiles again, within the bound. *)
Outcome(d, decision) ==
  CASE decision = "approve" -> "turn"
    [] decision = "reject"  -> "over"
    [] OTHER -> IF gate[d].asked < world.rounds THEN "compile" ELSE "over"

(* The parked gate takes a decision addressed to gate g, and it is logged. *)
Decide(d, g, decision) ==
  /\ gate' = [gate EXCEPT ![d].parked = 0,
                          ![d].decided = @ \cup {[gate |-> gate[d].parked, addressed |-> g]}]
  /\ Commit(d, Outcome(d, decision))

BrokenNames(d, g) == gate[d].parked # 0

(* A stale or unknown gate id is refused. *)
Names(d, g) == gate[d].parked # 0 /\ gate[d].parked = g

UnchangedByAnswer == UNCHANGED << world, unguarded, lock, sessions, tree, removal, life >>

Answer(d, g, decision) ==
  /\ d \in sessions /\ Names(d, g)
  /\ Decide(d, g, decision)
  /\ UNCHANGED << stopping, answers >> /\ UnchangedByAnswer

(* An approval first reads the authored files; drift refuses it. *)
CheckDrift(d, g) ==
  /\ d \in sessions /\ gate[d].parked = g
  /\ answers' = answers \cup {<< d, g >>}
  /\ UNCHANGED << pc, at, gate, log, stopping >> /\ UnchangedByAnswer

Approve(d, g) ==
  /\ << d, g >> \in answers
  /\ answers' = answers \ {<< d, g >>}
  /\ IF Names(d, g) THEN Decide(d, g, "approve") ELSE UNCHANGED << pc, at, gate, log >>
  /\ UNCHANGED stopping /\ UnchangedByAnswer

BrokenStopGates(d) == UNCHANGED << pc, at, gate, log >>

(* Any parked gate is rejected: the stop probe alone cannot wake it. *)
StopGates(d) ==
  IF gate[d].parked # 0 THEN Decide(d, 0, "reject") ELSE UNCHANGED << pc, at, gate, log >>

(* The stop route, a shutdown, and Ctrl-C in a terminal. *)
Stop(d) ==
  /\ d \in sessions \cup { t \in Terminals : Live(t) }
  /\ d \notin stopping
  /\ stopping' = stopping \cup {d}
  /\ StopGates(d)
  /\ UNCHANGED answers /\ UnchangedByAnswer

-----------------------------------------------------------------------------
(* Worktrees, and processes that die. *)

NoRemoval == [stage |-> "none", force |-> FALSE]

(* A live run refuses even with force; uncommitted changes refuse without. *)
CheckRemoval(r, force) ==
  /\ "remove" \in world.faults /\ r # Main
  /\ removal[r].stage = "none" /\ tree[r] # "absent"
  /\ ~AnyRunLockActive(r) /\ (force \/ tree[r] # "dirty")
  /\ removal' = [removal EXCEPT ![r] = [stage |-> "checked", force |-> force]]
  /\ UNCHANGED << world, pc, at, unguarded, lock, sessions, stopping, gate, answers, log, tree,
                  life >>

(* Nobody looks again.  git's own refusal of a dirty tree is overridden by  *)
(* deleting the directory; locks and logs go with it, whoever drives there. *)
Remove(r) ==
  /\ removal[r].stage = "checked"
  /\ removal' = [removal EXCEPT ![r].stage = IF ~removal[r].force /\ tree[r] = "dirty"
                                             THEN "overrode"
                                             ELSE "removed"]
  /\ tree' = [tree EXCEPT ![r] = "absent"]
  /\ lock' = [s \in DOMAIN lock |-> IF s \in RunsIn(r) THEN Nobody ELSE lock[s]]
  /\ log' = [s \in DOMAIN log |-> IF s \in RunsIn(r) THEN NoLog ELSE log[s]]
  /\ unguarded' = unguarded \cup { d \in Drivers : Live(d) /\ Root(d) = r }
  /\ UNCHANGED << world, pc, at, sessions, stopping, gate, answers, life >>

(* The server dies with all it runs; its locks name a dead process. *)
KillServer ==
  /\ "kill" \in world.faults /\ life = 1
  /\ life' = 2
  /\ pc' = [d \in Drivers |-> IF d \in Requests /\ pc[d] # "idle" THEN "ended" ELSE pc[d]]
  /\ sessions' = {} /\ answers' = {}
  /\ gate' = [d \in Drivers |-> [gate[d] EXCEPT !.parked = 0]]
  /\ UNCHANGED << world, at, unguarded, lock, stopping, log, tree, removal >>

KillTerminal(t) ==
  /\ "kill" \in world.faults /\ Live(t)
  /\ To(t, "ended")
  /\ UNCHANGED tree /\ UnchangedByRequest

-----------------------------------------------------------------------------
Init ==
  /\ world \in Scenarios
  /\ pc = [d \in Drivers |-> IF d \in DOMAIN world.run THEN "idle" ELSE "ended"] /\ at = [d \in Drivers |-> "compile"]
  /\ unguarded = {}
  /\ lock = [s \in DOMAIN world.root |-> Nobody]
  /\ sessions = {} /\ stopping = {}
  /\ gate = [d \in Drivers |-> NoGate] /\ answers = {}
  /\ log = [s \in DOMAIN world.root |-> NoLog]
  /\ tree = [r \in { world.root[s] : s \in DOMAIN world.root } \cup {Main} |->
               IF r = Main THEN "clean" ELSE "absent"]
  /\ removal = [r \in DOMAIN tree |-> NoRemoval]
  /\ life = 1

(* What a run does of its own accord. *)
RunNext(d) == Boot(d) \/ Leave(d) \/ Begin(d) \/ End(d) \/ Ask(d) \/ Lost(d) \/ Settle(d)

AnswerNext(d) ==
  \E g \in 1 .. gate[d].asked :
    \/ \E decision \in {"revise", "reject"} : Answer(d, g, decision)
    \/ CheckDrift(d, g) \/ Approve(d, g)

Next ==
  \/ \E d \in Requests : Arrive(d) \/ Probe(d) \/ AnswerNext(d)
  \/ \E d \in Drivers : Prepare(d) \/ Acquire(d) \/ RunNext(d) \/ ProxyThrows(d) \/ Stop(d)
  \/ \E t \in Terminals : KillTerminal(t)
  \/ \E r \in DOMAIN tree : Remove(r) \/ (\E force \in BOOLEAN : CheckRemoval(r, force))
  \/ KillServer

Spec == Init /\ [][Next]_vars

(* The steps of a run end; the operator owes nothing. *)
FairSpec == Spec /\ \A d \in Drivers : WF_vars(RunNext(d))

-----------------------------------------------------------------------------
(* Properties. *)

(***************************************************************************)
(* A decision answers the gate it was made for: whatever arrives late or   *)
(* twice, none of a run's gates takes a decision addressed to another, and *)
(* none takes two.                                                         *)
(***************************************************************************)
DecisionsAnswerTheirGate ==
  \A d \in Requests :
    /\ \A x \in gate[d].decided : x.addressed \in {0, x.gate}
    /\ \A x, y \in gate[d].decided : x.gate = y.gate => x = y

Working(d) == pc[d] \in {"doing", "parked"}

(* However requests race, two runs of the server never work in one tree. *)
OneServerRunPerTree ==
  \A d, e \in Requests : Working(d) /\ Working(e) /\ Root(d) = Root(e) => d = e

(***************************************************************************)
(* Whoever drives a tree, from whatever process, is in its way: as long as *)
(* it is live, a request that looks is refused and so is a removal, forced *)
(* or not, whatever others acquire, release, resume or die of meanwhile.   *)
(* Two ways lose a driver its lock file and are excepted: a removal that   *)
(* had looked before it came, and a twin of its run in the same server,    *)
(* whose release unlinks the file they share.  And it speaks of who looks: *)
(* a start or a removal that had looked already, and a terminal, which     *)
(* never looks, are not refused.                                           *)
(***************************************************************************)
DrivenTreesRefuse ==
  \A d \in Drivers : Live(d) /\ d \notin unguarded => AnyRunLockActive(Root(d))

(***************************************************************************)
(* Two runs of the server never work in one tree, and every request and    *)
(* removal that looks while a driver of any process is live sees its lock, *)
(* the two exceptions above aside.                                         *)
(***************************************************************************)
TreesAreExclusive ==
  /\ OneServerRunPerTree
  /\ DrivenTreesRefuse

(***************************************************************************)
(* A lock that names a live process is some live driver's: no tree stays   *)
(* refused, save where a proxy that did not start threw past the release.  *)
(***************************************************************************)
LocksAreDriven ==
  \A s \in DOMAIN lock :
    lock[s] # Nobody /\ IsAlive(lock[s]) =>
      \E d \in DOMAIN world.run : Run(d) = s /\ (Live(d) \/ pc[d] = "thrown")

(* Stopping a run ends it, parked at a gate nobody answers or not. *)
StopEnds == \A d \in Requests : (d \in stopping) ~> ~Live(d)

=============================================================================
